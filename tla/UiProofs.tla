------------------------------ MODULE UiProofs ------------------------------
(***************************************************************************)
(* App, Keymap, Sidebar, and Ui, which has the three in it.                 *)
(* For any depth of dialogs, what is typed for a shell goes to one that is  *)
(* on screen, an answer to the question that is, a dialog that takes no     *)
(* keys waits for a message that is on its way, and the keys lead back to   *)
(* the list.                                                                *)
(* For any table of bindings and any file, the keymap in force is the one   *)
(* the file and the table decide, in whatever order the clashes were        *)
(* resolved, and a key does what its line says unless the line is reported, *)
(* or a line whose action has that key by default.                          *)
(* For any servers and groups, the list has each server once, under its     *)
(* group, and the cursor stays where it was.                                *)
(***************************************************************************)
EXTENDS Ui, TLAPS, WellFoundedInduction, SequenceTheorems, FiniteSetTheorems

\* A session that has the focus is in the tab on screen.
OnScreen ==
    /\ focus \in Areas
    /\ focus = "session" => right = "terminal" /\ cur # "none"

-----------------------------------------------------------------------------
(* Who owns the keyboard.                                                   *)

\* If a row's condition holds, one of the rows up to it is the first to hold.
LEMMA FirstExists ==
    ASSUME NEW claims, NEW n \in Nat, n <= 11, claims[n][2], n >= 1
    PROVE  \E i \in 1..n : claims[i][2] /\ \A j \in 1..(i - 1) : ~claims[j][2]
  <1> DEFINE Holds(m) == claims[m][2]
             First(m) ==
                (\E i \in 1..m : Holds(i)) =>
                    \E i \in 1..m : Holds(i) /\ \A j \in 1..(i - 1) : ~Holds(j)
  <1> HIDE DEF Holds
  <1>1. ASSUME NEW m \in Nat, First(m)
        PROVE  First(m + 1)
    <2>1. CASE \E i \in 1..m : Holds(i)
      BY <2>1, <1>1
    <2>2. CASE ~\E i \in 1..m : Holds(i)
      BY <2>2
    <2> QED
      BY <2>1, <2>2
  <1>2. First(0)
    OBVIOUS
  <1> HIDE DEF First
  <1>3. First(1) /\ First(2) /\ First(3) /\ First(4)
    <2>1. First(0 + 1)
      BY <1>1, <1>2
    <2>2. First(1 + 1)
      BY <1>1, <2>1
    <2>3. First(2 + 1)
      BY <1>1, <2>2
    <2>4. First(3 + 1)
      BY <1>1, <2>3
    <2> QED
      BY <2>1, <2>2, <2>3, <2>4
  <1>4. First(5) /\ First(6) /\ First(7) /\ First(8)
    <2>1. First(4 + 1)
      BY <1>1, <1>3
    <2>2. First(5 + 1)
      BY <1>1, <2>1
    <2>3. First(6 + 1)
      BY <1>1, <2>2
    <2>4. First(7 + 1)
      BY <1>1, <2>3
    <2> QED
      BY <2>1, <2>2, <2>3, <2>4
  <1>5. First(9) /\ First(10) /\ First(11)
    <2>1. First(8 + 1)
      BY <1>1, <1>4
    <2>2. First(9 + 1)
      BY <1>1, <2>1
    <2>3. First(10 + 1)
      BY <1>1, <2>2
    <2> QED
      BY <2>1, <2>2, <2>3
  <1>6. First(n)
    BY <1>3, <1>4, <1>5
  <1>7. Holds(n)
    BY DEF Holds
  <1> QED
    BY <1>6, <1>7 DEF First, Holds

\* The first row whose condition holds is the one FirstOf names.
LEMMA FirstIs ==
    ASSUME NEW claims, NEW n \in Nat, DOMAIN claims = 1..n, NEW k \in 1..n,
           claims[k][2], \A j \in 1..(k - 1) : ~claims[j][2]
    PROVE  FirstOf(claims) = claims[k][1]
  <1> DEFINE first(i) == claims[i][2] /\ \A j \in 1..(i - 1) : ~claims[j][2]
  <1>1. \A i \in 1..n : first(i) => i = k
    <2> SUFFICES ASSUME NEW i \in 1..n, first(i)
                 PROVE  i = k
      OBVIOUS
    <2>1. ~(i < k) /\ ~(k < i)
      OBVIOUS
    <2> QED
      BY <2>1
  <1>2. first(k)
    OBVIOUS
  <1>3. FirstOf(claims) = claims[CHOOSE i \in 1..n : first(i)][1]
    BY DEF FirstOf
  <1> HIDE DEF first
  <1> QED
    BY <1>1, <1>2, <1>3

Dialogs == {"gate", "keyPass", "help", "filter", "rename", "confirm", "pending", "card"}

\* Who gets the next key asks something, and none that comes before it does.
LEMMA OwnerClaims ==
    ASSUME focus \in Areas
    PROVE  /\ Owner = "session" => focus = "session"
           /\ Owner = "gate" => gate # "none"
           /\ Owner # "gate" => gate = "none"
           /\ Owner = "keyPass" => keyPass # "none"
           /\ Owner \in {"help", "rename", "confirm", "pending", "card"} => keyPass = "none"
           /\ Owner \in {"rename", "confirm", "pending", "card"} => "help" \notin up
           /\ Owner = "rename" => "rename" \in up
           /\ Owner \in {"confirm", "pending", "card"} => "rename" \notin up
           /\ Owner = "confirm" => confirm # "none"
           /\ Owner \in {"pending", "card"} => confirm = "none"
           /\ Owner = "pending" => "pending" \in up
           /\ Owner = "card" => "pending" \notin up /\ "card" \in up
           /\ Owner \in {"help", "filter"} => Owner \in up
           /\ Owner \in {"import", "sync", "files", "form"} => focus = Owner
           /\ Owner \in Dialogs \cup Areas
  <1> DEFINE claims == <<
        <<"gate", gate # "none">>, <<"keyPass", keyPass # "none">>, <<"help", "help" \in up>>,
        <<"filter", focus = "list" /\ "filter" \in up>>,
        <<"import", focus = "import">>, <<"sync", focus = "sync">>,
        <<"rename", "rename" \in up>>, <<"confirm", confirm # "none">>,
        <<"pending", "pending" \in up>>, <<"card", focus = "files" /\ "card" \in up>>,
        <<focus, TRUE>> >>
             first(i) == claims[i][2] /\ \A j \in 1..(i - 1) : ~claims[j][2]
  <1>1. DOMAIN claims = 1..11 /\ claims[11][2]
    OBVIOUS
  <1>2. PICK at \in 1..11 : first(at)
    <2> HIDE DEF claims
    <2> QED
      BY <1>1, FirstExists
  <1>3. Owner = claims[at][1]
    <2>1. Owner = FirstOf(claims)
      BY DEF Owner
    <2> HIDE DEF claims
    <2> QED
      BY <2>1, <1>1, <1>2, FirstIs
  <1>4. /\ claims[1][1] = "gate" /\ claims[2][1] = "keyPass" /\ claims[3][1] = "help"
        /\ claims[4][1] = "filter" /\ claims[5][1] = "import" /\ claims[6][1] = "sync"
        /\ claims[7][1] = "rename" /\ claims[8][1] = "confirm" /\ claims[9][1] = "pending"
        /\ claims[10][1] = "card" /\ claims[11][1] = focus
    OBVIOUS
  <1>5. /\ claims[1][2] <=> gate # "none"
        /\ claims[2][2] <=> keyPass # "none"
        /\ claims[3][2] <=> "help" \in up
        /\ claims[4][2] <=> (focus = "list" /\ "filter" \in up)
        /\ claims[5][2] <=> focus = "import"
        /\ claims[6][2] <=> focus = "sync"
        /\ claims[7][2] <=> "rename" \in up
        /\ claims[8][2] <=> confirm # "none"
        /\ claims[9][2] <=> "pending" \in up
        /\ claims[10][2] <=> (focus = "files" /\ "card" \in up)
    OBVIOUS
  <1> HIDE DEF claims
  <1>6. CASE at <= 6
    <2>1. at = 1 \/ at = 2 \/ at = 3 \/ at = 4 \/ at = 5 \/ at = 6
      BY <1>6
    <2>2. (at # 1 => ~claims[1][2]) /\ (at > 2 => ~claims[2][2])
      BY <1>2, <1>6
    <2> QED
      BY <2>1, <2>2, <1>2, <1>3, <1>4, <1>5 DEF Dialogs, Areas
  <1>7. CASE at \in 7..11
    <2>1. at = 7 \/ at = 8 \/ at = 9 \/ at = 10 \/ at = 11
      BY <1>7
    <2>2. /\ ~claims[1][2] /\ ~claims[2][2] /\ ~claims[3][2] /\ (at > 7 => ~claims[7][2])
          /\ (at > 8 => ~claims[8][2]) /\ (at > 9 => ~claims[9][2])
      BY <1>2, <1>7
    <2> QED
      BY <2>1, <2>2, <1>2, <1>3, <1>4, <1>5 DEF Dialogs, Areas
  <1> QED
    BY <1>6, <1>7

-----------------------------------------------------------------------------
(* What the right-hand side shows.                                          *)

\* Outside the split view the gate, the help card, the passphrase and the confirm
\* panel come before the panel itself.
LEMMA PanelAlone ==
    ASSUME right # "sftp"
    PROVE  /\ gate # "none" => Panel = "gate"
           /\ gate = "none" /\ "help" \in up => Panel = "help"
           /\ gate = "none" /\ "help" \notin up =>
                /\ keyPass # "none" => Panel = "keyPass"
                /\ keyPass = "none" /\ confirm # "none" => Panel = "confirm"
  <1> DEFINE claims == << <<"gate", gate # "none">>, <<"help", "help" \in up>>,
                        <<"keyPass", keyPass # "none">>, <<"confirm", confirm # "none">>,
                        <<right, TRUE>> >>
  <1>1. Panel = FirstOf(claims)
    BY DEF Panel
  <1>2. DOMAIN claims = 1..5
    OBVIOUS
  <1>3. /\ claims[1][1] = "gate" /\ claims[2][1] = "help" /\ claims[3][1] = "keyPass"
        /\ claims[4][1] = "confirm"
    OBVIOUS
  <1>4. /\ claims[1][2] <=> gate # "none"
        /\ claims[2][2] <=> "help" \in up
        /\ claims[3][2] <=> keyPass # "none"
        /\ claims[4][2] <=> confirm # "none"
    OBVIOUS
  <1> HIDE DEF claims
  <1>5. \A k \in 1..5 : claims[k][2] /\ (\A j \in 1..(k - 1) : ~claims[j][2]) =>
            Panel = claims[k][1]
    BY <1>1, <1>2, FirstIs
  <1>6. gate # "none" => Panel = "gate"
    BY <1>3, <1>4, <1>5
  <1>7. gate = "none" /\ "help" \in up => Panel = "help"
    BY <1>3, <1>4, <1>5
  <1>8. gate = "none" /\ "help" \notin up /\ keyPass # "none" => Panel = "keyPass"
    BY <1>3, <1>4, <1>5
  <1>9. gate = "none" /\ "help" \notin up /\ keyPass = "none" /\ confirm # "none" =>
            Panel = "confirm"
    BY <1>3, <1>4, <1>5
  <1> QED
    BY <1>6, <1>7, <1>8, <1>9

\* In the split view the help card, the rename and the waiting transfer come
\* before the panel.
LEMMA PanelSplit ==
    ASSUME right = "sftp"
    PROVE  /\ gate # "none" => Panel = "gate"
           /\ gate = "none" /\ "help" \in up => Panel = "help"
           /\ gate = "none" /\ "help" \notin up =>
                /\ "rename" \in up => Panel = "rename"
                /\ "rename" \notin up =>
                     /\ "pending" \in up => Panel = "pending"
                     /\ "pending" \notin up /\ confirm # "none" => Panel = "confirm"
                     /\ "pending" \notin up /\ confirm = "none" /\ "card" \in up =>
                            Panel = "card"
  <1> DEFINE claims == << <<"gate", gate # "none">>, <<"help", "help" \in up>>,
                        <<"rename", "rename" \in up>>, <<"pending", "pending" \in up>>,
                        <<"confirm", confirm # "none">>, <<"card", "card" \in up>>,
                        <<"files", TRUE>> >>
  <1>1. Panel = FirstOf(claims)
    BY DEF Panel
  <1>2. DOMAIN claims = 1..7
    OBVIOUS
  <1>3. /\ claims[1][1] = "gate" /\ claims[2][1] = "help" /\ claims[3][1] = "rename"
        /\ claims[4][1] = "pending" /\ claims[5][1] = "confirm" /\ claims[6][1] = "card"
    OBVIOUS
  <1>4. /\ claims[1][2] <=> gate # "none"
        /\ claims[2][2] <=> "help" \in up
        /\ claims[3][2] <=> "rename" \in up
        /\ claims[4][2] <=> "pending" \in up
        /\ claims[5][2] <=> confirm # "none"
        /\ claims[6][2] <=> "card" \in up
    OBVIOUS
  <1> HIDE DEF claims
  <1>5. \A k \in 1..7 : claims[k][2] /\ (\A j \in 1..(k - 1) : ~claims[j][2]) =>
            Panel = claims[k][1]
    BY <1>1, <1>2, FirstIs
  <1>6. gate # "none" => Panel = "gate"
    BY <1>3, <1>4, <1>5
  <1>7. gate = "none" /\ "help" \in up => Panel = "help"
    BY <1>3, <1>4, <1>5
  <1>8. gate = "none" /\ "help" \notin up /\ "rename" \in up => Panel = "rename"
    BY <1>3, <1>4, <1>5
  <1>9. ASSUME gate = "none", "help" \notin up, "rename" \notin up
        PROVE  /\ "pending" \in up => Panel = "pending"
               /\ "pending" \notin up /\ confirm # "none" => Panel = "confirm"
               /\ "pending" \notin up /\ confirm = "none" /\ "card" \in up => Panel = "card"
    <2>1. "pending" \in up => Panel = "pending"
      BY <1>3, <1>4, <1>5, <1>9
    <2>2. "pending" \notin up /\ confirm # "none" => Panel = "confirm"
      BY <1>3, <1>4, <1>5, <1>9
    <2>3. "pending" \notin up /\ confirm = "none" /\ "card" \in up => Panel = "card"
      BY <1>3, <1>4, <1>5, <1>9
    <2> QED
      BY <2>1, <2>2, <2>3
  <1> QED
    BY <1>6, <1>7, <1>8, <1>9

-----------------------------------------------------------------------------
(* What handlers share keeps a session with the focus on screen.            *)

LEMMA ShownElsewhere ==
    ASSUME NEW r, NEW f \in Areas, Show(r, f), f # "session"
    PROVE  OnScreen'
  BY DEF Show, OnScreen

LEMMA SwitchKeeps ==
    ASSUME NEW front, NEW back, NEW held \in Areas,
           SwitchTo(front, back, held), front # "none"
    PROVE  OnScreen'
  BY DEF SwitchTo, Show, OnScreen, Areas

LEMMA NewTabKeeps ==
    ASSUME OnScreen, NewTab
    PROVE  OnScreen'
  <1>1. CASE bg # "none"
    BY <1>1 DEF NewTab, AddTab, OnScreen, screen
  <1>2. CASE bg = "none"
    BY <1>2, ShownElsewhere DEF NewTab, Areas
  <1> QED
    BY <1>1, <1>2

LEMMA ShowOrNewKeeps ==
    ASSUME OnScreen, NEW held \in Areas, ShowOrNewTab(held)
    PROVE  OnScreen'
  BY NewTabKeeps, SwitchKeeps DEF ShowOrNewTab

LEMMA FilesKeep ==
    ASSUME NEW rest, StartFiles(rest)
    PROVE  OnScreen'
  BY ShownElsewhere DEF StartFiles, Areas

LEMMA RestoreKeeps ==
    ASSUME NEW form, Restore(form)
    PROVE  OnScreen'
  BY DEF Restore, OnScreen, Areas

LEMMA CloseKeeps ==
    ASSUME OnScreen, CloseCurrent \/ CloseBackground
    PROVE  OnScreen'
  <1>1. CASE CloseCurrent /\ bg = "none" /\ right = "terminal"
    BY <1>1, ShownElsewhere DEF CloseCurrent, Areas
  <1>2. CASE CloseCurrent /\ ~(bg = "none" /\ right = "terminal")
    BY <1>2 DEF CloseCurrent, OnScreen, screen
  <1>3. CASE CloseBackground
    BY <1>3 DEF CloseBackground, OnScreen, screen
  <1> QED
    BY <1>1, <1>2, <1>3

LEMMA ResumeKeeps ==
    ASSUME OnScreen, NEW what, NEW rest, Resume(what, rest)
    PROVE  OnScreen'
  BY NewTabKeeps, FilesKeep DEF Resume

LEMMA SyncFormKeeps ==
    ASSUME OpenSyncForm
    PROVE  OnScreen'
  BY DEF OpenSyncForm, OnScreen, Areas

LEMMA ActivateKeeps ==
    ASSUME OnScreen, Activate
    PROVE  OnScreen'
  BY ShownElsewhere, ShowOrNewKeeps DEF Activate, Areas

LEMMA UntouchedKeeps ==
    ASSUME OnScreen, UNCHANGED <<screen, cur>>
    PROVE  OnScreen'
  BY DEF OnScreen, screen

\* Keys that take a dialog down or leave a panel.
LEMMA StepBackKeeps ==
    ASSUME OnScreen, StepBack
    PROVE  OnScreen'
  <1>1. CASE CancelGate \/ CancelKeyPass \/ CancelPending \/ AnswerConfirm
    BY <1>1, UntouchedKeeps
       DEF CancelGate, CancelKeyPass, CancelPending, AnswerConfirm, world
  <1>2. ASSUME NEW d \in {"help", "filter", "rename", "card"}, CloseSimple(d)
        PROVE  OnScreen'
    BY <1>2, UntouchedKeeps DEF CloseSimple, world
  <1>3. ASSUME NEW d \in {"import", "sync"}, CancelForm(d)
        PROVE  OnScreen'
    BY <1>3, RestoreKeeps, ShownElsewhere DEF CancelForm, Areas
  <1>4. CASE LeavePanel
    BY <1>4, ShownElsewhere DEF LeavePanel, Areas
  <1> QED
    BY <1>1, <1>2, <1>3, <1>4 DEF StepBack

\* The other keys, and the mouse.
LEMMA UserKeyKeeps ==
    ASSUME OnScreen, UserKey
    PROVE  OnScreen'
  <1>1. CASE SubmitGate \/ AcceptImport \/ SubmitSync \/ StartTransfer \/ StartPlan
    BY <1>1, UntouchedKeeps
       DEF SubmitGate, AcceptImport, SubmitSync, StartTransfer, StartPlan, world
  <1>2. CASE StartRename \/ SubmitForm \/ AskDelete \/ StartPull \/ StartFilter
    BY <1>2, UntouchedKeeps
       DEF StartRename, SubmitForm, AskDelete, StartPull, StartFilter, world
  <1>3. CASE OpenHelp \/ ClickCard
    BY <1>3, UntouchedKeeps DEF OpenHelp, ClickCard, world
  <1>4. CASE EnterKeyPass
    BY <1>4, ResumeKeeps, UntouchedKeeps DEF EnterKeyPass, world
  <1>5. CASE Retry
    BY <1>5, FilesKeep, ShowOrNewKeeps DEF Retry, OnScreen
  <1>6. CASE Edit \/ DismissError
    BY <1>6, ShownElsewhere DEF Edit, DismissError, Areas
  <1>7. CASE ActivateRow \/ NewSession
    BY <1>7, ActivateKeeps, NewTabKeeps DEF ActivateRow, NewSession
  <1>8. CASE OpenFiles
    BY <1>8, ShownElsewhere, FilesKeep DEF OpenFiles, Areas
  <1>9. CASE OpenImport
    BY <1>9 DEF OpenImport, OnScreen, Areas
  <1>10. CASE OpenSync
    BY <1>10, SyncFormKeeps, UntouchedKeeps DEF OpenSync, world
  <1>11. CASE FocusPanel
    BY <1>11 DEF FocusPanel, Show, OnScreen, Areas, world
  <1>12. CASE TabKey
    BY <1>12, SwitchKeeps, CloseKeeps DEF TabKey, OnScreen
  <1>13. CASE ClickList
    BY <1>13, ShownElsewhere, ActivateKeeps DEF ClickList, Areas
  <1>14. CASE ClickPanel
    BY <1>14 DEF ClickPanel, Show, OnScreen, Areas, world
  <1>15. CASE DragRows
    BY <1>15, ShownElsewhere DEF DragRows, Areas
  <1> QED
    BY <1>1, <1>2, <1>3, <1>4, <1>5, <1>6, <1>7, <1>8, <1>9, <1>10, <1>11, <1>12,
       <1>13, <1>14, <1>15 DEF UserKey

\* The messages of dials and commands.
LEMMA MessageKeeps ==
    ASSUME OnScreen, Message
    PROVE  OnScreen'
  <1>1. CASE Connected
    BY <1>1 DEF Connected, Show, OnScreen, Areas, screen
  <1>2. CASE RetryFailed \/ HostKeyAnswered \/ FilesConnected \/ Planned \/ PurgePlanned
    BY <1>2, UntouchedKeeps
       DEF RetryFailed, HostKeyAnswered, FilesConnected, Planned, PurgePlanned, world
  <1>3. CASE FirstFailed
    BY <1>3, CloseKeeps, ShownElsewhere DEF FirstFailed, Areas
  <1>4. CASE SessionEnded
    <2>1. CASE CloseCurrent \/ CloseBackground
      BY <2>1, CloseKeeps
    <2>2. CASE (cur' = "down" \/ cur' = cur) /\ UNCHANGED screen
      BY <2>2 DEF OnScreen, screen
    <2> QED
      BY <1>4, <2>1, <2>2 DEF SessionEnded
  <1>5. CASE AskHostKey \/ Fetched
    BY <1>5, ShownElsewhere, UntouchedKeeps DEF AskHostKey, Fetched, Areas, world
  <1>6. CASE FilesFailed
    BY <1>6, ShownElsewhere, UntouchedKeeps DEF FilesFailed, Areas
  <1>7. CASE Parsed \/ Imported \/ Checked
    BY <1>7, RestoreKeeps, UntouchedKeeps DEF Parsed, Imported, Checked, world
  <1>8. CASE Saved
    BY <1>8, ShownElsewhere, UntouchedKeeps DEF Saved, Areas, world
  <1>9. CASE UnlockFailed
    BY <1>9, UntouchedKeeps DEF UnlockFailed, world
  <1>10. CASE Unlocked
    BY <1>10, UntouchedKeeps, SyncFormKeeps, ResumeKeeps DEF Unlocked, world
  <1> QED
    BY <1>1, <1>2, <1>3, <1>4, <1>5, <1>6, <1>7, <1>8, <1>9, <1>10 DEF Message

\* The invariant both theorems rest on.
LEMMA ShellInvariance == AppSpec => []OnScreen
  <1>1. AppInit => OnScreen
    BY DEF AppInit, OnScreen, Areas
  <1>2. OnScreen /\ [AppNext]_appVars => OnScreen'
    <2>1. ASSUME OnScreen, UNCHANGED appVars
          PROVE  OnScreen'
      BY <2>1, UntouchedKeeps DEF appVars, world
    <2> QED
      BY <2>1, StepBackKeeps, UserKeyKeeps, MessageKeeps DEF AppNext
  <1> QED
    BY <1>1, <1>2, PTL DEF AppSpec

\* However deep the dialogs and however many messages are under way, a key typed
\* for a shell goes to one that is on screen.
THEOREM ShellIsOnScreen == AppSpec => []ShellOnScreen
  <1>1. OnScreen => ShellOnScreen
    BY OwnerClaims DEF OnScreen, ShellOnScreen
  <1> QED
    BY <1>1, ShellInvariance, PTL

\* However deep they are, the question a key answers is the one on screen, the
\* four exceptions of AnsweredAsShown apart: handleKey and View, two lists of
\* dialogs in two orders, agree on who comes first.
THEOREM AnswersAreForWhatIsShown == AppSpec => []AnsweredAsShown
  <1>1. ASSUME focus \in Areas
        PROVE  AnsweredAsShown
    <2>1. CASE right = "sftp"
      BY <1>1, <2>1, OwnerClaims, PanelSplit DEF AnsweredAsShown
    <2>2. CASE right # "sftp"
      BY <1>1, <2>2, OwnerClaims, PanelAlone DEF AnsweredAsShown
    <2> QED
      BY <2>1, <2>2
  <1>2. OnScreen => AnsweredAsShown
    BY <1>1 DEF OnScreen
  <1> QED
    BY <1>2, ShellInvariance, PTL

-----------------------------------------------------------------------------
(* The types of the event loop, and what a dialog that takes no keys waits  *)
(* for.                                                                     *)

ScreenTyped == focus \in Areas /\ right \in Rights /\ prev \in Rights
UpTyped ==
    up \subseteq {"import", "sync", "rename", "pending", "card", "help", "filter"}
VaultTyped ==
    /\ gate \in {"none", "asked", "busy"}
    /\ after \in {"none", "save", "sync", "tab", "files"} /\ opened \in BOOLEAN
WorldTyped ==
    /\ cur \in TabStates /\ bg \in TabStates
    /\ files \in {"none", "dialing", "up"} /\ forFiles \in BOOLEAN
MsgsTyped ==
    msgs \subseteq {"parsed", "imported", "saved", "checked", "fetched", "answered",
                    "unlocked", "planned", "purgePlanned"}

RestTyped ==
    /\ confirm \in Questions \cup {"none"} /\ keyPass \in {"none", "tab", "files"}
    /\ checking \in BOOLEAN

\* The type is the sum of its parts, before a step and after it.
LEMMA PartsOfType ==
    /\ AppTypeOK <=> /\ ScreenTyped /\ UpTyped /\ VaultTyped
                     /\ WorldTyped /\ MsgsTyped /\ RestTyped
    /\ AppTypeOK' <=> /\ ScreenTyped' /\ UpTyped' /\ VaultTyped'
                      /\ WorldTyped' /\ MsgsTyped' /\ RestTyped'
  BY DEF AppTypeOK, ScreenTyped, UpTyped, VaultTyped, WorldTyped, MsgsTyped, RestTyped

\* A variable that is left alone keeps its type.
LEMMA UntouchedTyped ==
    ASSUME AppTypeOK
    PROVE  /\ UNCHANGED screen => ScreenTyped'
           /\ UNCHANGED up => UpTyped'
           /\ UNCHANGED vault => VaultTyped'
           /\ UNCHANGED world => WorldTyped'
           /\ UNCHANGED msgs => MsgsTyped'
           /\ UNCHANGED <<confirm, keyPass, checking>> => RestTyped'
  BY PartsOfType DEF ScreenTyped, UpTyped, VaultTyped, WorldTyped, MsgsTyped, RestTyped,
     screen, vault, world

\* What handlers share.
LEMMA ShowTyped ==
    ASSUME AppTypeOK, NEW r \in Rights, NEW f \in Areas, Show(r, f)
    PROVE  ScreenTyped'
  BY PartsOfType DEF Show, ScreenTyped

LEMMA TabsTyped ==
    ASSUME AppTypeOK
    PROVE  /\ NewTab => ScreenTyped' /\ WorldTyped'
           /\ \A held \in Areas : ShowOrNewTab(held) => ScreenTyped' /\ WorldTyped'
           /\ \A a, b \in TabStates, held \in Areas :
                SwitchTo(a, b, held) => ScreenTyped' /\ WorldTyped'
           /\ CloseCurrent => ScreenTyped' /\ cur' \in TabStates /\ bg' \in TabStates
           /\ CloseBackground => ScreenTyped' /\ cur' \in TabStates /\ bg' \in TabStates
           /\ Activate => ScreenTyped' /\ WorldTyped'
  <1>0. /\ ScreenTyped /\ WorldTyped /\ "none" \in TabStates /\ "connecting" \in TabStates
        /\ {"terminal", "empty", "form"} \subseteq Rights
        /\ {"list", "session", "form"} \subseteq Areas
    BY PartsOfType DEF TabStates, Rights, Areas
  <1>1. ASSUME NewTab
        PROVE  ScreenTyped' /\ WorldTyped'
    <2>1. ScreenTyped'
      BY <1>0, <1>1, ShowTyped, UntouchedTyped DEF NewTab, screen
    <2>2. WorldTyped'
      BY <1>0, <1>1 DEF NewTab, AddTab, WorldTyped
    <2> QED
      BY <2>1, <2>2
  <1>2. ASSUME NEW a \in TabStates, NEW b \in TabStates, NEW held \in Areas,
               SwitchTo(a, b, held)
        PROVE  ScreenTyped' /\ WorldTyped'
    BY <1>0, <1>2, ShowTyped DEF SwitchTo, WorldTyped
  <1>3. ASSUME NEW held \in Areas, ShowOrNewTab(held)
        PROVE  ScreenTyped' /\ WorldTyped'
    BY <1>0, <1>1, <1>2, <1>3 DEF ShowOrNewTab, WorldTyped
  <1>4. CloseCurrent => ScreenTyped' /\ cur' \in TabStates /\ bg' \in TabStates
    BY <1>0, ShowTyped, UntouchedTyped DEF CloseCurrent, WorldTyped
  <1>5. CloseBackground => ScreenTyped' /\ cur' \in TabStates /\ bg' \in TabStates
    BY <1>0, UntouchedTyped DEF CloseBackground, WorldTyped
  <1>6. Activate => ScreenTyped' /\ WorldTyped'
    BY <1>0, <1>3, ShowTyped, UntouchedTyped DEF Activate
  <1> QED
    BY <1>1, <1>2, <1>3, <1>4, <1>5, <1>6

LEMMA FilesTyped ==
    ASSUME AppTypeOK, NEW rest, StartFiles(rest)
    PROVE  /\ ScreenTyped' /\ UpTyped'
           /\ files' = "dialing" /\ forFiles' \in BOOLEAN /\ msgs' \subseteq rest
  BY PartsOfType, ShowTyped DEF StartFiles, UpTyped, Rights, Areas

LEMMA FormsTyped ==
    ASSUME AppTypeOK
    PROVE  /\ OpenSyncForm => ScreenTyped' /\ UpTyped' /\ checking' = FALSE
           /\ \A form : Restore(form) => ScreenTyped' /\ UpTyped'
  BY PartsOfType DEF OpenSyncForm, Restore, ScreenTyped, UpTyped, Rights, Areas

LEMMA ResumeTyped ==
    ASSUME AppTypeOK, NEW what, NEW rest, rest \subseteq msgs, Resume(what, rest)
    PROVE  ScreenTyped' /\ UpTyped' /\ WorldTyped' /\ MsgsTyped'
  <1>1. CASE what = "tab"
    BY <1>1, PartsOfType, TabsTyped DEF Resume, UpTyped, MsgsTyped
  <1>2. CASE what # "tab"
    <2>1. AddTab("connecting") /\ StartFiles(rest)
      BY <1>2 DEF Resume
    <2>2. cur' \in TabStates /\ bg' \in TabStates
      BY <2>1, PartsOfType DEF AddTab, WorldTyped, TabStates
    <2> QED
      BY <2>1, <2>2, PartsOfType, FilesTyped DEF WorldTyped, MsgsTyped
  <1> QED
    BY <1>1, <1>2

-----------------------------------------------------------------------------

\* Types through the keys that take a dialog down or leave a panel.
LEMMA StepBackTyped ==
    ASSUME AppTypeOK, StepBack
    PROVE  AppTypeOK'
  <1>1. CASE CancelGate
    BY <1>1, PartsOfType, UntouchedTyped DEF RestTyped, CancelGate, VaultTyped
  <1>2. CASE CancelKeyPass \/ LeavePanel
    BY <1>2, PartsOfType, UntouchedTyped, ShowTyped
       DEF RestTyped, CancelKeyPass, LeavePanel, dialogs, ScreenTyped, Rights, Areas
  <1>3. CASE CancelPending \/ AnswerConfirm
    BY <1>3, PartsOfType, UntouchedTyped
       DEF RestTyped, CancelPending, AnswerConfirm, UpTyped, MsgsTyped
  <1>4. ASSUME NEW d, CloseSimple(d)
        PROVE  AppTypeOK'
    BY <1>4, PartsOfType, UntouchedTyped DEF RestTyped, CloseSimple, UpTyped
  <1>5. ASSUME NEW d, CancelForm(d)
        PROVE  AppTypeOK'
    <2>1. ScreenTyped' /\ UpTyped'
      BY <1>5, PartsOfType, UntouchedTyped, ShowTyped, FormsTyped
         DEF RestTyped, CancelForm, ScreenTyped, Areas
    <2> QED
      BY <1>5, <2>1, PartsOfType, UntouchedTyped DEF RestTyped, CancelForm
  <1> QED
    BY <1>1, <1>2, <1>3, <1>4, <1>5 DEF StepBack

\* Types through the other keys, and the mouse.
LEMMA UserKeyTyped ==
    ASSUME AppTypeOK, UserKey
    PROVE  AppTypeOK'
  <1>1. CASE SubmitGate \/ AcceptImport \/ SubmitSync \/ StartPlan \/ StartPull
    BY <1>1, PartsOfType, UntouchedTyped
       DEF RestTyped, SubmitGate, AcceptImport, SubmitSync, StartPlan, StartPull, Send, dialogs,
           VaultTyped, MsgsTyped
  <1>2. CASE StartTransfer \/ StartRename \/ StartFilter \/ OpenHelp \/ ClickCard
    BY <1>2, PartsOfType, UntouchedTyped
       DEF RestTyped, StartTransfer, StartRename, StartFilter, OpenHelp, ClickCard, UpTyped
  <1>3. CASE EnterKeyPass
    <2>1. CASE opened
      BY <1>3, <2>1, PartsOfType, UntouchedTyped, ResumeTyped DEF RestTyped, EnterKeyPass
    <2>2. CASE ~opened
      BY <1>3, <2>2, PartsOfType, UntouchedTyped DEF RestTyped, EnterKeyPass, VaultTyped
    <2> QED
      BY <2>1, <2>2
  <1>4. CASE Retry
    <2>1. CASE forFiles
      BY <1>4, <2>1, PartsOfType, UntouchedTyped, FilesTyped
         DEF RestTyped, Retry, WorldTyped, MsgsTyped
    <2>2. CASE ~forFiles
      BY <1>4, <2>2, PartsOfType, UntouchedTyped, TabsTyped DEF RestTyped, Retry, ScreenTyped
    <2> QED
      BY <2>1, <2>2
  <1>5. CASE Edit \/ DismissError \/ AskDelete
    BY <1>5, PartsOfType, UntouchedTyped, ShowTyped
       DEF RestTyped, Edit, DismissError, AskDelete, dialogs, UpTyped, Rights, Areas, Questions
  <1>6. CASE SubmitForm
    BY <1>6, PartsOfType, UntouchedTyped DEF RestTyped, SubmitForm, Send, VaultTyped, MsgsTyped
  <1>7. CASE ActivateRow \/ NewSession \/ ClickList
    BY <1>7, PartsOfType, UntouchedTyped, TabsTyped, ShowTyped
       DEF RestTyped, ActivateRow, NewSession, ClickList, dialogs, ScreenTyped, Areas
  <1>8. CASE OpenFiles
    <2>1. ScreenTyped' /\ UpTyped' /\ WorldTyped' /\ MsgsTyped'
      BY <1>8, PartsOfType, UntouchedTyped, ShowTyped, FilesTyped
         DEF RestTyped, OpenFiles, WorldTyped, MsgsTyped, Rights, Areas
    <2> QED
      BY <1>8, <2>1, PartsOfType, UntouchedTyped DEF RestTyped, OpenFiles
  <1>9. CASE OpenImport
    BY <1>9, PartsOfType, UntouchedTyped
       DEF RestTyped, OpenImport, Send, ScreenTyped, UpTyped, MsgsTyped, Rights, Areas
  <1>10. CASE OpenSync
    BY <1>10, PartsOfType, UntouchedTyped, FormsTyped DEF RestTyped, OpenSync, VaultTyped
  <1>11. CASE FocusPanel \/ ClickPanel
    BY <1>11, PartsOfType, UntouchedTyped, ShowTyped
       DEF RestTyped, FocusPanel, ClickPanel, dialogs, ScreenTyped, Areas
  <1>12. CASE TabKey
    <2>1. ScreenTyped' /\ WorldTyped'
      BY <1>12, PartsOfType, TabsTyped DEF TabKey, ScreenTyped, WorldTyped
    <2> QED
      BY <1>12, <2>1, PartsOfType, UntouchedTyped DEF RestTyped, TabKey, dialogs
  <1>13. CASE DragRows
    BY <1>13, PartsOfType, UntouchedTyped, ShowTyped
       DEF RestTyped, DragRows, dialogs, Send, ScreenTyped, MsgsTyped, Areas
  <1> QED
    BY <1>1, <1>2, <1>3, <1>4, <1>5, <1>6, <1>7, <1>8, <1>9, <1>10, <1>11, <1>12,
       <1>13 DEF UserKey

\* Types through the messages of dials and commands.
LEMMA MessageTyped ==
    ASSUME AppTypeOK, Message
    PROVE  AppTypeOK'
  <1>1. CASE Connected \/ SessionEnded
    <2>1. ScreenTyped' /\ WorldTyped'
      BY <1>1, PartsOfType, UntouchedTyped, ShowTyped, TabsTyped
         DEF RestTyped, Connected, SessionEnded, ScreenTyped, WorldTyped, TabStates, Rights, Areas
    <2> QED
      BY <1>1, <2>1, PartsOfType, UntouchedTyped DEF RestTyped, Connected, SessionEnded, dialogs
  <1>2. CASE RetryFailed \/ HostKeyAnswered \/ PurgePlanned \/ Planned
    BY <1>2, PartsOfType, UntouchedTyped
       DEF RestTyped, RetryFailed, HostKeyAnswered, PurgePlanned, Planned, UpTyped, MsgsTyped, Questions
  <1>3. CASE FirstFailed
    <2>1. ScreenTyped' /\ WorldTyped'
      BY <1>3, PartsOfType, UntouchedTyped, ShowTyped, TabsTyped
         DEF RestTyped, FirstFailed, WorldTyped, TabStates, Rights, Areas
    <2> QED
      BY <1>3, <2>1, PartsOfType, UntouchedTyped DEF RestTyped, FirstFailed
  <1>4. CASE AskHostKey \/ Fetched
    BY <1>4, PartsOfType, UntouchedTyped, ShowTyped
       DEF RestTyped, AskHostKey, Fetched, MsgsTyped, ScreenTyped, Questions, Areas
  <1>5. CASE FilesConnected \/ FilesFailed
    <2>1. ScreenTyped' /\ WorldTyped' /\ UpTyped'
      BY <1>5, PartsOfType, UntouchedTyped, ShowTyped
         DEF RestTyped, FilesConnected, FilesFailed, dialogs, WorldTyped, UpTyped, ScreenTyped, Areas
    <2> QED
      BY <1>5, <2>1, PartsOfType, UntouchedTyped DEF RestTyped, FilesConnected, FilesFailed, dialogs
  <1>6. CASE Parsed \/ Imported
    BY <1>6, PartsOfType, UntouchedTyped, FormsTyped
       DEF RestTyped, Parsed, Imported, UpTyped, MsgsTyped
  <1>7. CASE Saved \/ Checked
    BY <1>7, PartsOfType, UntouchedTyped, ShowTyped, FormsTyped
       DEF RestTyped, Saved, Checked, MsgsTyped, dialogs, Rights, Areas
  <1>8. CASE UnlockFailed
    BY <1>8, PartsOfType, UntouchedTyped DEF RestTyped, UnlockFailed, VaultTyped, MsgsTyped
  <1>9. CASE Unlocked
    <2>1. VaultTyped' /\ UNCHANGED <<confirm, keyPass>>
      BY <1>9 DEF Unlocked, VaultTyped
    <2> DEFINE rest == msgs \ {"unlocked"}
    <2>2. CASE /\ after = "save" /\ msgs' = rest \cup {"saved"}
               /\ UNCHANGED <<screen, up, checking, world>>
      BY <2>1, <2>2, PartsOfType, UntouchedTyped DEF RestTyped, MsgsTyped
    <2>3. CASE after = "sync" /\ OpenSyncForm /\ msgs' = rest /\ UNCHANGED world
      BY <2>1, <2>3, PartsOfType, UntouchedTyped, FormsTyped DEF RestTyped, MsgsTyped
    <2>4. CASE after \in {"tab", "files"} /\ Resume(after, rest) /\ UNCHANGED checking
      <3>1. ScreenTyped' /\ UpTyped' /\ WorldTyped' /\ MsgsTyped'
        BY <2>4, ResumeTyped
      <3>2. RestTyped'
        BY <2>1, <2>4, UntouchedTyped
      <3> QED
        BY <2>1, <3>1, <3>2, PartsOfType
    <2> QED
      BY <1>9, <2>2, <2>3, <2>4 DEF Unlocked
  <1> QED
    BY <1>1, <1>2, <1>3, <1>4, <1>5, <1>6, <1>7, <1>8, <1>9 DEF Message

\* What is on screen, open, connected and on its way is within its types.
THEOREM AppTyped == AppSpec => []AppTypeOK
  <1>1. AppInit => AppTypeOK
    BY DEF AppInit, AppTypeOK, Areas, Rights, TabStates
  <1>2. ASSUME AppTypeOK, UNCHANGED appVars
        PROVE  AppTypeOK'
    BY <1>2, PartsOfType, UntouchedTyped DEF RestTyped, appVars, dialogs
  <1>3. AppTypeOK /\ [AppNext]_appVars => AppTypeOK'
    BY <1>2, StepBackTyped, UserKeyTyped, MessageTyped DEF AppNext
  <1> QED
    BY <1>1, <1>3, PTL DEF AppSpec

\* A dialog that waits for a command has its answer on the way: the gate, which
\* was asked for on behalf of something, and the sync form.
Waits ==
    /\ gate # "none" => after # "none"
    /\ gate = "busy" <=> "unlocked" \in msgs
    /\ checking => "checked" \in msgs

\* Neither wait begins or ends.
Calm ==
    /\ gate' = gate /\ after' = after /\ checking' = checking
    /\ \A m \in {"unlocked", "checked"} : m \in msgs <=> m \in msgs'

LEMMA CalmKeeps ==
    ASSUME Waits, Calm
    PROVE  Waits'
  BY DEF Waits, Calm

LEMMA WaitsKept ==
    ASSUME Waits, focus \in Areas, AppNext
    PROVE  Waits'
  <1>1. ASSUME StepBack
        PROVE  Waits'
    <2>1. CASE CancelGate
      BY <2>1 DEF CancelGate, Waits
    <2>2. ASSUME NEW d, CancelForm(d)
          PROVE  Waits'
      BY <2>2 DEF CancelForm, vault, Waits
    <2>3. CASE ~CancelGate /\ ~\E d \in {"import", "sync"} : CancelForm(d)
      <3>1. Calm
        BY <1>1, <2>3 DEF StepBack, CancelKeyPass, CancelPending, CloseSimple, AnswerConfirm,
           LeavePanel, dialogs, vault, Calm
      <3> QED
        BY <3>1, CalmKeeps
    <2> QED
      BY <2>1, <2>2, <2>3
  <1>2. ASSUME UserKey
        PROVE  Waits'
    <2>1. CASE SubmitGate
      BY <2>1 DEF SubmitGate, Send, Waits
    <2>2. CASE SubmitSync
      BY <2>2 DEF SubmitSync, Send, vault, Waits
    <2>3. CASE EnterKeyPass
      <3>1. CASE opened
        <4>1. Calm
          BY <2>3, <3>1 DEF EnterKeyPass, Resume, StartFiles, vault, Calm
        <4> QED
          BY <4>1, CalmKeeps
      <3>2. CASE ~opened
        BY <2>3, <3>2, OwnerClaims DEF EnterKeyPass, Waits
      <3> QED
        BY <3>1, <3>2
    <2>4. CASE SubmitForm
      BY <2>4, OwnerClaims DEF SubmitForm, Send, vault, Waits
    <2>5. CASE OpenSync
      BY <2>5, OwnerClaims DEF OpenSync, OpenSyncForm, vault, Waits
    <2>6. CASE Retry \/ OpenFiles
      <3>1. Calm
        BY <2>6 DEF Retry, OpenFiles, StartFiles, vault, Calm
      <3> QED
        BY <3>1, CalmKeeps
    <2>7. CASE ~(SubmitGate \/ SubmitSync \/ EnterKeyPass \/ SubmitForm \/ OpenSync
                    \/ Retry \/ OpenFiles)
      <3>1. Calm
        BY <1>2, <2>7 DEF UserKey, AcceptImport, StartTransfer, StartPlan, StartRename, Edit,
           ActivateRow, NewSession, AskDelete, DismissError, OpenImport, StartPull,
           FocusPanel, StartFilter, OpenHelp, TabKey, ClickCard, ClickList, ClickPanel,
           DragRows, Send, dialogs, vault, Calm
      <3> QED
        BY <3>1, CalmKeeps
    <2> QED
      BY <2>1, <2>2, <2>3, <2>4, <2>5, <2>6, <2>7
  <1>3. ASSUME Message
        PROVE  Waits'
    <2>1. CASE Checked
      BY <2>1 DEF Checked, vault, Waits
    <2>2. CASE UnlockFailed
      BY <2>2 DEF UnlockFailed, Waits
    <2>3. CASE Unlocked
      <3>0. "unlocked" \notin msgs'
        BY <2>3 DEF Unlocked, Resume, StartFiles
      <3>1. gate' = "none" /\ (checking' = checking \/ checking' = FALSE)
        BY <2>3 DEF Unlocked, OpenSyncForm
      <3>2. "checked" \in msgs => "checked" \in msgs'
        BY <2>3 DEF Unlocked, Resume, StartFiles
      <3> QED
        BY <3>0, <3>1, <3>2 DEF Waits
    <2>4. CASE ~(Checked \/ UnlockFailed \/ Unlocked)
      <3>1. Calm
        BY <1>3, <2>4 DEF Message, Connected, RetryFailed, FirstFailed, SessionEnded,
           AskHostKey, HostKeyAnswered, FilesConnected, FilesFailed, Planned, PurgePlanned,
           Parsed, Imported, Saved, Fetched, dialogs, vault, Calm
      <3> QED
        BY <3>1, CalmKeeps
    <2> QED
      BY <2>1, <2>2, <2>3, <2>4
  <1> QED
    BY <1>1, <1>2, <1>3 DEF AppNext

\* The owner of the keyboard takes no keys.
Shut == (Owner = "gate" /\ gate # "asked") \/ (Owner = "sync" /\ checking)

\* A dialog that takes no keys (unlock.go:184, sync.go:313) waits for a message
\* that is on its way, and which ends the wait: no click, escape or other message
\* leaves the user shut out.  With WayOut this is why nobody gets stuck.
THEOREM WaitsAreAnswered == AppSpec => [](Shut => Busy)
  <1>1. AppInit => Waits
    BY DEF AppInit, Waits
  <1>2. Waits /\ OnScreen /\ [AppNext]_appVars => Waits'
    <2>1. ASSUME Waits, UNCHANGED appVars
          PROVE  Waits'
      BY <2>1 DEF appVars, dialogs, vault, Waits
    <2> QED
      BY <2>1, WaitsKept DEF OnScreen
  <1>3. Waits /\ OnScreen /\ AppTypeOK => (Shut => Busy)
    BY OwnerClaims DEF Waits, OnScreen, AppTypeOK, Shut, Busy
  <1> QED
    BY <1>1, <1>2, <1>3, ShellInvariance, AppTyped, PTL DEF AppSpec

-----------------------------------------------------------------------------
(* The way out, without ENABLED: some key is there, and it leads back.      *)

\* What is left to take down before the keyboard is the list's.
Left == Depth + (IF focus = "list" THEN 0 ELSE 1)

\* The guards of StepBack: the owner of the keyboard has a key to step back.
CanStepBack ==
    \/ Owner = "gate" /\ gate = "asked"
    \/ Owner \in {"keyPass", "pending", "confirm", "session", "files", "form", "import"}
    \/ \E d \in {"help", "filter", "rename", "card"} : Owner = d /\ d \in up
    \/ Owner = "sync" /\ ~("sync" \in up /\ checking)

\* There are seven names at most.
LEMMA UpCounted ==
    ASSUME UpTyped
    PROVE  IsFiniteSet(up) /\ Cardinality(up) \in Nat
  <1>1. IsFiniteSet({"import", "sync", "rename"} \cup {"pending", "card", "help"} \cup {"filter"})
    <2>1. /\ IsFiniteSet({"import"}) /\ IsFiniteSet({"sync"}) /\ IsFiniteSet({"rename"})
          /\ IsFiniteSet({"pending"}) /\ IsFiniteSet({"card"}) /\ IsFiniteSet({"help"})
          /\ IsFiniteSet({"filter"})
      BY FS_Singleton
    <2>2. IsFiniteSet({"import"} \cup {"sync"}) /\ IsFiniteSet({"pending"} \cup {"card"})
      BY <2>1, FS_Union
    <2>3. /\ IsFiniteSet(({"import"} \cup {"sync"}) \cup {"rename"})
          /\ IsFiniteSet(({"pending"} \cup {"card"}) \cup {"help"})
      BY <2>1, <2>2, FS_Union
    <2>4. /\ ({"import"} \cup {"sync"}) \cup {"rename"} = {"import", "sync", "rename"}
          /\ ({"pending"} \cup {"card"}) \cup {"help"} = {"pending", "card", "help"}
      OBVIOUS
    <2>5. IsFiniteSet({"import", "sync", "rename"}) /\ IsFiniteSet({"pending", "card", "help"})
      BY <2>3, <2>4
    <2>6. IsFiniteSet({"import", "sync", "rename"} \cup {"pending", "card", "help"})
      BY <2>5, FS_Union
    <2> QED
      BY <2>1, <2>6, FS_Union
  <1>2. up \subseteq {"import", "sync", "rename"} \cup {"pending", "card", "help"} \cup {"filter"}
    BY DEF UpTyped
  <1>3. IsFiniteSet(up)
    BY <1>1, <1>2, FS_Subset
  <1> QED
    BY <1>3, FS_CardinalityType

\* One fewer when a dialog is taken down.
LEMMA TakenDown ==
    ASSUME UpTyped, NEW d \in up, up' = up \ {d}, UNCHANGED <<focus, confirm, keyPass, gate>>
    PROVE  Left' < Left
  <1>1. IsFiniteSet(up) /\ Cardinality(up) \in Nat
    BY UpCounted
  <1>2. Cardinality(up') = Cardinality(up) - 1
    BY <1>1, FS_RemoveElement
  <1> QED
    BY <1>1, <1>2 DEF Left, Depth, Up

\* One fewer when a question is answered.
LEMMA Answered ==
    ASSUME UpTyped, UNCHANGED <<focus, up>>,
           \/ confirm # "none" /\ confirm' = "none" /\ UNCHANGED <<keyPass, gate>>
           \/ keyPass # "none" /\ keyPass' = "none" /\ UNCHANGED <<confirm, gate>>
           \/ gate # "none" /\ gate' = "none" /\ UNCHANGED <<confirm, keyPass>>
    PROVE  Left' < Left
  BY UpCounted DEF Left, Depth, Up

\* One fewer, or two, when a panel or a form gives the focus back to the list.
LEMMA BackInList ==
    ASSUME UpTyped, focus # "list", focus' = "list", UNCHANGED <<confirm, keyPass, gate>>,
           up' = up \/ \E d \in up : up' = up \ {d}
    PROVE  Left' < Left
  <1>1. IsFiniteSet(up) /\ Cardinality(up) \in Nat
    BY UpCounted
  <1>2. Cardinality(up') = Cardinality(up) \/ Cardinality(up') = Cardinality(up) - 1
    BY <1>1, FS_RemoveElement
  <1> QED
    BY <1>1, <1>2 DEF Left, Depth, Up

LEMMA StepBackDescends ==
    ASSUME AppTypeOK, StepBack
    PROVE  Left' < Left
  <1>1. UpTyped /\ focus \in Areas
    BY DEF AppTypeOK, UpTyped
  <1>2. CASE CancelGate
    BY <1>1, <1>2, Answered DEF CancelGate, screen
  <1>3. CASE CancelKeyPass
    BY <1>1, <1>3, Answered, OwnerClaims DEF CancelKeyPass, screen, vault
  <1>4. CASE CancelPending
    BY <1>1, <1>4, TakenDown, OwnerClaims DEF CancelPending, screen, vault
  <1>5. ASSUME NEW d, CloseSimple(d)
        PROVE  Left' < Left
    BY <1>1, <1>5, TakenDown DEF CloseSimple, screen, vault
  <1>6. ASSUME NEW d \in {"import", "sync"}, CancelForm(d)
        PROVE  Left' < Left
    <2>1. focus = d /\ focus # "list" /\ focus' = "list"
      BY <1>1, <1>6, OwnerClaims DEF CancelForm, Restore, Show
    <2>2. up' = up \/ \E f \in up : up' = up \ {f}
      BY <1>6 DEF CancelForm, Restore
    <2> QED
      BY <1>1, <1>6, <2>1, <2>2, BackInList DEF CancelForm, vault
  <1>7. CASE AnswerConfirm
    BY <1>1, <1>7, Answered, OwnerClaims DEF AnswerConfirm, screen, vault
  <1>8. CASE LeavePanel
    <2>1. focus # "list" /\ focus' = "list" /\ UNCHANGED dialogs
      BY <1>1, <1>8, OwnerClaims DEF LeavePanel, Show
    <2> QED
      BY <1>1, <2>1, BackInList DEF dialogs, vault
  <1> QED
    BY <1>2, <1>3, <1>4, <1>5, <1>6, <1>7, <1>8 DEF StepBack

\* Every esc brings the list nearer: so a run of them ends, after at most one
\* for each dialog and one for the focus, wherever messages had left the user.
THEOREM StepsLeadBack == AppSpec => [][StepBack => Left' < Left]_appVars
  <1>1. AppTypeOK /\ [AppNext]_appVars => [StepBack => Left' < Left]_appVars
    BY StepBackDescends
  <1> QED
    BY <1>1, AppTyped, PTL DEF AppSpec

\* And there is one to press: who owns the keyboard is the list, a dialog that
\* waits for an answer on its way, or somebody with a key to step back.
THEOREM SomeKeyLeadsBack == AppSpec => [](Owner = "list" \/ Busy \/ CanStepBack)
  <1>1. ASSUME AppTypeOK, ~Shut, Owner # "list"
        PROVE  CanStepBack
    <2>1. focus \in Areas
      BY <1>1 DEF AppTypeOK
    <2>2. Owner \in Dialogs \cup Areas
      BY <2>1, OwnerClaims
    <2> QED
      BY <1>1, <2>1, <2>2, OwnerClaims DEF CanStepBack, Shut, Dialogs, Areas
  <1>2. AppTypeOK /\ (Shut => Busy) => (Owner = "list" \/ Busy \/ CanStepBack)
    BY <1>1
  <1> QED
    BY <1>2, AppTyped, WaitsAreAnswered, PTL

-----------------------------------------------------------------------------
(* The keymap.                                                              *)

\* The contexts Apply touches, and the clashes it finds there.
Touched == {Ctx(a) : a \in DOMAIN user \cap Rebindable}
Clashes ==
    {w \in UNION {{c} \X KeysIn(c, Overlay(user)) : c \in Touched} :
        Clashing(w[1], w[2], Overlay(user))}

\* The actions that share a key, and the lines that name none.
Met(w) == {p[1] : p \in Seen(w[1], w[2], Overlay(user))}
Unknown ==
    {<<id, "no such action">> : id \in DOMAIN user \ Acts}
    \cup {<<id, "not rebindable">> : id \in DOMAIN user \cap (Acts \ Rebindable)}

\* Half way through the walk, exactly the actions of the clashes visited so far
\* are back at their defaults and, if the file names them, reported.
HalfWay ==
    /\ DOMAIN user # {}
    /\ overlaid = Overlay(user)
    /\ walk \subseteq Clashes
    /\ reverted = UNION {Met(w) : w \in Clashes \ walk}
    /\ keys = [a \in Acts |-> IF a \in reverted THEN Defaults[a] ELSE Overlay(user)[a]]
    /\ problems = Unknown \cup {<<a, "already used">> : a \in reverted \cap DOMAIN user}

\* What is reported, of the bindings' lists of keys: a line without a problem is
\* in force, one with a problem is at its defaults, and nothing was brought back
\* without a word.
LinesListed ==
    /\ \A id \in DOMAIN user :
          (\A p \in problems : p[1] # id) => id \in Rebindable /\ keys[id] = user[id]
    /\ \A p \in problems :
          p[1] \in DOMAIN user /\ (p[1] \in Acts => keys[p[1]] = Defaults[p[1]])
    /\ \A a \in Acts : keys[a] # Overlay(user)[a] => \E p \in problems : p[1] = a

KeymapInv ==
    /\ user \in Files
    /\ phase \in {"read", "clash", "ready"}
    /\ phase = "read" => keys = Defaults /\ reverted = {} /\ problems = {}
    /\ phase = "clash" => HalfWay
    /\ phase = "ready" => FileDecides /\ LinesListed

\* An action is rejected if one of the clashes in the touched contexts is over a
\* key of its own.
LEMMA RejectedIsMet ==
    ASSUME NEW a \in Acts
    PROVE  Rejected(a) <=> \E w \in Clashes : a \in Met(w)
  <1> DEFINE bound == Overlay(user)
  <1>1. ASSUME Rejected(a)
        PROVE  \E w \in Clashes : a \in Met(w)
    <2>1. PICK k \in RangeOf(bound[a]) : Clashing(Ctx(a), k, bound)
      BY <1>1 DEF Rejected
    <2>2. PICK i \in DOMAIN bound[a] : bound[a][i] = k
      BY <2>1 DEF RangeOf
    <2>3. a \in Rebindable /\ Ctx(a) \in Touched
      BY <1>1 DEF Rejected, Touched
    <2>4. k \in KeysIn(Ctx(a), bound)
      BY <2>1, <2>3 DEF KeysIn
    <2>5. <<Ctx(a), k>> \in Clashes
      BY <2>1, <2>3, <2>4 DEF Clashes
    <2>6. <<a, i>> \in Seen(Ctx(a), k, bound)
      BY <2>2, <2>3 DEF Seen
    <2>7. a \in Met(<<Ctx(a), k>>)
      BY <2>6 DEF Met
    <2> QED
      BY <2>5, <2>7
  <1>2. ASSUME NEW w \in Clashes, a \in Met(w)
        PROVE  Rejected(a)
    <2>0. PICK c \in Touched : w \in {c} \X KeysIn(c, bound)
      BY <1>2 DEF Clashes
    <2>1. PICK k \in KeysIn(c, bound) : w = <<c, k>>
      BY <2>0
    <2>2. Clashing(c, k, bound)
      BY <1>2, <2>1 DEF Clashes
    <2>3. PICK p \in Seen(c, k, bound) : p[1] = a
      BY <1>2, <2>1 DEF Met
    <2>4. PICK b \in Rebindable : p \in {b} \X DOMAIN bound[b]
      BY <2>3 DEF Seen
    <2>5. b = a /\ p[2] \in DOMAIN bound[a]
      BY <2>3, <2>4
    <2>6. Ctx(a) = c /\ bound[a][p[2]] = k
      BY <2>3 DEF Seen
    <2>7. k \in RangeOf(bound[a])
      BY <2>5, <2>6 DEF RangeOf
    <2>8. PICK u \in DOMAIN user \cap Rebindable : Ctx(u) = c
      BY <2>1 DEF Touched
    <2> QED
      BY <2>2, <2>4, <2>5, <2>6, <2>7, <2>8 DEF Rejected
  <1> QED
    BY <1>1, <1>2

\* The two protected bindings come with a key.
LEMMA ProtectedHaveDefaults ==
    ASSUME NEW a \in {Escape, Help}
    PROVE  a \in Rebindable /\ Defaults[a] # << >>
  <1>1. PICK i \in DOMAIN Table :
            Table[i].act = a /\ ~Table[i].doc /\ Table[i].keys # << >>
    BY TableAssumption
  <1>2. Row(a) = i
    BY <1>1, TableAssumption DEF Row
  <1> QED
    BY <1>1, <1>2 DEF Rebindable, Defaults, Acts

\* An empty file leaves the defaults.
LEMMA NothingApplied ==
    ASSUME phase = "read", keys = Defaults, problems = {}, ApplyNothing
    PROVE  FileDecides' /\ LinesListed'
  <1>1. Overlay(user) = Defaults
    BY DEF ApplyNothing, Overlay, Defaults
  <1>2. \A a \in Acts : ~Rejected(a)
    BY DEF ApplyNothing, Rejected
  <1>3. Settled = Defaults
    BY <1>1 DEF Settled, Defaults
  <1>4. Settled' = Settled /\ keys' = keys /\ problems' = problems /\ user' = user
    BY DEF ApplyNothing, Settled, Rejected, Overlay
  <1> QED
    BY <1>1, <1>3, <1>4 DEF ApplyNothing, FileDecides, LinesListed, Overlay

\* Laying the file over the table finds every clash and resolves none.
LEMMA SetStarts ==
    ASSUME phase = "read", reverted = {}, Set
    PROVE  HalfWay'
  <1>1. /\ user' = user /\ reverted' = {}
        /\ keys' = Overlay(user) /\ overlaid' = Overlay(user)
    BY DEF Set
  <1>2. Clashes' = Clashes /\ Unknown' = Unknown /\ Overlay(user)' = Overlay(user)
    BY <1>1 DEF Clashes, Unknown, Touched, Overlay
  <1>3. walk' = Clashes
    BY <1>1 DEF Set, Clashes, Touched
  <1>4. Overlay(user) = [a \in Acts |-> Overlay(user)[a]]
    BY DEF Overlay
  <1>5. problems' = Unknown
    BY DEF Set, Unknown
  <1> QED
    BY <1>1, <1>2, <1>3, <1>4, <1>5 DEF Set, HalfWay

\* One turn of the walk moves a clash from those to be visited to those visited.
LEMMA ResolveGoesOn ==
    ASSUME HalfWay, NEW c \in Contexts, NEW k \in {w[2] : w \in walk}, ResolveKey(c, k)
    PROVE  HalfWay'
  <1> DEFINE here == <<c, k>>
             lost == Met(here) \ reverted
  <1>1. user' = user /\ overlaid' = overlaid /\ overlaid = Overlay(user)
    BY DEF ResolveKey, HalfWay
  <1>2. Clashes' = Clashes /\ Unknown' = Unknown /\ Overlay(user)' = Overlay(user)
    BY <1>1 DEF Clashes, Unknown, Touched, Overlay
  <1>3. \A w : Met(w)' = Met(w)
    BY <1>1 DEF Met, Seen, Overlay
  <1>4. here \in walk /\ walk' = walk \ {here} /\ here \in Clashes
    BY DEF ResolveKey, HalfWay
  <1>5. Met(here) = {p[1] : p \in Seen(c, k, overlaid)}
    BY <1>1 DEF Met
  <1>6. /\ reverted' = reverted \cup lost
        /\ keys' = [a \in Acts |-> IF a \in lost THEN Defaults[a] ELSE keys[a]]
        /\ problems' = problems \cup {<<a, "already used">> : a \in lost \cap DOMAIN user}
    BY <1>5 DEF ResolveKey
  <1>7. reverted' = UNION {Met(w) : w \in Clashes \ walk'}
    <2>1. Clashes \ walk' = (Clashes \ walk) \cup {here}
      BY <1>4
    <2>2. reverted = UNION {Met(w) : w \in Clashes \ walk}
      BY DEF HalfWay
    <2>3. reverted' = reverted \cup Met(here)
      BY <1>6
    <2> HIDE DEF here, lost
    <2> QED
      BY <2>1, <2>2, <2>3
  <1>8. keys' = [a \in Acts |-> IF a \in reverted' THEN Defaults[a] ELSE Overlay(user)[a]]
    BY <1>6 DEF HalfWay
  <1>9. problems' = Unknown \cup {<<a, "already used">> : a \in reverted' \cap DOMAIN user}
    <2>1. problems = Unknown \cup {<<a, "already used">> : a \in reverted \cap DOMAIN user}
      BY DEF HalfWay
    <2> HIDE DEF lost
    <2> QED
      BY <1>6, <2>1
  <1>10. DOMAIN user # {} /\ walk' \subseteq Clashes
    BY <1>4 DEF HalfWay
  <1>11. UNION {Met(w) : w \in Clashes \ walk'} = (UNION {Met(w) : w \in Clashes \ walk})'
    BY <1>2, <1>3
  <1> QED
    BY <1>1, <1>2, <1>7, <1>8, <1>9, <1>10, <1>11 DEF HalfWay

\* When the walk is over, what was sent back is what is rejected, and the two
\* protected bindings get their defaults if they have nothing.
LEMMA BoundAtLast ==
    ASSUME HalfWay, RequireBound
    PROVE  FileDecides' /\ LinesListed'
  <1> DEFINE empty == {a \in {Escape, Help} : keys[a] = << >>}
  <1>1. /\ user' = user /\ walk = {}
        /\ keys' = [a \in Acts |-> IF a \in empty THEN Defaults[a] ELSE keys[a]]
        /\ problems' = problems \cup {<<a, "cannot be left unbound">> : a \in empty}
    BY DEF RequireBound
  <1>2. \A a \in Acts : a \in reverted <=> Rejected(a)
    <2>1. reverted = UNION {Met(w) : w \in Clashes}
      BY <1>1 DEF HalfWay
    <2> QED
      BY <2>1, RejectedIsMet
  <1>3. \A a \in Acts :
            keys[a] = IF a \in reverted THEN Defaults[a] ELSE Overlay(user)[a]
    BY DEF HalfWay
  <1>4. \A a \in {Escape, Help} : a \in Rebindable /\ a \in Acts /\ Defaults[a] # << >>
    BY ProtectedHaveDefaults DEF Rebindable
  <1>5. \A a \in empty : a \notin reverted /\ Overlay(user)[a] = << >>
    BY <1>3, <1>4
  <1>6. keys' = Settled
    BY <1>1, <1>2, <1>3, <1>4, <1>5 DEF Settled
  <1>7. Settled' = Settled
    BY <1>1 DEF Settled, Rejected, Overlay
  <1>8. \A a \in Acts : a \in Rebindable \cap DOMAIN user =>
            Overlay(user)[a] = user[a]
    BY DEF Overlay
  <1>9. \A a \in Acts : a \notin Rebindable \cap DOMAIN user =>
            Overlay(user)[a] = Defaults[a]
    BY DEF Overlay
  <1>10. empty \subseteq DOMAIN user
    BY <1>4, <1>5, <1>9
  <1>11. problems = Unknown \cup {<<a, "already used">> : a \in reverted \cap DOMAIN user}
    BY DEF HalfWay
  <1> HIDE DEF empty
  <1>12. ASSUME NEW p \in problems'
         PROVE  \/ \E id \in DOMAIN user \ Rebindable : p[1] = id
                \/ \E id \in reverted \cap DOMAIN user : p[1] = id
                \/ \E id \in empty : p[1] = id
    <2>1. CASE p \in Unknown
      <3>1. CASE p \in {<<id, "no such action">> : id \in DOMAIN user \ Acts}
        <4>1. PICK id \in DOMAIN user \ Acts : p = <<id, "no such action">>
          BY <3>1
        <4>2. p[1] = id /\ id \notin Rebindable
          BY <4>1 DEF Rebindable
        <4> QED
          BY <4>2
      <3>2. CASE p \in {<<id, "not rebindable">> : id \in DOMAIN user \cap (Acts \ Rebindable)}
        <4>1. PICK id \in DOMAIN user \cap (Acts \ Rebindable) : p = <<id, "not rebindable">>
          BY <3>2
        <4>2. p[1] = id
          BY <4>1
        <4> QED
          BY <4>2
      <3> QED
        BY <2>1, <3>1, <3>2 DEF Unknown
    <2>2. CASE p \in {<<a, "already used">> : a \in reverted \cap DOMAIN user}
      <3>1. PICK id \in reverted \cap DOMAIN user : p = <<id, "already used">>
        BY <2>2
      <3>2. p[1] = id
        BY <3>1
      <3> QED
        BY <3>2
    <2>3. CASE p \in {<<a, "cannot be left unbound">> : a \in empty}
      <3>1. PICK id \in empty : p = <<id, "cannot be left unbound">>
        BY <2>3
      <3>2. p[1] = id
        BY <3>1
      <3> QED
        BY <3>2
    <2> QED
      BY <2>1, <2>2, <2>3, <1>1, <1>11
  <1>13. ASSUME NEW id \in DOMAIN user, \A p \in problems' : p[1] # id
         PROVE  id \in Rebindable /\ keys'[id] = user[id]
    <2>0. \A why : <<id, why>> \notin problems'
      BY <1>13, <<id, "x">>[1] = id
    <2>1. id \in Acts
      <3>1. ASSUME id \notin Acts
            PROVE  <<id, "no such action">> \in problems'
        BY <3>1, <1>1, <1>11 DEF Unknown
      <3> QED
        BY <3>1, <2>0
    <2>2. id \in Rebindable
      <3>1. ASSUME id \notin Rebindable
            PROVE  <<id, "not rebindable">> \in problems'
        BY <3>1, <2>1, <1>1, <1>11 DEF Unknown
      <3> QED
        BY <3>1, <2>0
    <2>3. id \notin reverted
      <3>1. ASSUME id \in reverted
            PROVE  <<id, "already used">> \in problems'
        BY <3>1, <1>1, <1>11
      <3> QED
        BY <3>1, <2>0
    <2>4. id \notin empty
      <3>1. ASSUME id \in empty
            PROVE  <<id, "cannot be left unbound">> \in problems'
        BY <3>1, <1>1
      <3> QED
        BY <3>1, <2>0
    <2> QED
      BY <2>1, <2>2, <2>3, <2>4, <1>1, <1>3, <1>8
  <1>14. ASSUME NEW p \in problems', p[1] \in Acts
         PROVE  keys'[p[1]] = Defaults[p[1]]
    <2>1. CASE p[1] \in DOMAIN user \ Rebindable
      <3>1. p[1] \notin reverted
        BY <2>1, <1>2, <1>14 DEF Rejected
      <3> QED
        BY <2>1, <3>1, <1>1, <1>3, <1>9, <1>14
    <2>2. CASE p[1] \in reverted
      BY <2>2, <1>1, <1>3, <1>14
    <2>3. CASE p[1] \in empty
      BY <2>3, <1>1, <1>14
    <2> QED
      BY <2>1, <2>2, <2>3, <1>12
  <1>15. ASSUME NEW p \in problems'
         PROVE  p[1] \in DOMAIN user
    BY <1>10, <1>12
  <1>16. ASSUME NEW a \in Acts, keys'[a] # Overlay(user)[a]
         PROVE  \E p \in problems' : p[1] = a
    <2>1. a \in DOMAIN user
      <3>1. keys'[a] \in {Defaults[a], Overlay(user)[a]}
        BY <1>1, <1>3
      <3> QED
        BY <3>1, <1>9, <1>16
    <2>2. CASE a \in reverted
      <3>1. <<a, "already used">> \in problems'
        BY <2>1, <2>2, <1>1, <1>11
      <3> QED
        BY <3>1, <<a, "already used">>[1] = a
    <2>3. CASE a \in empty
      <3>1. <<a, "cannot be left unbound">> \in problems'
        BY <2>3, <1>1
      <3> QED
        BY <3>1, <<a, "cannot be left unbound">>[1] = a
    <2> QED
      BY <2>2, <2>3, <1>1, <1>3, <1>16
  <1>17. Overlay(user)' = Overlay(user)
    BY <1>1 DEF Overlay
  <1> QED
    BY <1>1, <1>6, <1>7, <1>13, <1>14, <1>15, <1>16, <1>17 DEF FileDecides, LinesListed

\* What does not change keeps everything said about it.
LEMMA Unmoved ==
    ASSUME UNCHANGED keymapVars
    PROVE  HalfWay' = HalfWay /\ FileDecides' = FileDecides /\ LinesListed' = LinesListed
  <1>1. /\ user' = user /\ keys' = keys /\ overlaid' = overlaid /\ walk' = walk
        /\ reverted' = reverted /\ problems' = problems /\ phase' = phase
    BY DEF keymapVars
  <1>2. Overlay(user)' = Overlay(user) /\ Unknown' = Unknown /\ Touched' = Touched
    BY <1>1 DEF Overlay, Unknown, Touched
  <1>3. Clashes' = Clashes
    BY <1>1, <1>2 DEF Clashes
  <1>4. (UNION {Met(w) : w \in Clashes \ walk})' = UNION {Met(w) : w \in Clashes \ walk}
    BY <1>1, <1>2, <1>3 DEF Met, Seen
  <1>5. HalfWay' = HalfWay
    BY <1>1, <1>2, <1>3, <1>4 DEF HalfWay
  <1>6. Settled' = Settled
    BY <1>1 DEF Settled, Rejected, Overlay
  <1>7. FileDecides' = FileDecides
    BY <1>1, <1>6 DEF FileDecides
  <1>8. LinesListed' = LinesListed
    BY <1>1, <1>2 DEF LinesListed
  <1> QED
    BY <1>5, <1>7, <1>8

LEMMA KeymapInvariance == KeymapSpec => []KeymapInv
  <1>1. KeymapInit => KeymapInv
    BY DEF KeymapInit, KeymapInv
  <1>2. KeymapInv /\ [KeymapNext]_keymapVars => KeymapInv'
    <2> SUFFICES ASSUME KeymapInv, [KeymapNext]_keymapVars
                 PROVE  KeymapInv'
      OBVIOUS
    <2>0. user' = user /\ user' \in Files
      BY DEF KeymapNext, ApplyNothing, Set, ResolveKey, RequireBound, keymapVars, KeymapInv
    <2>1. CASE ApplyNothing
      <3>1. phase = "read" /\ keys = Defaults /\ problems = {} /\ phase' = "ready"
        BY <2>1 DEF KeymapInv, ApplyNothing
      <3> QED
        BY <2>0, <2>1, <3>1, NothingApplied DEF KeymapInv
    <2>2. CASE Set
      <3>1. phase = "read" /\ reverted = {} /\ phase' = "clash"
        BY <2>2 DEF KeymapInv, Set
      <3> QED
        BY <2>0, <2>2, <3>1, SetStarts DEF KeymapInv
    <2>3. ASSUME NEW c \in Contexts, NEW k \in {w[2] : w \in walk}, ResolveKey(c, k)
          PROVE  KeymapInv'
      <3>1. HalfWay /\ phase' = "clash"
        BY <2>3 DEF KeymapInv, ResolveKey
      <3> QED
        BY <2>0, <2>3, <3>1, ResolveGoesOn DEF KeymapInv
    <2>4. CASE RequireBound
      <3>1. HalfWay /\ phase' = "ready"
        BY <2>4 DEF KeymapInv, RequireBound
      <3> QED
        BY <2>0, <2>4, <3>1, BoundAtLast DEF KeymapInv
    <2>5. CASE UNCHANGED keymapVars
      <3>1. phase' = phase /\ keys' = keys /\ reverted' = reverted /\ problems' = problems
        BY <2>5 DEF keymapVars
      <3> QED
        BY <2>0, <2>5, <3>1, Unmoved DEF KeymapInv
    <2> QED
      BY <2>1, <2>2, <2>3, <2>4, <2>5 DEF KeymapNext
  <1> QED
    BY <1>1, <1>2, PTL DEF KeymapSpec

\* Who shares a key is rebindable.
LEMMA SeenIsRebindable ==
    ASSUME NEW c, NEW k, NEW bound, NEW p \in Seen(c, k, bound)
    PROVE  p[1] \in Rebindable
  BY DEF Seen

\* Types: a table of all actions at every step, and a walk over real clashes.
THEOREM KeymapTyped == KeymapSpec => []KeymapTypeOK
  <1>1. KeymapInit => KeymapTypeOK
    BY DEF KeymapInit, KeymapTypeOK, Defaults
  <1>2. KeymapTypeOK /\ [KeymapNext]_keymapVars => KeymapTypeOK'
    <2> SUFFICES ASSUME KeymapTypeOK, [KeymapNext]_keymapVars
                 PROVE  KeymapTypeOK'
      OBVIOUS
    <2>1. CASE ApplyNothing
      BY <2>1 DEF ApplyNothing, KeymapTypeOK
    <2>2. CASE Set
      <3>1. DOMAIN keys' = Acts /\ overlaid' = keys'
        BY <2>2 DEF Set, Overlay
      <3>2. ASSUME NEW w \in walk'
            PROVE  w[1] \in Contexts /\ Clashing(w[1], w[2], overlaid')
        <4>1. PICK c \in {Ctx(a) : a \in DOMAIN user \cap Rebindable} :
                w \in {c} \X KeysIn(c, keys') /\ Clashing(w[1], w[2], keys')
          BY <2>2, <3>2 DEF Set
        <4>2. w[1] = c /\ c \in Contexts
          BY <4>1 DEF Contexts, Rebindable
        <4> QED
          BY <3>1, <4>1, <4>2
      <3>3. reverted' = reverted /\ phase' = "clash"
        BY <2>2 DEF Set
      <3> QED
        BY <3>1, <3>2, <3>3 DEF KeymapTypeOK
    <2>3. ASSUME NEW c \in Contexts, NEW k \in {w[2] : w \in walk}, ResolveKey(c, k)
          PROVE  KeymapTypeOK'
      <3>1. DOMAIN keys' = Acts /\ overlaid' = overlaid /\ phase' = phase /\ walk' \subseteq walk
        BY <2>3 DEF ResolveKey
      <3>2. reverted' \subseteq Rebindable
        <4>1. reverted' = reverted \cup ({p[1] : p \in Seen(c, k, overlaid)} \ reverted)
          BY <2>3 DEF ResolveKey
        <4>2. \A a \in {p[1] : p \in Seen(c, k, overlaid)} : a \in Rebindable
          BY SeenIsRebindable
        <4> QED
          BY <4>1, <4>2 DEF KeymapTypeOK
      <3> QED
        BY <3>1, <3>2 DEF KeymapTypeOK
    <2>4. CASE RequireBound
      <3>1. DOMAIN keys' = Acts /\ phase' = "ready"
        BY <2>4 DEF RequireBound
      <3>2. overlaid' = overlaid /\ walk' = walk /\ reverted' = reverted
        BY <2>4 DEF RequireBound
      <3> QED
        BY <3>1, <3>2 DEF KeymapTypeOK
    <2>5. CASE UNCHANGED keymapVars
      BY <2>5 DEF keymapVars, KeymapTypeOK
    <2> QED
      BY <2>1, <2>2, <2>3, <2>4, <2>5 DEF KeymapNext
  <1> QED
    BY <1>1, <1>2, PTL DEF KeymapSpec

-----------------------------------------------------------------------------
(* Keys left with two meanings.                                             *)

\* A row is found by its action.
LEMMA RowOf ==
    ASSUME NEW i \in DOMAIN Table
    PROVE  Table[i].act \in Acts /\ Row(Table[i].act) = i
  BY TableAssumption DEF Acts, Row

LEMMA RowIs ==
    ASSUME NEW a \in Acts
    PROVE  Row(a) \in DOMAIN Table /\ Table[Row(a)].act = a
  BY DEF Acts, Row

\* A row has a list of keys.
LEMMA TableRow ==
    ASSUME NEW i \in DOMAIN Table
    PROVE  Table[i].keys \in Seq(STRING)
  <1> DEFINE R == [act : STRING, ctx : STRING, keys : Seq(STRING), doc : BOOLEAN]
  <1>1. \A r \in R : r.keys \in Seq(STRING)
    OBVIOUS
  <1>2. Table \in Seq(R)
    BY TableAssumption
  <1> HIDE DEF R
  <1>3. Table[i] \in R
    BY <1>2
  <1> QED
    BY <1>1, <1>3

\* Two defaults of a context share no key.
LEMMA DefaultsDiffer ==
    ASSUME NEW a \in Rebindable, NEW b \in Rebindable, Ctx(a) = Ctx(b),
           NEW m \in DOMAIN Defaults[a], NEW n \in DOMAIN Defaults[b],
           Defaults[a][m] = Defaults[b][n]
    PROVE  a = b /\ m = n
  <1>1. a \in Acts /\ b \in Acts /\ ~Table[Row(a)].doc /\ ~Table[Row(b)].doc
    BY DEF Rebindable
  <1>2. Defaults[a] = Table[Row(a)].keys /\ Defaults[b] = Table[Row(b)].keys
    BY <1>1 DEF Defaults
  <1>3. /\ Row(a) \in DOMAIN Table /\ Table[Row(a)].act = a
        /\ Row(b) \in DOMAIN Table /\ Table[Row(b)].act = b
    BY <1>1, RowIs
  <1>4. Row(a) = Row(b) /\ m = n
    BY <1>1, <1>2, <1>3, DefaultsAssumption DEF Ctx
  <1> QED
    BY <1>3, <1>4

\* An action has the keys the file and the table give it, and no clash, or its
\* defaults.
LEMMA SettledKeys ==
    ASSUME keys = Settled, NEW a \in Acts, keys[a] # Defaults[a]
    PROVE  /\ keys[a] = Overlay(user)[a] /\ ~Rejected(a)
           /\ a \in DOMAIN user \cap Rebindable /\ keys[a] = user[a]
  BY DEF Settled, Overlay

\* Of two that share a key, if one has not its default then the other has, and
\* did not before the walk.
LEMMA OtherRestored ==
    ASSUME keys = Settled, NEW c, NEW k, NEW p \in Seen(c, k, keys),
           NEW q \in Seen(c, k, keys), p # q, keys[p[1]] # Defaults[p[1]]
    PROVE  /\ Restored(q[1]) /\ k \in RangeOf(Defaults[q[1]])
           /\ ~Restored(p[1]) /\ p[1] \in DOMAIN user
  <1>1. PICK a \in Rebindable : p \in {a} \X DOMAIN keys[a]
    BY DEF Seen
  <1>2. PICK b \in Rebindable : q \in {b} \X DOMAIN keys[b]
    BY DEF Seen
  <1>3. /\ p[1] = a /\ p[2] \in DOMAIN keys[a] /\ Ctx(a) = c /\ keys[a][p[2]] = k
        /\ q[1] = b /\ q[2] \in DOMAIN keys[b] /\ Ctx(b) = c /\ keys[b][q[2]] = k
    BY <1>1, <1>2 DEF Seen
  <1>4. a \in Acts /\ b \in Acts
    BY DEF Rebindable
  <1>5. /\ keys[a] = Overlay(user)[a] /\ ~Rejected(a)
        /\ a \in DOMAIN user \cap Rebindable
    BY <1>3, <1>4, SettledKeys
  <1>6. ASSUME keys[b] = Overlay(user)[b]
        PROVE  FALSE
    <2>1. p \in Seen(c, k, Overlay(user)) /\ q \in Seen(c, k, Overlay(user))
      BY <1>1, <1>2, <1>3, <1>5, <1>6 DEF Seen
    <2>2. Clashing(c, k, Overlay(user))
      BY <2>1 DEF Clashing
    <2>3. k \in RangeOf(Overlay(user)[a])
      BY <1>3, <1>5 DEF RangeOf
    <2> QED
      BY <2>2, <2>3, <1>3, <1>5 DEF Rejected
  <1>7. keys[b] = Defaults[b]
    BY <1>4, <1>6, SettledKeys
  <1>8. k \in RangeOf(Defaults[b])
    BY <1>3, <1>7 DEF RangeOf
  <1> QED
    BY <1>3, <1>5, <1>6, <1>8 DEF Restored

\* A key with two meanings has one from the file and one that was brought back.
LEMMA OneOfEach ==
    ASSUME keys = Settled, NEW c, NEW k, NEW p \in Seen(c, k, keys),
           NEW q \in Seen(c, k, keys), p # q
    PROVE  \E a, b \in {p[1], q[1]} :
                /\ Restored(a) /\ k \in RangeOf(Defaults[a])
                /\ ~Restored(b) /\ b \in DOMAIN user
  <1>1. CASE keys[p[1]] # Defaults[p[1]]
    BY <1>1, OtherRestored
  <1>2. CASE keys[q[1]] # Defaults[q[1]]
    BY <1>2, OtherRestored
  <1>3. CASE keys[p[1]] = Defaults[p[1]] /\ keys[q[1]] = Defaults[q[1]]
    <2>1. PICK a \in Rebindable : p \in {a} \X DOMAIN keys[a]
      BY DEF Seen
    <2>2. PICK b \in Rebindable : q \in {b} \X DOMAIN keys[b]
      BY DEF Seen
    <2>3. /\ p[1] = a /\ p[2] \in DOMAIN Defaults[a]
          /\ q[1] = b /\ q[2] \in DOMAIN Defaults[b]
      BY <2>1, <2>2, <1>3
    <2>4. Ctx(a) = Ctx(b) /\ Defaults[a][p[2]] = Defaults[b][q[2]]
      BY <2>3, <1>3 DEF Seen
    <2>5. a = b /\ p[2] = q[2]
      BY <2>3, <2>4, DefaultsDiffer
    <2> QED
      BY <2>1, <2>2, <2>5
  <1> QED
    BY <1>1, <1>2, <1>3

\* A key that an action has and that does something else has two meanings, and so
\* is a default that another action got back, for which its line was reported.
LEMMA KeyDoesOrIsOverruled ==
    ASSUME keys = Settled, LinesListed, NEW x \in Rebindable, NEW k \in RangeOf(keys[x]),
           keys[x] = Overlay(user)[x]
    PROVE  Action(Ctx(x), k) = x \/ Overruled(x, k)
  <1> DEFINE own == {i \in DOMAIN Table :
                        /\ Table[i].ctx = Ctx(x) /\ ~Table[i].doc
                        /\ k \in RangeOf(keys[Table[i].act])}
             last == CHOOSE i \in own : \A j \in own : j <= i
  <1>1. x \in Acts /\ Row(x) \in DOMAIN Table /\ Table[Row(x)].act = x /\ ~Table[Row(x)].doc
    BY RowIs DEF Rebindable
  <1>2. Row(x) \in own
    BY <1>1 DEF Ctx
  <1>3. PICK m \in DOMAIN keys[x] : keys[x][m] = k
    BY DEF RangeOf
  <1>4. ASSUME NEW i \in own, i # Row(x)
        PROVE  Overruled(x, k)
    <2> DEFINE b == Table[i].act
    <2>1. b \in Acts /\ Row(b) = i /\ ~Table[i].doc /\ Table[i].ctx = Ctx(x)
      BY RowOf
    <2>2. b \in Rebindable /\ Ctx(b) = Ctx(x) /\ b # x
      BY <2>1, <1>4 DEF Rebindable, Ctx
    <2>3. PICK n \in DOMAIN keys[b] : keys[b][n] = k
      BY DEF RangeOf
    <2>4. <<x, m>> \in Seen(Ctx(x), k, keys) /\ <<b, n>> \in Seen(Ctx(x), k, keys)
      BY <1>3, <2>2, <2>3 DEF Seen
    <2> HIDE DEF b
    <2>5. PICK r, s \in {x, b} : Restored(r) /\ k \in RangeOf(Defaults[r])
      BY <2>2, <2>4, OneOfEach, <<x, m>>[1] = x, <<b, n>>[1] = b
    <2>6. r = b
      BY <2>5 DEF Restored
    <2>7. Reported(b)
      BY <2>1, <2>2, <2>5, <2>6 DEF LinesListed, Restored, Reported, Rebindable
    <2> QED
      BY <2>2, <2>5, <2>6, <2>7 DEF Overruled
  <1>5. CASE own = {Row(x)}
    <2>1. Action(Ctx(x), k) = Table[last].act
      BY <1>2 DEF Action
    <2> HIDE DEF own
    <2>2. Row(x) \in Nat
      BY <1>1, TableAssumption
    <2>3. last = Row(x)
      BY <1>5, <2>2
    <2> QED
      BY <2>1, <2>3, <1>1
  <1> QED
    BY <1>2, <1>4, <1>5

\* For every table whose defaults do not collide and every file, the keys in
\* force are those the file and the table decide, whatever the order in which Go
\* walks its maps; and a key of a line that is not reported does what the line
\* says, unless it is a default of an action whose line is.
THEOREM OrderIsImmaterial == KeymapSpec => []AppliedAsTold
  <1>1. ASSUME KeymapInv
        PROVE  AppliedAsTold
    <2> SUFFICES ASSUME phase = "ready"
                 PROVE  FileDecides /\ RefusalsReported
      BY DEF AppliedAsTold
    <2>1. FileDecides /\ LinesListed /\ keys = Settled
      BY <1>1 DEF KeymapInv, FileDecides
    <2>2. ASSUME NEW id \in DOMAIN user, ~Reported(id)
          PROVE  /\ id \in Rebindable /\ keys[id] = user[id]
                 /\ \A k \in RangeOf(user[id]) : Action(Ctx(id), k) = id \/ Overruled(id, k)
      <3>1. id \in Rebindable /\ keys[id] = user[id]
        BY <2>1, <2>2 DEF LinesListed, Reported
      <3>2. keys[id] = Overlay(user)[id]
        BY <3>1 DEF Overlay, Rebindable
      <3> QED
        BY <2>1, <3>1, <3>2, KeyDoesOrIsOverruled
    <2>3. \A p \in problems :
             p[1] \in DOMAIN user /\ (p[1] \in Acts => keys[p[1]] = Defaults[p[1]])
      BY <2>1 DEF LinesListed
    <2> QED
      BY <2>1, <2>2, <2>3 DEF RefusalsReported
  <1> QED
    BY KeymapInvariance, <1>1, PTL

\* Unless the file borrows a default, the two protected bindings are reachable.
LEMMA ProtectedAnswer ==
    ASSUME user \in Files, keys = Settled, ~Borrows, NEW x \in {Escape, Help}
    PROVE  Answering(x) # {}
  <1> DEFINE k == keys[x][1]
             own == {i \in DOMAIN Table :
                        /\ Table[i].ctx = Ctx(x) /\ ~Table[i].doc
                        /\ k \in RangeOf(keys[Table[i].act])}
  <1>1. x \in Rebindable /\ x \in Acts /\ Defaults[x] # << >>
    BY ProtectedHaveDefaults DEF Rebindable
  <1>2. Row(x) \in DOMAIN Table /\ Table[Row(x)].act = x /\ ~Table[Row(x)].doc
    BY <1>1, RowIs DEF Rebindable
  <1>3. keys[x] \in Seq(STRING) /\ keys[x] # << >>
    <2>1. CASE keys[x] = Defaults[x]
      <3>1. Table[Row(x)].keys \in Seq(STRING)
        BY <1>2, TableRow
      <3>2. Defaults[x] = Table[Row(x)].keys
        BY <1>1 DEF Defaults
      <3> QED
        BY <2>1, <3>1, <3>2, <1>1
    <2>2. CASE keys[x] # Defaults[x]
      <3>1. keys[x] = Overlay(user)[x] /\ ~Rejected(x) /\ x \in DOMAIN user /\ keys[x] = user[x]
        BY <2>2, <1>1, SettledKeys
      <3>2. keys[x] # << >>
        BY <3>1, <2>2, <1>1 DEF Settled
      <3> QED
        BY <3>1, <3>2, FilesAssumption
    <2> QED
      BY <2>1, <2>2
  <1>4. 1 \in DOMAIN keys[x] /\ k \in RangeOf(keys[x])
    BY <1>3 DEF RangeOf
  <1>5. Row(x) \in own
    BY <1>2, <1>4 DEF Ctx
  <1>6. ASSUME NEW i \in own
        PROVE  i = Row(x)
    <2> DEFINE b == Table[i].act
    <2>1. b \in Acts /\ Row(b) = i /\ ~Table[i].doc /\ Table[i].ctx = Ctx(x)
      BY RowOf
    <2>2. b \in Rebindable /\ Ctx(b) = Ctx(x)
      BY <2>1 DEF Rebindable, Ctx
    <2>3. PICK n \in DOMAIN keys[b] : keys[b][n] = k
      BY DEF RangeOf
    <2>4. /\ <<x, 1>> \in Seen(Ctx(x), k, keys)
          /\ <<b, n>> \in Seen(Ctx(x), k, keys)
      BY <1>1, <1>4, <2>2, <2>3 DEF Seen
    <2> HIDE DEF k, b
    <2>5. ASSUME b # x
          PROVE  FALSE
      <3>1. PICK r, s \in {x, b} :
                /\ Restored(r) /\ k \in RangeOf(Defaults[r])
                /\ ~Restored(s) /\ s \in DOMAIN user
        BY <2>4, <2>5, OneOfEach, <<x, 1>>[1] = x, <<b, n>>[1] = b
      <3>2. r # s /\ Ctx(r) = Ctx(s) /\ r \in Rebindable /\ s \in Rebindable
        BY <3>1, <2>2, <1>1
      <3>3. k \in RangeOf(keys[x]) /\ k \in RangeOf(keys[b])
        BY <1>4, <2>3 DEF RangeOf
      <3>4. keys[s] = user[s]
        BY <3>1, <3>2 DEF Restored, Overlay, Rebindable
      <3> QED
        BY <3>1, <3>2, <3>3, <3>4 DEF Borrows
    <2> QED
      BY <2>1, <2>5
  <1> HIDE DEF k
  <1>7. Action(Ctx(x), k) = x
    <2>1. Action(Ctx(x), k) = Table[CHOOSE i \in own : \A j \in own : j <= i].act
      BY <1>5 DEF Action
    <2> HIDE DEF own
    <2>2. own = {Row(x)}
      BY <1>5, <1>6
    <2>3. Row(x) \in Nat
      BY <1>2, TableAssumption
    <2>4. (CHOOSE i \in own : \A j \in own : j <= i) = Row(x)
      BY <2>2, <2>3
    <2> QED
      BY <2>1, <2>4, <1>2
  <1> QED
    BY <1>4, <1>7 DEF Answering

\* Two keys of the file never share a meaning, nor do two defaults; and unless
\* the file itself uses another action's default, the escape and the help card
\* answer to a key, for every table whose defaults do not collide.
THEOREM OnlyDefaultsLeftOver == KeymapSpec => []LeftoversAreDefaults
  <1>1. ASSUME KeymapInv
        PROVE  LeftoversAreDefaults
    <2> SUFFICES ASSUME phase = "ready"
                 PROVE  LeftoversAreDefaults
      BY DEF LeftoversAreDefaults
    <2>1. keys = Settled /\ user \in Files
      BY <1>1 DEF KeymapInv, FileDecides
    <2>2. ASSUME NEW c \in Contexts, NEW k \in KeysIn(c, keys),
                 NEW p \in Seen(c, k, keys), NEW q \in Seen(c, k, keys)
          PROVE  p = q \/ \E a, b \in {p[1], q[1]} :
                            /\ Restored(a) /\ k \in RangeOf(Defaults[a])
                            /\ ~Restored(b) /\ b \in DOMAIN user
      BY <2>1, OneOfEach
    <2>3. Borrows \/ \A x \in {Escape, Help} : Answering(x) # {}
      BY <2>1, ProtectedAnswer
    <2> QED
      BY <2>2, <2>3 DEF LeftoversAreDefaults
  <1> QED
    BY KeymapInvariance, <1>1, PTL

-----------------------------------------------------------------------------
(* The list on the left: sequences of sequences.                            *)

\* A set of numbers that has 0, and with each number the next, has them all:
\* the numbers it lacks would have a least one.
LEMMA SetInduction ==
    ASSUME NEW S, 0 \in S, \A n \in Nat : n \in S => n + 1 \in S
    PROVE  Nat \subseteq S
  <1> DEFINE T == Nat \ S
  <1>1. SUFFICES ASSUME T # {} PROVE FALSE
    OBVIOUS
  <1>2. PICK x \in T : \A y \in T : ~ (<<y, x>> \in OpToRel(<, Nat))
    <2>1. T \subseteq Nat
      OBVIOUS
    <2> HIDE DEF T
    <2> QED
      BY <1>1, <2>1, WFMin, NatLessThanWellFounded
  <1>3. x # 0 /\ x - 1 \in Nat /\ x - 1 < x
    BY SMT
  <1>4. <<x - 1, x>> \in OpToRel(<, Nat)
    BY <1>3 DEF OpToRel
  <1>5. x - 1 \in S
    BY <1>2, <1>3, <1>4
  <1>6. (x - 1) + 1 \in S
    BY <1>3, <1>5
  <1> QED
    BY <1>3, <1>6

\* Up to k, h is what FlattenSeq computes: each value ends in the next sequence.
Unfolds(ss, k, h) ==
    \A i \in 1..k : h[i] = IF i = 1 THEN ss[i] ELSE h[i - 1] \o ss[i]

\* What FlattenSeq computes, from one sequence to the next.
LEMMA FlattenUnfolds ==
    ASSUME NEW T, NEW n \in Nat \ {0}, NEW ss \in [1..n -> Seq(T)]
    PROVE  \E h \in [1..n -> Seq(T)] : Unfolds(ss, n, h) /\ FlattenSeq(ss) = h[n]
  <1> DEFINE Ok == {k \in Nat : k <= n => \E h \in [1..k -> Seq(T)] : Unfolds(ss, k, h)}
  <1>1. 0 \in Ok
    <2> DEFINE h == [i \in 1..0 |-> << >>]
    <2>1. h \in [1..0 -> Seq(T)] /\ Unfolds(ss, 0, h)
      BY DEF Unfolds
    <2> QED
      BY <2>1
  <1>2. \A k \in Nat : k \in Ok => k + 1 \in Ok
    <2> SUFFICES ASSUME NEW k \in Nat, k \in Ok PROVE k + 1 \in Ok
      OBVIOUS
    <2> SUFFICES ASSUME k + 1 <= n
                 PROVE  \E h \in [1..(k + 1) -> Seq(T)] : Unfolds(ss, k + 1, h)
      OBVIOUS
    <2>1. PICK h \in [1..k -> Seq(T)] : Unfolds(ss, k, h)
      OBVIOUS
    <2> DEFINE g == [i \in 1..(k + 1) |->
                        IF i <= k THEN h[i] ELSE IF i = 1 THEN ss[i] ELSE h[k] \o ss[i]]
    <2>2. ss[k + 1] \in Seq(T)
      OBVIOUS
    <2>3. k # 0 => h[k] \in Seq(T) /\ h[k] \o ss[k + 1] \in Seq(T)
      BY <2>2, ConcatProperties
    <2>4. \A i \in 1..(k + 1) : g[i] \in Seq(T)
      BY <2>2, <2>3
    <2>5. g \in [1..(k + 1) -> Seq(T)]
      BY <2>4
    <2>6. \A i \in 1..(k + 1) : g[i] = IF i = 1 THEN ss[i] ELSE g[i - 1] \o ss[i]
      <3> TAKE i \in 1..(k + 1)
      <3>1. CASE i <= k
        <4>1. g[i] = h[i] /\ (i # 1 => g[i - 1] = h[i - 1])
          BY <3>1
        <4> HIDE DEF g
        <4>2. i \in 1..k
          BY <3>1
        <4>3. h[i] = IF i = 1 THEN ss[i] ELSE h[i - 1] \o ss[i]
          BY <2>1, <4>2 DEF Unfolds
        <4> QED
          BY <4>1, <4>3
      <3>2. CASE i = k + 1
        BY <3>2
      <3> QED
        BY <3>1, <3>2
    <2> QED
      BY <2>5, <2>6 DEF Unfolds
  <1>3. n \in Ok
    <2> HIDE DEF Ok
    <2> QED
      BY <1>1, <1>2, SetInduction
  <1>4. PICK h \in [1..n -> Seq(T)] : Unfolds(ss, n, h)
    BY <1>3
  <1> DEFINE f[i \in 1..Len(ss)] == IF i = 1 THEN ss[i] ELSE f[i - 1] \o ss[i]
  <1>5. Len(ss) = n
    OBVIOUS
  <1>6. h = [i \in 1..Len(ss) |-> IF i = 1 THEN ss[i] ELSE h[i - 1] \o ss[i]]
    BY <1>4, <1>5 DEF Unfolds
  <1>7. f = [i \in 1..Len(ss) |-> IF i = 1 THEN ss[i] ELSE f[i - 1] \o ss[i]]
    BY <1>6
  <1>8. FlattenSeq(ss) = f[Len(ss)]
    BY <1>5 DEF FlattenSeq
  <1> HIDE DEF f
  <1>9. \A i \in 1..n : f[i] = IF i = 1 THEN ss[i] ELSE f[i - 1] \o ss[i]
    BY <1>5, <1>7
  <1>10. \A i \in 1..n : f[i] = h[i]
    <2> DEFINE Same == {k \in Nat : k \in 1..n => f[k] = h[k]}
    <2>1. 0 \in Same
      OBVIOUS
    <2>2. \A k \in Nat : k \in Same => k + 1 \in Same
      <3> SUFFICES ASSUME NEW k \in Nat, k \in Same, k + 1 \in 1..n
                   PROVE  f[k + 1] = h[k + 1]
        OBVIOUS
      <3>1. f[k + 1] = IF k + 1 = 1 THEN ss[k + 1] ELSE f[k] \o ss[k + 1]
        BY <1>9, (k + 1) - 1 = k
      <3>2. h[k + 1] = IF k + 1 = 1 THEN ss[k + 1] ELSE h[k] \o ss[k + 1]
        BY <1>4, (k + 1) - 1 = k DEF Unfolds
      <3> QED
        BY <3>1, <3>2
    <2> HIDE DEF Same
    <2>3. Nat \subseteq Same
      BY <2>1, <2>2, SetInduction
    <2> QED
      BY <2>3 DEF Same
  <1>11. FlattenSeq(ss) = h[n]
    BY <1>5, <1>8, <1>10
  <1> QED
    BY <1>4, <1>11

\* Where each of n sequences begins in their concatenation.
Offsets(ss, n, at) ==
    /\ at \in [1..(n + 1) -> Nat] /\ at[1] = 0
    /\ \A i \in 1..n : at[i + 1] = at[i] + Len(ss[i])
    /\ \A i, j \in 1..(n + 1) : i <= j => at[i] <= at[j]

\* The concatenation holds each of them there, and nothing else.
Placed(ss, n, at) ==
    /\ Offsets(ss, n, at) /\ Len(FlattenSeq(ss)) = at[n + 1]
    /\ \A i \in 1..n : \A j \in 1..Len(ss[i]) :
          at[i] + j \in 1..Len(FlattenSeq(ss)) /\ FlattenSeq(ss)[at[i] + j] = ss[i][j]
    /\ \A p \in 1..Len(FlattenSeq(ss)) :
          \E i \in 1..n : \E j \in 1..Len(ss[i]) : p = at[i] + j

LEMMA FlattenPlaces ==
    ASSUME NEW T, NEW n \in Nat, NEW ss \in [1..n -> Seq(T)]
    PROVE  FlattenSeq(ss) \in Seq(T) /\ \E at : Placed(ss, n, at)
  <1>1. CASE n = 0
    <2>1. Len(ss) = 0 /\ ss \in Seq(T)
      BY <1>1
    <2>2. FlattenSeq(ss) = ss
      BY <2>1 DEF FlattenSeq
    <2> DEFINE at == [i \in 1..1 |-> 0]
    <2>3. Placed(ss, n, at)
      BY <1>1, <2>1, <2>2 DEF Placed, Offsets
    <2> QED
      BY <2>1, <2>2, <2>3
  <1>2. CASE n # 0
    <2>1. PICK h \in [1..n -> Seq(T)] : Unfolds(ss, n, h) /\ FlattenSeq(ss) = h[n]
      BY <1>2, FlattenUnfolds
    <2>0. \A i \in 1..n : Len(h[i]) \in Nat /\ Len(ss[i]) \in Nat
      OBVIOUS
    <2> DEFINE at == [i \in 1..(n + 1) |-> IF i = 1 THEN 0 ELSE Len(h[i - 1])]
    <2>2. \A i \in 1..n : at[i + 1] = Len(h[i]) /\ (i # 1 => at[i] = Len(h[i - 1]))
      OBVIOUS
    <2>3. at[1] = 0 /\ at \in [1..(n + 1) -> Nat]
      BY <2>0
    <2> HIDE DEF at
    <2>4. h[1] = ss[1]
      BY <1>2, <2>1 DEF Unfolds
    <2>5. \A i \in 1..n : i # 1 =>
            /\ Len(h[i]) = Len(h[i - 1]) + Len(ss[i])
            /\ \A p \in 1..Len(h[i]) :
                  h[i][p] = IF p <= Len(h[i - 1]) THEN h[i - 1][p] ELSE ss[i][p - Len(h[i - 1])]
      <3> SUFFICES ASSUME NEW i \in 1..n, i # 1
                   PROVE  /\ Len(h[i]) = Len(h[i - 1]) + Len(ss[i])
                          /\ \A p \in 1..Len(h[i]) :
                                h[i][p] = IF p <= Len(h[i - 1]) THEN h[i - 1][p]
                                          ELSE ss[i][p - Len(h[i - 1])]
        OBVIOUS
      <3>1. h[i] = h[i - 1] \o ss[i]
        BY <2>1 DEF Unfolds
      <3>2. h[i - 1] \in Seq(T) /\ ss[i] \in Seq(T)
        OBVIOUS
      <3> QED
        BY <3>1, <3>2, ConcatProperties
    <2>6. \A i \in 1..n : at[i + 1] = at[i] + Len(ss[i])
      <3> TAKE i \in 1..n
      <3>1. CASE i = 1
        BY <2>0, <2>2, <2>3, <2>4, <3>1
      <3>2. CASE i # 1
        BY <2>0, <2>2, <2>5, <3>2
      <3> QED
        BY <3>1, <3>2
    <2> DEFINE Held(k, i) == \A j \in 1..Len(ss[i]) :
                   at[i] + j \in 1..Len(h[k]) /\ h[k][at[i] + j] = ss[i][j]
               All(k, p) == \E i \in 1..k : \E j \in 1..Len(ss[i]) : p = at[i] + j
               Ok == {k \in Nat : k \in 1..n =>
                        /\ \A i \in 1..k : at[i] <= at[k] /\ Held(k, i)
                        /\ \A p \in 1..Len(h[k]) : All(k, p)}
    <2>7. \A k \in Nat : k \in Ok => k + 1 \in Ok
      <3> SUFFICES ASSUME NEW k \in Nat, k \in Ok PROVE k + 1 \in Ok
        OBVIOUS
      <3>1. CASE k = 0
        <4>1. at[1] = 0 /\ Len(h[1]) = Len(ss[1]) /\ Len(ss[1]) \in Nat
          BY <1>2, <2>3, <2>4
        <4>2. Held(1, 1) /\ \A p \in 1..Len(h[1]) : All(1, p)
          BY <4>1, <2>4
        <4>3. \A i \in 1..1 : at[i] <= at[1] /\ Held(1, i)
          BY <4>1, <4>2
        <4> QED
          BY <3>1, <4>2, <4>3
      <3>2. CASE k # 0
        <4> SUFFICES ASSUME k + 1 \in 1..n
                     PROVE  /\ \A i \in 1..(k + 1) : at[i] <= at[k + 1] /\ Held(k + 1, i)
                            /\ \A p \in 1..Len(h[k + 1]) : All(k + 1, p)
          OBVIOUS
        <4>1. /\ Len(h[k + 1]) = Len(h[k]) + Len(ss[k + 1])
              /\ \A p \in 1..Len(h[k + 1]) :
                    h[k + 1][p] = IF p <= Len(h[k]) THEN h[k][p] ELSE ss[k + 1][p - Len(h[k])]
          BY <2>5, <3>2, (k + 1) - 1 = k, k + 1 # 1
        <4>2. at[k + 1] = Len(h[k]) /\ Len(h[k]) \in Nat /\ Len(ss[k + 1]) \in Nat
          BY <2>0, <2>2, <3>2, k \in 1..n
        <4>8. Len(h[k + 1]) = Len(h[k]) + Len(ss[k + 1])
          BY <4>1
        <4>9. /\ \A j \in 1..Len(ss[k + 1]) :
                    /\ at[k + 1] + j \in 1..Len(h[k + 1]) /\ ~ at[k + 1] + j <= Len(h[k])
                    /\ (at[k + 1] + j) - Len(h[k]) = j
              /\ \A j \in 1..Len(h[k]) : j \in 1..Len(h[k + 1]) /\ j <= Len(h[k])
              /\ \A p \in 1..Len(h[k + 1]) :
                    \/ p \in 1..Len(h[k])
                    \/ p - at[k + 1] \in 1..Len(ss[k + 1]) /\ p = at[k + 1] + (p - at[k + 1])
          <5> DEFINE a == Len(h[k])
                     b == Len(ss[k + 1])
                     c == Len(h[k + 1])
                     d == at[k + 1]
          <5>1. a \in Nat /\ b \in Nat /\ c = a + b /\ d = a
            BY <4>2, <4>8
          <5> HIDE DEF a, b, c, d
          <5>2. /\ \A j \in 1..b : d + j \in 1..c /\ ~ d + j <= a /\ (d + j) - a = j
                /\ \A j \in 1..a : j \in 1..c /\ j <= a
                /\ \A p \in 1..c : p \in 1..a \/ (p - d \in 1..b /\ p = d + (p - d))
            BY <5>1
          <5> QED
            BY <5>2 DEF a, b, c, d
        <4>3. k \in 1..n /\ at[k] \in Nat /\ at[k] <= at[k + 1]
          <5>1. k \in 1..n /\ k \in 1..(n + 1)
            BY <3>2
          <5>2. at[k] \in Nat /\ at[k + 1] = at[k] + Len(ss[k]) /\ Len(ss[k]) \in Nat
            BY <5>1, <2>0, <2>3, <2>6
          <5> QED
            BY <5>1, <5>2
        <4>4. /\ \A i \in 1..k : at[i] <= at[k] /\ Held(k, i)
              /\ \A p \in 1..Len(h[k]) : All(k, p)
          BY <4>3
        <4> HIDE DEF Ok
        <4>5. \A i \in 1..(k + 1) : at[i] <= at[k + 1]
          <5> TAKE i \in 1..(k + 1)
          <5>1. CASE i = k + 1
            BY <4>2, <5>1
          <5>2. CASE i \in 1..k
            <6>1. at[i] <= at[k]
              BY <4>4, <5>2
            <6>2. i \in 1..(n + 1) /\ k + 1 \in 1..(n + 1)
              BY <4>3
            <6>3. at[i] \in Nat /\ at[k + 1] \in Nat
              BY <2>3, <6>2
            <6>4. at[k] \in Nat /\ at[k] <= at[k + 1]
              BY <4>3
            <6> QED
              BY <6>1, <6>3, <6>4
          <5> QED
            BY <5>1, <5>2
        <4>6. ASSUME NEW i \in 1..(k + 1) PROVE Held(k + 1, i)
          <5>1. CASE i = k + 1
            <6> SUFFICES ASSUME NEW j \in 1..Len(ss[k + 1])
                         PROVE  /\ at[k + 1] + j \in 1..Len(h[k + 1])
                                /\ h[k + 1][at[k + 1] + j] = ss[k + 1][j]
              BY <5>1
            <6>1. /\ at[k + 1] + j \in 1..Len(h[k + 1]) /\ ~ at[k + 1] + j <= Len(h[k])
                  /\ (at[k + 1] + j) - Len(h[k]) = j
              BY <4>9
            <6> QED
              BY <4>1, <6>1
          <5>2. CASE i \in 1..k
            <6>1. Held(k, i)
              BY <4>4, <5>2
            <6> QED
              <7> TAKE j \in 1..Len(ss[i])
              <7>1. at[i] + j \in 1..Len(h[k]) /\ h[k][at[i] + j] = ss[i][j]
                BY <6>1
              <7>2. at[i] + j \in 1..Len(h[k + 1]) /\ at[i] + j <= Len(h[k])
                BY <4>9, <7>1
              <7> QED
                BY <4>1, <7>1, <7>2
          <5> QED
            BY <5>1, <5>2
        <4>7. ASSUME NEW p \in 1..Len(h[k + 1]) PROVE All(k + 1, p)
          <5>1. CASE p \in 1..Len(h[k])
            <6>1. PICK i \in 1..k : \E j \in 1..Len(ss[i]) : p = at[i] + j
              BY <4>4, <5>1
            <6>2. i \in 1..(k + 1)
              OBVIOUS
            <6> QED
              BY <6>1, <6>2
          <5>2. CASE p \notin 1..Len(h[k])
            <6>1. p - at[k + 1] \in 1..Len(ss[k + 1]) /\ p = at[k + 1] + (p - at[k + 1])
              BY <4>9, <5>2
            <6> QED
              BY <6>1, k + 1 \in 1..(k + 1)
          <5> QED
            BY <5>1, <5>2
        <4> QED
          BY <4>5, <4>6, <4>7
      <3> QED
        BY <3>1, <3>2
    <2>8. 0 \in Ok
      OBVIOUS
    <2>9. \A k \in 1..n : k \in Ok
      <3> HIDE DEF Ok
      <3> QED
        <4>1. Nat \subseteq Ok
          BY <2>7, <2>8, SetInduction
        <4> QED
          BY <4>1
    <2>10. \A k \in 1..n : /\ \A i \in 1..k : at[i] <= at[k] /\ Held(k, i)
                           /\ \A p \in 1..Len(h[k]) : All(k, p)
      BY <2>9
    <2>11. Offsets(ss, n, at)
      <3>1. ASSUME NEW i \in 1..(n + 1), NEW j \in 1..(n + 1), i <= j
            PROVE  at[i] <= at[j]
        <4>1. CASE j <= n
          BY <2>10, <3>1, <4>1
        <4>2. CASE j = n + 1 /\ i = n + 1
          BY <4>2, <2>3
        <4>3. CASE j = n + 1 /\ i <= n
          <5>1. at[i] <= at[n]
            BY <2>10, <4>3, <1>2
          <5>2. at[n + 1] = at[n] + Len(ss[n]) /\ Len(ss[n]) \in Nat
            BY <2>6, <1>2
          <5> QED
            BY <5>1, <5>2, <4>3, <2>3, <1>2
        <4> QED
          BY <4>1, <4>2, <4>3, <3>1
      <3> QED
        BY <2>3, <2>6, <3>1 DEF Offsets
    <2>12. Placed(ss, n, at)
      <3>1. n \in 1..n /\ FlattenSeq(ss) = h[n] /\ at[n + 1] = Len(h[n])
        BY <1>2, <2>1, <2>2
      <3>2. /\ \A i \in 1..n : Held(n, i)
            /\ \A p \in 1..Len(h[n]) : All(n, p)
        BY <2>10, <3>1
      <3> QED
        BY <2>11, <3>1, <3>2 DEF Placed
    <2>13. FlattenSeq(ss) \in Seq(T)
      BY <1>2, <2>1
    <2> QED
      BY <2>12, <2>13
  <1> QED
    BY <1>1, <1>2
-----------------------------------------------------------------------------
(* What is left of a list, and in what order.                               *)

\* out has the elements of list that are in set, each as often as list.
Picked(out, list, set) ==
    \E w \in [1..Len(out) -> 1..Len(list)] :
        /\ \A p, q \in 1..Len(out) : w[p] = w[q] => p = q
        /\ \A p \in 1..Len(out) : out[p] = list[w[p]] /\ out[p] \in set
        /\ \A i \in 1..Len(list) : list[i] \in set => \E p \in 1..Len(out) : w[p] = i

LEMMA OnlyPicks ==
    ASSUME NEW T, NEW seq \in Seq(T), NEW set
    PROVE  Only(seq, set) \in Seq(T) /\ Picked(Only(seq, set), seq, set)
  <1> DEFINE n == Len(seq)
             ss == [i \in 1..n |-> IF seq[i] \in set THEN <<seq[i]>> ELSE << >>]
             out == FlattenSeq(ss)
  <1>1. n \in Nat /\ DOMAIN seq = 1..n /\ \A i \in 1..n : seq[i] \in T
    OBVIOUS
  <1>2. \A i \in 1..n : ss[i] \in Seq(T)
    BY <1>1
  <1>3. ss \in [1..n -> Seq(T)] /\ out = Only(seq, set)
    BY <1>1, <1>2 DEF Only
  <1>4. \A i \in 1..n :
          /\ seq[i] \in set => Len(ss[i]) = 1 /\ ss[i][1] = seq[i]
          /\ seq[i] \notin set => Len(ss[i]) = 0
    BY <1>1
  <1> HIDE DEF n, ss, out
  <1>5. out \in Seq(T) /\ \E at : Placed(ss, n, at)
    BY <1>1, <1>3, FlattenPlaces DEF out
  <1>6. PICK at : Placed(ss, n, at)
    BY <1>5
  <1>7. \A p \in 1..Len(out) : \E i \in 1..n : seq[i] \in set /\ p = at[i] + 1
    <2> TAKE p \in 1..Len(out)
    <2>1. PICK i \in 1..n : \E j \in 1..Len(ss[i]) : p = at[i] + j
      BY <1>6 DEF Placed, out
    <2>2. CASE seq[i] \in set
      <3>1. at[i] \in Nat /\ Len(ss[i]) = 1
        BY <1>1, <1>4, <1>6, <2>2 DEF Placed, Offsets
      <3> QED
        BY <2>1, <2>2, <3>1
    <2>3. CASE seq[i] \notin set
      BY <1>4, <2>1, <2>3
    <2> QED
      BY <2>2, <2>3
  <1> DEFINE w == [p \in 1..Len(out) |->
                      CHOOSE i \in 1..n : seq[i] \in set /\ p = at[i] + 1]
  <1>8. \A p \in 1..Len(out) : w[p] \in 1..n /\ seq[w[p]] \in set /\ p = at[w[p]] + 1
    BY <1>7
  <1>9. w \in [1..Len(out) -> 1..n]
    BY <1>8
  <1> HIDE DEF w
  <1>10. \A i \in 1..n : seq[i] \in set =>
            at[i] + 1 \in 1..Len(out) /\ out[at[i] + 1] = seq[i]
    <2> SUFFICES ASSUME NEW i \in 1..n, seq[i] \in set
                 PROVE  at[i] + 1 \in 1..Len(out) /\ out[at[i] + 1] = seq[i]
      OBVIOUS
    <2>1. 1 \in 1..Len(ss[i]) /\ ss[i][1] = seq[i]
      BY <1>4
    <2> QED
      BY <1>6, <2>1 DEF Placed, out
  <1>11. \A p \in 1..Len(out) : out[p] = seq[w[p]] /\ out[p] \in set
    BY <1>8, <1>10
  <1>12. \A i \in 1..n : seq[i] \in set => \E p \in 1..Len(out) : w[p] = i
    <2> SUFFICES ASSUME NEW i \in 1..n, seq[i] \in set
                 PROVE  w[at[i] + 1] = i
      BY <1>10
    <2> DEFINE k == w[at[i] + 1]
    <2>1. k \in 1..n /\ seq[k] \in set /\ at[k] + 1 = at[i] + 1
      BY <1>8, <1>10
    <2> HIDE DEF k
    <2>2. /\ Len(ss[i]) = 1 /\ Len(ss[k]) = 1
          /\ at \in [1..(n + 1) -> Nat]
          /\ at[i + 1] = at[i] + Len(ss[i]) /\ at[k + 1] = at[k] + Len(ss[k])
          /\ \A x, y \in 1..(n + 1) : x <= y => at[x] <= at[y]
      BY <1>4, <1>6, <2>1 DEF Placed, Offsets
    <2>3. ~ i + 1 <= k /\ ~ k + 1 <= i
      <3>1. i \in 1..(n + 1) /\ k \in 1..(n + 1) /\ i + 1 \in 1..(n + 1) /\ k + 1 \in 1..(n + 1)
        BY <1>1, <2>1
      <3>2. at[i] \in Nat /\ at[k] \in Nat /\ at[i] = at[k]
        BY <2>1, <2>2, <3>1
      <3> QED
        BY <2>2, <3>1, <3>2
    <2>4. k = i
      BY <1>1, <2>1, <2>3
    <2> QED
      BY <2>4 DEF k
  <1>13. \A p, q \in 1..Len(out) : w[p] = w[q] => p = q
    BY <1>8
  <1>14. Picked(out, seq, set)
    BY <1>9, <1>11, <1>12, <1>13 DEF Picked, n
  <1> QED
    BY <1>3, <1>5, <1>14
\* out has the elements of list that are in set, once each.
Has(out, list, set) == Unique(out) /\ ToSet(out) = ToSet(list) \cap set

LEMMA OnlyHas ==
    ASSUME NEW T, NEW list \in Seq(T), Unique(list), NEW set
    PROVE  Only(list, set) \in Seq(T) /\ Has(Only(list, set), list, set)
  <1> DEFINE out == Only(list, set)
  <1>1. out \in Seq(T) /\ Picked(out, list, set)
    BY OnlyPicks
  <1> HIDE DEF out
  <1>2. PICK w \in [1..Len(out) -> 1..Len(list)] :
            /\ \A p, q \in 1..Len(out) : w[p] = w[q] => p = q
            /\ \A p \in 1..Len(out) : out[p] = list[w[p]] /\ out[p] \in set
            /\ \A i \in 1..Len(list) : list[i] \in set => \E p \in 1..Len(out) : w[p] = i
    BY <1>1 DEF Picked
  <1>3. DOMAIN out = 1..Len(out) /\ DOMAIN list = 1..Len(list)
    BY <1>1
  <1>4. Unique(out)
    BY <1>2, <1>3 DEF Unique
  <1>5. \A s \in ToSet(out) : s \in ToSet(list) \cap set
    BY <1>2, <1>3 DEF ToSet
  <1>6. ASSUME NEW s \in ToSet(list), s \in set
        PROVE  s \in ToSet(out)
    <2>1. PICK i \in 1..Len(list) : s = list[i]
      BY <1>3 DEF ToSet
    <2>2. PICK p \in 1..Len(out) : w[p] = i
      BY <1>2, <1>6, <2>1
    <2>3. out[p] = s
      BY <1>2, <2>1, <2>2
    <2> QED
      BY <1>3, <2>3 DEF ToSet
  <1> QED
    BY <1>1, <1>4, <1>5, <1>6 DEF Has, out

\* Sorted by last use, a list has the servers it had.
LEMMA SortHas ==
    ASSUME NEW T, NEW list \in Seq(T), Unique(list),
           NEW used \in Seq(STRING), IsInjective(used), NEW byUse \in BOOLEAN
    PROVE  /\ SortServers(list, used, byUse) \in Seq(T)
           /\ Has(SortServers(list, used, byUse), list, ToSet(list))
  <1>1. CASE ~byUse
    BY <1>1 DEF SortServers, Has
  <1>2. CASE byUse
    <2> DEFINE n == Len(used)
               ss == [i \in 1..n |-> Used(list, used[i])]
               first == FlattenSeq(ss)
               rest == Only(list, {s \in ToSet(list) : s.id \notin ToSet(used)})
    <2>1. n \in Nat /\ DOMAIN used = 1..n
      OBVIOUS
    <2>2. SortServers(list, used, byUse) = first \o rest
      BY <1>2, <2>1 DEF SortServers
    <2>3. \A i \in 1..n : /\ ss[i] \in Seq(T) /\ Unique(ss[i])
                          /\ ToSet(ss[i]) = {s \in ToSet(list) : s.id = used[i]}
      <3> TAKE i \in 1..n
      <3>1. Used(list, used[i]) \in Seq(T) /\ Has(Used(list, used[i]), list, {s \in ToSet(list) : s.id = used[i]})
        BY OnlyHas DEF Used
      <3> QED
        BY <3>1 DEF Has
    <2>4. /\ rest \in Seq(T) /\ Unique(rest)
          /\ ToSet(rest) = {s \in ToSet(list) : s.id \notin ToSet(used)}
      <3>1. rest \in Seq(T) /\ Has(rest, list, {s \in ToSet(list) : s.id \notin ToSet(used)})
        BY OnlyHas
      <3> QED
        BY <3>1 DEF Has
    <2>5. ss \in [1..n -> Seq(T)]
      BY <2>3
    <2> HIDE DEF n, ss, rest
    <2>6. first \in Seq(T) /\ \E at : Placed(ss, n, at)
      BY <2>1, <2>5, FlattenPlaces
    <2> HIDE DEF first
    <2>7. PICK at : Placed(ss, n, at)
      BY <2>6
    <2>8. \A p \in 1..Len(first) : \E i \in 1..n : \E j \in 1..Len(ss[i]) :
             p = at[i] + j /\ first[p] = ss[i][j] /\ ss[i][j].id = used[i]
      <3> SUFFICES ASSUME NEW p \in 1..Len(first)
                   PROVE  \E i \in 1..n : \E j \in 1..Len(ss[i]) :
                             p = at[i] + j /\ first[p] = ss[i][j] /\ ss[i][j].id = used[i]
        OBVIOUS
      <3>1. PICK i \in 1..n : \E j \in 1..Len(ss[i]) : p = at[i] + j
        BY <2>7 DEF Placed, first
      <3>2. PICK j \in 1..Len(ss[i]) : p = at[i] + j
        BY <3>1
      <3>3. first[p] = ss[i][j]
        BY <2>7, <3>2 DEF Placed, first
      <3>4. ss[i][j] \in ToSet(ss[i])
        BY <2>3 DEF ToSet
      <3>5. ss[i][j].id = used[i]
        BY <2>3, <3>4
      <3> QED
        BY <3>2, <3>3, <3>5
    <2>9. DOMAIN first = 1..Len(first) /\ DOMAIN rest = 1..Len(rest)
      BY <2>4, <2>6
    <2>10. Unique(first)
      <3> SUFFICES ASSUME NEW p \in 1..Len(first), NEW q \in 1..Len(first),
                          first[p].id = first[q].id
                   PROVE  p = q
        BY <2>9 DEF Unique
      <3>1. PICK i \in 1..n : \E j \in 1..Len(ss[i]) :
               p = at[i] + j /\ first[p] = ss[i][j] /\ ss[i][j].id = used[i]
        BY <2>8
      <3>1a. PICK j \in 1..Len(ss[i]) :
               p = at[i] + j /\ first[p] = ss[i][j] /\ ss[i][j].id = used[i]
        BY <3>1
      <3>2. PICK k \in 1..n : \E m \in 1..Len(ss[k]) :
               q = at[k] + m /\ first[q] = ss[k][m] /\ ss[k][m].id = used[k]
        BY <2>8
      <3>2a. PICK m \in 1..Len(ss[k]) :
               q = at[k] + m /\ first[q] = ss[k][m] /\ ss[k][m].id = used[k]
        BY <3>2
      <3>3. i = k
        BY <2>1, <3>1a, <3>2a DEF IsInjective
      <3>4. j = m
        <4>1. ss[i] \in Seq(T) /\ Unique(ss[i])
          BY <2>3
        <4>2. DOMAIN ss[i] = 1..Len(ss[i])
          BY <4>1
        <4> QED
          BY <3>1a, <3>2a, <3>3, <4>1, <4>2 DEF Unique
      <3> QED
        BY <3>1a, <3>2a, <3>3, <3>4
    <2>11. ToSet(first) = {s \in ToSet(list) : s.id \in ToSet(used)}
      <3>1. ASSUME NEW s \in ToSet(first)
            PROVE  s \in ToSet(list) /\ s.id \in ToSet(used)
        <4>1. PICK p \in 1..Len(first) : s = first[p]
          BY <2>9 DEF ToSet
        <4>2. PICK i \in 1..n : \E j \in 1..Len(ss[i]) : s = ss[i][j] /\ s.id = used[i]
          BY <2>8, <4>1
        <4>5. PICK j \in 1..Len(ss[i]) : s = ss[i][j] /\ s.id = used[i]
          BY <4>2
        <4>3. ss[i][j] \in ToSet(ss[i])
          BY <2>3 DEF ToSet
        <4>4. used[i] \in ToSet(used)
          BY <2>1 DEF ToSet
        <4> QED
          BY <2>3, <4>5, <4>3, <4>4
      <3>2. ASSUME NEW s \in ToSet(list), s.id \in ToSet(used)
            PROVE  s \in ToSet(first)
        <4>1. PICK i \in 1..n : s.id = used[i]
          BY <2>1, <3>2 DEF ToSet
        <4>2. s \in ToSet(ss[i]) /\ ss[i] \in Seq(T)
          BY <2>3, <4>1
        <4>3. PICK j \in 1..Len(ss[i]) : s = ss[i][j]
          BY <4>2 DEF ToSet
        <4>4. at[i] + j \in 1..Len(first) /\ first[at[i] + j] = s
          BY <2>7, <4>3 DEF Placed, first
        <4> QED
          BY <2>9, <4>4 DEF ToSet
      <3> QED
        BY <3>1, <3>2
    <2> DEFINE out == first \o rest
    <2>12. /\ out \in Seq(T) /\ Len(out) = Len(first) + Len(rest)
           /\ \A p \in 1..Len(first) + Len(rest) :
                 out[p] = IF p <= Len(first) THEN first[p] ELSE rest[p - Len(first)]
      BY <2>4, <2>6, ConcatProperties
    <2> HIDE DEF out
    <2>13. DOMAIN out = 1..Len(out) /\ Len(first) \in Nat /\ Len(rest) \in Nat
      BY <2>4, <2>6, <2>12
    <2>14. \A p \in 1..Len(out) :
              \/ p \in 1..Len(first) /\ out[p] = first[p] /\ out[p].id \in ToSet(used)
              \/ /\ p - Len(first) \in 1..Len(rest) /\ out[p] = rest[p - Len(first)]
                 /\ out[p].id \notin ToSet(used)
      <3> TAKE p \in 1..Len(out)
      <3>1. CASE p <= Len(first)
        <4>1. p \in 1..Len(first) /\ out[p] = first[p]
          BY <2>12, <2>13, <3>1
        <4>2. out[p] \in ToSet(first)
          BY <2>9, <4>1 DEF ToSet
        <4> QED
          BY <2>11, <4>1, <4>2
      <3>2. CASE ~ p <= Len(first)
        <4>1. p - Len(first) \in 1..Len(rest) /\ out[p] = rest[p - Len(first)]
          BY <2>12, <2>13, <3>2
        <4>2. out[p] \in ToSet(rest)
          BY <2>9, <4>1 DEF ToSet
        <4> QED
          BY <2>4, <4>1, <4>2
      <3> QED
        BY <3>1, <3>2
    <2>15. Unique(out)
      <3> SUFFICES ASSUME NEW p \in 1..Len(out), NEW q \in 1..Len(out),
                          out[p].id = out[q].id
                   PROVE  p = q
        BY <2>13 DEF Unique
      <3>1. CASE out[p].id \in ToSet(used)
        BY <2>9, <2>10, <2>14, <3>1 DEF Unique
      <3>2. CASE out[p].id \notin ToSet(used)
        <4>1. p - Len(first) = q - Len(first)
          BY <2>4, <2>9, <2>14, <3>2 DEF Unique
        <4> QED
          BY <2>13, <4>1
      <3> QED
        BY <3>1, <3>2
    <2>16. \A s \in ToSet(list) : s \in ToSet(out)
      <3> TAKE s \in ToSet(list)
      <3>1. CASE s \in ToSet(first)
        <4>1. PICK p \in 1..Len(first) : s = first[p]
          BY <2>9, <3>1 DEF ToSet
        <4>2. p \in 1..Len(out) /\ out[p] = s
          BY <2>12, <2>13, <4>1
        <4> QED
          BY <2>13, <4>2 DEF ToSet
      <3>2. CASE s \in ToSet(rest)
        <4>1. PICK p \in 1..Len(rest) : s = rest[p]
          BY <2>9, <3>2 DEF ToSet
        <4>2. Len(first) + p \in 1..Len(out) /\ ~ Len(first) + p <= Len(first)
              /\ (Len(first) + p) - Len(first) = p
          BY <2>12, <2>13
        <4>3. out[Len(first) + p] = s
          BY <2>12, <4>1, <4>2
        <4> QED
          BY <2>13, <4>2, <4>3 DEF ToSet
      <3> QED
        BY <2>4, <2>11, <3>1, <3>2
    <2>17. \A s \in ToSet(out) : s \in ToSet(list)
      <3> TAKE s \in ToSet(out)
      <3>1. PICK p \in 1..Len(out) : s = out[p]
        BY <2>13 DEF ToSet
      <3>2. s \in ToSet(first) \/ s \in ToSet(rest)
        BY <2>9, <2>14, <3>1 DEF ToSet
      <3> QED
        BY <2>4, <2>11, <3>2
    <2>18. Has(out, list, ToSet(list))
      BY <2>15, <2>16, <2>17 DEF Has
    <2> QED
      BY <2>2, <2>12, <2>18 DEF out
  <1> QED
    BY <1>1, <1>2


(* The rows of the list on the left. *)

RowShape == {"connect", "header", "server"} \X (STRING \cup {""}) \X BOOLEAN
Server == [id : STRING, group : ToSet(GroupOrder) \cup {""}]

\* A list that was loaded, and who was used last.
Loaded(list, used) ==
    /\ list \in Seq(Server) /\ Unique(list)
    /\ used \in Seq(STRING) /\ IsInjective(used)

LEMMA ServerHas ==
    ASSUME NEW s \in Server
    PROVE  s.id \in STRING /\ (s.group = "" \/ s.group \in ToSet(GroupOrder))
  BY DEF Server

LEMMA LoadedHas ==
    ASSUME NEW list, NEW used, Loaded(list, used)
    PROVE  \A s \in ToSet(list) :
              /\ s \in Server /\ s.id \in STRING
              /\ s.group = "" \/ s.group \in ToSet(GroupOrder)
  <1>1. \A s \in ToSet(list) : s \in Server
    BY DEF Loaded, ToSet
  <1> QED
    BY <1>1, ServerHas

ServerRow(s, live) == <<"server", s.id, s.id \in live>>
HeaderRow(g, marked) == <<"header", g, marked>>
Named(g) == g \in STRING /\ g # ""

LEMMA ServerRowHas ==
    ASSUME NEW s, s.id \in STRING, NEW live
    PROVE  /\ ServerRow(s, live) \in RowShape
           /\ ServerRow(s, live)[1] = "server" /\ ServerRow(s, live)[2] = s.id
           /\ ServerRow(s, live)[3] = (s.id \in live)
  <1>1. ASSUME NEW x \in STRING, NEW b \in BOOLEAN
        PROVE  <<"server", x, b>> \in RowShape
    BY DEF RowShape
  <1>2. (s.id \in live) \in BOOLEAN
    OBVIOUS
  <1>3. ServerRow(s, live) \in RowShape
    BY <1>1, <1>2 DEF ServerRow
  <1>4. ServerRow(s, live)[1] = "server"
    BY DEF ServerRow
  <1>5. ServerRow(s, live)[2] = s.id
    BY DEF ServerRow
  <1>6. ServerRow(s, live)[3] = (s.id \in live)
    BY DEF ServerRow
  <1> QED
    BY <1>3, <1>4, <1>5, <1>6

LEMMA HeaderRowHas ==
    ASSUME NEW g, Named(g), NEW b \in BOOLEAN
    PROVE  /\ HeaderRow(g, b) \in RowShape
           /\ HeaderRow(g, b)[1] = "header" /\ HeaderRow(g, b)[2] = g /\ HeaderRow(g, b)[3] = b
  <1>1. HeaderRow(g, b) \in RowShape
    BY DEF HeaderRow, RowShape, Named
  <1>2. HeaderRow(g, b)[1] = "header" /\ HeaderRow(g, b)[2] = g
    BY DEF HeaderRow
  <1>3. HeaderRow(g, b)[3] = b
    BY DEF HeaderRow
  <1> QED
    BY <1>1, <1>2, <1>3

\* A stretch of rows shows the servers of group g: one row for each of them, or
\* none if the group is folded, under one header if the group has a name.
Shows(stretch, g, list, live, folded) ==
    /\ \A j \in 1..Len(stretch) :
          \/ /\ j = 1 /\ Named(g) /\ stretch[j][1] = "header" /\ stretch[j][2] = g
             /\ \A s \in ToSet(list) : s.group = g /\ s.id \in live => stretch[j][3]
          \/ g \notin folded /\ \E s \in ToSet(list) : s.group = g /\ stretch[j] = ServerRow(s, live)
    /\ \A j, k \in 1..Len(stretch) : stretch[j][2] = stretch[k][2] /\ stretch[j][1] = stretch[k][1]
          => j = k
    /\ \A s \in ToSet(list) : s.group = g =>
          /\ Named(g) => Len(stretch) >= 1 /\ stretch[1][1] = "header"
          /\ g \notin folded => \E j \in 1..Len(stretch) : stretch[j] = ServerRow(s, live)

\* One row for each server of group g.
OneEach(lines, g, list, live) ==
    /\ \A j \in 1..Len(lines) : \E s \in ToSet(list) : s.group = g /\ lines[j] = ServerRow(s, live)
    /\ \A j, k \in 1..Len(lines) : lines[j][2] = lines[k][2] => j = k
    /\ \A s \in ToSet(list) : s.group = g => \E j \in 1..Len(lines) : lines[j] = ServerRow(s, live)

LEMMA LinesShow ==
    ASSUME NEW list, NEW used, Loaded(list, used), NEW live, NEW byUse \in BOOLEAN, NEW g
    PROVE  LET lines == Lines(SortServers(Members(list, g), used, byUse), live)
           IN  lines \in Seq(RowShape) /\ OneEach(lines, g, list, live)
  <1> DEFINE mine == Members(list, g)
             sorted == SortServers(mine, used, byUse)
             lines == Lines(sorted, live)
  <1>1. mine \in Seq(Server) /\ Unique(mine) /\ ToSet(mine) = {s \in ToSet(list) : s.group = g}
    <2>1. mine \in Seq(Server) /\ Has(mine, list, {s \in ToSet(list) : s.group = g})
      BY OnlyHas DEF Members, Loaded
    <2> QED
      BY <2>1 DEF Has
  <1>2. sorted \in Seq(Server) /\ Unique(sorted) /\ ToSet(sorted) = ToSet(mine)
    <2> HIDE DEF mine
    <2>1. sorted \in Seq(Server) /\ Has(sorted, mine, ToSet(mine))
      BY <1>1, SortHas DEF Loaded
    <2> QED
      BY <2>1 DEF Has
  <1> HIDE DEF mine, sorted
  <1>3. DOMAIN sorted = 1..Len(sorted) /\ Len(sorted) \in Nat
        /\ \A i \in 1..Len(sorted) : sorted[i] \in Server /\ sorted[i].id \in STRING
    <2>1. DOMAIN sorted = 1..Len(sorted) /\ Len(sorted) \in Nat
      BY <1>2
    <2>2. \A i \in 1..Len(sorted) : sorted[i] \in Server
      BY <1>2
    <2> QED
      BY <2>1, <2>2, ServerHas
  <1>4. lines = [i \in 1..Len(sorted) |-> ServerRow(sorted[i], live)]
    BY <1>3 DEF Lines, ServerRow
  <1>5. \A i \in 1..Len(sorted) : ServerRow(sorted[i], live) \in RowShape
    BY <1>3, ServerRowHas
  <1>6. lines \in Seq(RowShape) /\ Len(lines) = Len(sorted)
        /\ \A i \in 1..Len(sorted) : lines[i] = ServerRow(sorted[i], live)
    BY <1>3, <1>4, <1>5
  <1> HIDE DEF lines
  <1>7. \A j \in 1..Len(lines) : sorted[j] \in ToSet(list) /\ sorted[j].group = g
    BY <1>1, <1>2, <1>3, <1>6 DEF ToSet
  <1>8. \A j, k \in 1..Len(lines) : lines[j][2] = lines[k][2] => j = k
    <2>1. \A j \in 1..Len(lines) : lines[j][2] = sorted[j].id
      BY <1>3, <1>6, ServerRowHas
    <2> QED
      BY <1>2, <1>3, <1>6, <2>1 DEF Unique
  <1>9. ASSUME NEW s \in ToSet(list), s.group = g
        PROVE  \E j \in 1..Len(lines) : lines[j] = ServerRow(s, live)
    <2>1. s \in ToSet(sorted)
      BY <1>1, <1>2, <1>9
    <2>2. PICK j \in 1..Len(sorted) : s = sorted[j]
      BY <1>3, <2>1 DEF ToSet
    <2> QED
      BY <1>6, <2>2
  <1> QED
    BY <1>6, <1>7, <1>8, <1>9 DEF lines, sorted, mine, OneEach

LEMMA BlockShows ==
    ASSUME NEW list, NEW used, Loaded(list, used), NEW live, NEW folded,
           NEW byUse \in BOOLEAN, NEW g, Named(g)
    PROVE  LET block == Block(g, list, used, live, folded, byUse)
           IN  block \in Seq(RowShape) /\ Shows(block, g, list, live, folded)
  <1> DEFINE mine == Members(list, g)
             lines == Lines(SortServers(mine, used, byUse), live)
             header == HeaderRow(g, IdsOf(mine) \cap live # {})
             block == Block(g, list, used, live, folded, byUse)
  <1>1. mine \in Seq(Server) /\ ToSet(mine) = {s \in ToSet(list) : s.group = g}
    <2>1. mine \in Seq(Server) /\ Has(mine, list, {s \in ToSet(list) : s.group = g})
      BY OnlyHas DEF Members, Loaded
    <2> QED
      BY <2>1 DEF Has
  <1>2a. lines \in Seq(RowShape) /\ OneEach(lines, g, list, live)
    BY LinesShow
  <1>2. /\ lines \in Seq(RowShape)
        /\ \A j \in 1..Len(lines) :
              \E s \in ToSet(list) : s.group = g /\ lines[j] = ServerRow(s, live)
        /\ \A j, k \in 1..Len(lines) : lines[j][2] = lines[k][2] => j = k
        /\ \A s \in ToSet(list) : s.group = g =>
              \E j \in 1..Len(lines) : lines[j] = ServerRow(s, live)
    BY <1>2a DEF OneEach
  <1>3. header \in RowShape /\ \A s \in ToSet(list) : s.group = g /\ s.id \in live => header[3]
    <2>1. \A s \in ToSet(list) : s.group = g => s.id \in IdsOf(mine)
      BY <1>1 DEF ToSet, IdsOf
    <2> HIDE DEF mine
    <2> DEFINE b == IdsOf(mine) \cap live # {}
    <2>2. b \in BOOLEAN /\ \A s \in ToSet(list) : s.group = g /\ s.id \in live => b
      BY <2>1
    <2> HIDE DEF b
    <2>3. HeaderRow(g, b) \in RowShape /\ HeaderRow(g, b)[3] = b
      BY <2>2, HeaderRowHas
    <2> QED
      BY <2>2, <2>3 DEF b
  <1>4. block = IF mine = << >> THEN << >>
                ELSE <<header>> \o (IF g \in folded THEN << >> ELSE lines)
    BY DEF Block, HeaderRow
  <1>5. header[1] = "header" /\ header[2] = g
    BY DEF HeaderRow
  <1> HIDE DEF mine, lines, header, block
  <1>6. CASE mine = << >>
    <2>1. block = << >> /\ Len(block) = 0 /\ block \in Seq(RowShape)
      BY <1>4, <1>6
    <2>2. \A s \in ToSet(list) : s.group # g
      BY <1>1, <1>6 DEF ToSet
    <2> QED
      BY <2>1, <2>2 DEF Shows, block
  <1>7. CASE mine # << >> /\ g \in folded
    <2>1. block = <<header>>
      BY <1>2, <1>3, <1>4, <1>7
    <2>2. block \in Seq(RowShape) /\ Len(block) = 1 /\ block[1] = header
      BY <1>3, <2>1
    <2> QED
      BY <1>3, <1>5, <1>7, <2>2 DEF Shows, block
  <1>8. CASE mine # << >> /\ g \notin folded
    <2>1. block = <<header>> \o lines
      BY <1>4, <1>8
    <2>2. <<header>> \in Seq(RowShape) /\ Len(<<header>>) = 1 /\ <<header>>[1] = header
      BY <1>3
    <2>3. /\ block \in Seq(RowShape) /\ Len(block) = 1 + Len(lines)
          /\ \A j \in 1..(1 + Len(lines)) :
                block[j] = IF j <= 1 THEN <<header>>[j] ELSE lines[j - 1]
      BY <1>2, <2>1, <2>2, ConcatProperties
    <2>4. Len(lines) \in Nat
      BY <1>2
    <2>5. block[1] = header
      BY <2>2, <2>3, <2>4
    <2>6. \A j \in 1..Len(block) : j # 1 => j - 1 \in 1..Len(lines) /\ block[j] = lines[j - 1]
      <3> TAKE j \in 1..Len(block)
      <3> HAVE j # 1
      <3>1. j \in 1..(1 + Len(lines)) /\ ~ j <= 1 /\ j - 1 \in 1..Len(lines)
        BY <2>3, <2>4
      <3>2. block[j] = IF j <= 1 THEN <<header>>[j] ELSE lines[j - 1]
        BY <2>3, <3>1
      <3> QED
        BY <3>1, <3>2
    <2>7. \A j \in 1..Len(lines) : j + 1 \in 1..Len(block) /\ block[j + 1] = lines[j]
      <3> TAKE j \in 1..Len(lines)
      <3>1. j + 1 \in 1..(1 + Len(lines)) /\ ~ j + 1 <= 1 /\ (j + 1) - 1 = j
        BY <2>4
      <3> QED
        BY <2>3, <3>1
    <2>8. \A j \in 1..Len(block) : j # 1 => block[j][1] = "server"
      <3>1. \A s \in ToSet(list) : s.id \in STRING
        BY LoadedHas
      <3> TAKE j \in 1..Len(block)
      <3> HAVE j # 1
      <3>2. PICK s \in ToSet(list) : lines[j - 1] = ServerRow(s, live)
        BY <1>2, <2>6
      <3> QED
        BY <2>6, <3>1, <3>2, ServerRowHas
    <2>9. \A j \in 1..Len(block) : j # 1 =>
             \E s \in ToSet(list) : s.group = g /\ block[j] = ServerRow(s, live)
      <3> TAKE j \in 1..Len(block)
      <3> HAVE j # 1
      <3>1. j - 1 \in 1..Len(lines) /\ block[j] = lines[j - 1]
        BY <2>6
      <3> QED
        BY <1>2, <3>1
    <2>10. \A j, k \in 1..Len(block) :
              block[j][2] = block[k][2] /\ block[j][1] = block[k][1] => j = k
      <3> SUFFICES ASSUME NEW j \in 1..Len(block), NEW k \in 1..Len(block),
                          block[j][2] = block[k][2], block[j][1] = block[k][1]
                   PROVE  j = k
        OBVIOUS
      <3>1. CASE j = 1 \/ k = 1
        BY <1>5, <2>5, <2>8, <3>1
      <3>2. CASE j # 1 /\ k # 1
        <4>1. j - 1 = k - 1
          <5>1. /\ j - 1 \in 1..Len(lines) /\ block[j] = lines[j - 1]
                /\ k - 1 \in 1..Len(lines) /\ block[k] = lines[k - 1]
            BY <2>6, <3>2
          <5> QED
            BY <1>2, <5>1
        <4> QED
          BY <2>3, <2>4, <4>1
      <3> QED
        BY <3>1, <3>2
    <2>11. \A s \in ToSet(list) : s.group = g =>
              \E j \in 1..Len(block) : block[j] = ServerRow(s, live)
      <3> SUFFICES ASSUME NEW s \in ToSet(list), s.group = g
                   PROVE  \E j \in 1..Len(block) : block[j] = ServerRow(s, live)
        OBVIOUS
      <3>1. PICK j \in 1..Len(lines) : lines[j] = ServerRow(s, live)
        BY <1>2
      <3> QED
        BY <2>7, <3>1
    <2>12. Len(block) >= 1 /\ block[1][1] = "header"
      BY <1>5, <2>3, <2>4, <2>5
    <2>13. \A j \in 1..Len(block) :
              \/ /\ j = 1 /\ Named(g) /\ block[j][1] = "header" /\ block[j][2] = g
                 /\ \A s \in ToSet(list) : s.group = g /\ s.id \in live => block[j][3]
              \/ g \notin folded /\ \E s \in ToSet(list) : s.group = g /\ block[j] = ServerRow(s, live)
      BY <1>3, <1>5, <1>8, <2>5, <2>9
    <2>14. Shows(block, g, list, live, folded)
      BY <2>10, <2>11, <2>12, <2>13 DEF Shows
    <2> QED
      BY <2>3, <2>14 DEF block
  <1> QED
    BY <1>6, <1>7, <1>8
\* The group whose servers the i-th part of the list shows.
GroupOf(i) == IF i = 2 THEN "" ELSE GroupOrder[i - 2]
Groups == Len(GroupOrder)

\* The groups are numbered, and have different names, none of them empty.
LEMMA GroupsNumber ==
    /\ Groups \in Nat /\ DOMAIN GroupOrder = 1..Groups
    /\ \A n \in 1..Groups : Named(GroupOrder[n])
    /\ \A m, n \in 1..Groups : GroupOrder[m] = GroupOrder[n] => m = n
  <1> DEFINE Names == STRING \ {""}
  <1>1. GroupOrder \in Seq(Names) /\ IsInjective(GroupOrder)
    BY SidebarAssumption
  <1>2. \A g \in Names : Named(g)
    BY DEF Named
  <1> HIDE DEF Names
  <1>3. Groups \in Nat /\ DOMAIN GroupOrder = 1..Groups /\ \A n \in 1..Groups : GroupOrder[n] \in Names
    BY <1>1 DEF Groups
  <1> QED
    BY <1>1, <1>2, <1>3 DEF IsInjective

LEMMA GroupsPlace ==
    /\ \A i \in 3..(Groups + 2) :
          /\ i - 2 \in 1..Groups /\ i \in 1..(Groups + 2) /\ i # 2
          /\ i \in 1..(2 + Groups) /\ ~ i <= 2
    /\ \A n \in 1..Groups : n + 2 \in 3..(Groups + 2) /\ n + 2 \in 2..(Groups + 2)
                            /\ (n + 2) - 2 = n
    /\ \A i \in 2..(Groups + 2) : i = 2 \/ i \in 3..(Groups + 2)
    /\ 2 \in 2..(Groups + 2) /\ 1 \in 1..(2 + Groups) /\ 2 \in 1..(2 + Groups)
    /\ Groups + 2 = 2 + Groups /\ Groups + 2 \in Nat
    /\ \A i, k \in 3..(Groups + 2) : i - 2 = k - 2 => i = k
  BY GroupsNumber

LEMMA GroupsNamed ==
    /\ ~ Named("") /\ GroupOf(2) = "" /\ "" \notin ToSet(GroupOrder)
    /\ \A i \in 3..(Groups + 2) : Named(GroupOf(i)) /\ GroupOf(i) = GroupOrder[i - 2]
  <1>1. ~ Named("") /\ GroupOf(2) = ""
    BY DEF Named, GroupOf
  <1>2. "" \notin ToSet(GroupOrder)
    BY <1>1, GroupsNumber DEF ToSet
  <1>3. ASSUME NEW i \in 3..(Groups + 2)
        PROVE  Named(GroupOf(i)) /\ GroupOf(i) = GroupOrder[i - 2]
    <2>1. i # 2 /\ i - 2 \in 1..Groups
      BY GroupsPlace
    <2> QED
      BY <2>1, GroupsNumber DEF GroupOf
  <1> QED
    BY <1>1, <1>2, <1>3

LEMMA GroupsDiffer ==
    \A i, k \in 2..(Groups + 2) : GroupOf(i) = GroupOf(k) => i = k
  <1> SUFFICES ASSUME NEW i \in 2..(Groups + 2), NEW k \in 2..(Groups + 2),
                      GroupOf(i) = GroupOf(k)
               PROVE  i = k
    OBVIOUS
  <1>1. CASE i = 2 \/ k = 2
    <2>1. ~ Named(GroupOf(2)) /\ \A m \in 2..(Groups + 2) : m = 2 \/ Named(GroupOf(m))
      BY GroupsNamed, GroupsPlace
    <2> QED
      BY <1>1, <2>1
  <1>2. CASE i # 2 /\ k # 2
    <2>1. i \in 3..(Groups + 2) /\ k \in 3..(Groups + 2)
      BY <1>2, GroupsPlace
    <2>2. i - 2 \in 1..Groups /\ k - 2 \in 1..Groups /\ GroupOrder[i - 2] = GroupOrder[k - 2]
      BY <2>1, GroupsNamed, GroupsPlace
    <2>3. i - 2 = k - 2
      BY <2>2, GroupsNumber
    <2> QED
      BY <2>1, <2>3, GroupsPlace
  <1> QED
    BY <1>1, <1>2

LEMMA GroupsAll ==
    \A g : g = "" \/ g \in ToSet(GroupOrder) => \E i \in 2..(Groups + 2) : g = GroupOf(i)
  <1>1. ASSUME NEW g \in ToSet(GroupOrder)
        PROVE  \E i \in 2..(Groups + 2) : g = GroupOf(i)
    <2>1. PICK n \in 1..Groups : g = GroupOrder[n]
      BY GroupsNumber DEF ToSet
    <2>2. n + 2 \in 3..(Groups + 2) /\ n + 2 \in 2..(Groups + 2) /\ (n + 2) - 2 = n
      BY GroupsPlace
    <2>3. GroupOf(n + 2) = GroupOrder[n]
      BY <2>2, GroupsNamed
    <2> QED
      BY <2>1, <2>2, <2>3
  <1>2. "" = GroupOf(2) /\ 2 \in 2..(Groups + 2)
    BY GroupsNamed, GroupsPlace
  <1> QED
    BY <1>1, <1>2

LEMMA PairIs ==
    ASSUME NEW T, NEW a \in T, NEW b \in T
    PROVE  <<a, b>> \in Seq(T) /\ Len(<<a, b>>) = 2 /\ <<a, b>>[1] = a /\ <<a, b>>[2] = b
  OBVIOUS

\* The parts of the list.
PartsAre(parts, list, used, live, folded, byUse) ==
    /\ parts \in [1..(Groups + 2) -> Seq(RowShape)]
    /\ parts[1] = << <<"connect", "", FALSE>> >>
    /\ parts[2] = Lines(SortServers(Members(list, ""), used, byUse), live)
    /\ \A i \in 3..(Groups + 2) : parts[i] = Block(GroupOf(i), list, used, live, folded, byUse)

\* The list is the connect action and, for each group, what shows it.
LEMMA PartsShow ==
    ASSUME NEW list, NEW used, Loaded(list, used), NEW live,
           NEW folded, folded \subseteq ToSet(GroupOrder), NEW byUse \in BOOLEAN
    PROVE  LET parts == Parts(list, used, live, folded, byUse)
           IN  /\ PartsAre(parts, list, used, live, folded, byUse)
               /\ \A i \in 2..(Groups + 2) : Shows(parts[i], GroupOf(i), list, live, folded)
  <1> DEFINE plain == Lines(SortServers(Members(list, ""), used, byUse), live)
             connect == << <<"connect", "", FALSE>> >>
             two == <<connect, plain>>
             block(n) == Block(GroupOrder[n], list, used, live, folded, byUse)
             blocks == [n \in DOMAIN GroupOrder |-> block(n)]
             parts == two \o blocks
  <1>1. connect \in Seq(RowShape)
    <2> DEFINE c == <<"connect", "", FALSE>>
    <2>1. c \in RowShape
      BY DEF RowShape
    <2> HIDE DEF c
    <2>2. <<c>> \in Seq(RowShape)
      BY <2>1
    <2> QED
      BY <2>2 DEF c
  <1>2. plain \in Seq(RowShape) /\ OneEach(plain, "", list, live)
    BY LinesShow
  <1> HIDE DEF connect, plain
  <1>3. Shows(plain, "", list, live, folded)
    <2>1. "" \notin folded /\ ~ Named("")
      BY GroupsNamed
    <2> QED
      BY <1>2, <2>1 DEF Shows, OneEach
  <1>4. \A i \in 3..(Groups + 2) : i - 2 \in 1..Groups /\ block(i - 2) \in Seq(RowShape)
                                 /\ Shows(block(i - 2), GroupOf(i), list, live, folded)
    <2> TAKE i \in 3..(Groups + 2)
    <2>1. Named(GroupOf(i)) /\ GroupOf(i) = GroupOrder[i - 2]
      BY GroupsNamed
    <2>2. i - 2 \in 1..Groups
      BY GroupsPlace
    <2> QED
      BY <2>1, <2>2, BlockShows
  <1>5. \A n \in 1..Groups : block(n) \in Seq(RowShape)
    <2> TAKE n \in 1..Groups
    <2>1. n + 2 \in 3..(Groups + 2) /\ (n + 2) - 2 = n
      BY GroupsPlace
    <2> QED
      BY <1>4, <2>1
  <1> HIDE DEF block
  <1>6. two \in Seq(Seq(RowShape)) /\ Len(two) = 2 /\ two[1] = connect /\ two[2] = plain
    BY <1>1, <1>2, PairIs
  <1>7. /\ blocks \in Seq(Seq(RowShape)) /\ Len(blocks) = Groups
        /\ \A n \in 1..Groups : blocks[n] = block(n)
    BY <1>5, GroupsNumber
  <1> HIDE DEF two, blocks
  <1>8. /\ parts \in Seq(Seq(RowShape)) /\ Len(parts) = 2 + Groups
        /\ \A i \in 1..(2 + Groups) : parts[i] = IF i <= 2 THEN two[i] ELSE blocks[i - 2]
    <2> DEFINE T == Seq(RowShape)
    <2>1. two \in Seq(T) /\ blocks \in Seq(T)
      BY <1>6, <1>7
    <2> HIDE DEF T
    <2>2. /\ parts \in Seq(T) /\ Len(parts) = Len(two) + Len(blocks)
          /\ \A i \in 1..(Len(two) + Len(blocks)) :
                parts[i] = IF i <= Len(two) THEN two[i] ELSE blocks[i - Len(two)]
      BY <2>1, ConcatProperties
    <2> QED
      BY <1>6, <1>7, <2>2 DEF T
  <1> HIDE DEF parts
  <1>9. 2 + Groups = Groups + 2 /\ Groups \in Nat
    BY GroupsNumber
  <1>10. parts \in [1..(Groups + 2) -> Seq(RowShape)]
    BY <1>8, <1>9
  <1>11. parts[1] = connect /\ parts[2] = plain
    BY <1>6, <1>8, <1>9
  <1>12. \A i \in 3..(Groups + 2) : parts[i] = block(i - 2)
    <2> TAKE i \in 3..(Groups + 2)
    <2>1. i \in 1..(2 + Groups) /\ ~ i <= 2 /\ i - 2 \in 1..Groups
      BY GroupsPlace
    <2> QED
      BY <1>7, <1>8, <2>1
  <1>13. ASSUME NEW i \in 2..(Groups + 2)
         PROVE  Shows(parts[i], GroupOf(i), list, live, folded)
    <2>1. CASE i = 2
      BY <1>3, <1>11, <2>1 DEF GroupOf
    <2>2. CASE i \in 3..(Groups + 2)
      BY <1>4, <1>12, <2>2
    <2> QED
      BY <1>9, <2>1, <2>2
  <1>14. parts = Parts(list, used, live, folded, byUse)
    BY DEF parts, two, blocks, connect, plain, block, Parts
  <1>15. \A i \in 3..(Groups + 2) :
            parts[i] = Block(GroupOf(i), list, used, live, folded, byUse)
    BY <1>12, GroupsNamed DEF block
  <1>16. PartsAre(parts, list, used, live, folded, byUse)
    BY <1>10, <1>11, <1>15 DEF PartsAre, connect, plain
  <1> QED
    BY <1>13, <1>14, <1>16


\* The rows are what the lists and the folds make them, and the cursor is on one.
SidebarOK ==
    /\ servers \in Lists \cup {<< >>} /\ recent \in Seq(STRING) /\ IsInjective(recent)
    /\ collapsed \subseteq ToSet(GroupOrder) /\ sortRecent \in BOOLEAN
    /\ rows = ItemsFor(servers, recent, open, collapsed, sortRecent)
    /\ cursor \in 1..Len(rows)

LEMMA ListsLoaded ==
    ASSUME NEW list \in Lists \cup {<< >>}, NEW used \in Seq(STRING), IsInjective(used)
    PROVE  Loaded(list, used)
  <1>1. << >> \in Seq(Server) /\ Unique(<< >>)
    BY DEF Unique
  <1>2. \A l \in Lists : l \in Seq(Server) /\ Unique(l)
    BY SidebarAssumption DEF Server
  <1> QED
    BY <1>1, <1>2 DEF Loaded

\* Every row but the first is in the part of the list that shows its group.
RowsAre(list, used, live, folded, byUse, at) ==
    LET parts == Parts(list, used, live, folded, byUse)
        items == ItemsFor(list, used, live, folded, byUse)
        last == Groups + 2
    IN  /\ Offsets(parts, last, at)
        /\ items \in Seq(RowShape) /\ Len(items) = at[last + 1] /\ Len(items) >= 1
        /\ items[1] = <<"connect", "", FALSE>>
        /\ \A i \in 2..last : \A j \in 1..Len(parts[i]) :
              at[i] + j \in 1..Len(items) /\ items[at[i] + j] = parts[i][j]
        /\ \A r \in 1..Len(items) : r = 1 \/
              \E i \in 2..last : \E j \in 1..Len(parts[i]) : r = at[i] + j

LEMMA ItemsHaveRows ==
    ASSUME NEW list, NEW used, Loaded(list, used), NEW live,
           NEW folded, folded \subseteq ToSet(GroupOrder), NEW byUse \in BOOLEAN
    PROVE  \E at : RowsAre(list, used, live, folded, byUse, at)
  <1> DEFINE parts == Parts(list, used, live, folded, byUse)
             items == ItemsFor(list, used, live, folded, byUse)
             last == Groups + 2
             connect == <<"connect", "", FALSE>>
  <1>1. parts \in [1..last -> Seq(RowShape)] /\ parts[1] = <<connect>>
    <2>1. PartsAre(parts, list, used, live, folded, byUse)
      BY PartsShow
    <2> QED
      BY <2>1 DEF PartsAre
  <1>2. last \in Nat /\ 1 \in 1..last /\ \A i \in 1..last : i = 1 \/ i \in 2..last
    BY GroupsNumber
  <1>3. \A i \in 2..last : i \in 1..last
    BY <1>2
  <1>4. items = FlattenSeq(parts)
    BY DEF ItemsFor
  <1>5. Len(parts[1]) = 1 /\ parts[1][1] = connect
    <2> HIDE DEF connect, parts
    <2> QED
      BY <1>1
  <1> HIDE DEF parts, items, last, connect
  <1>6. items \in Seq(RowShape) /\ \E at : Placed(parts, last, at)
    BY <1>1, <1>2, <1>4, FlattenPlaces
  <1>7. PICK at : Placed(parts, last, at)
    BY <1>6
  <1>8. /\ Offsets(parts, last, at) /\ Len(items) = at[last + 1]
        /\ \A i \in 1..last : \A j \in 1..Len(parts[i]) :
              at[i] + j \in 1..Len(items) /\ items[at[i] + j] = parts[i][j]
        /\ \A r \in 1..Len(items) :
              \E i \in 1..last : \E j \in 1..Len(parts[i]) : r = at[i] + j
    BY <1>4, <1>7 DEF Placed
  <1>9. at[1] = 0
    BY <1>8 DEF Offsets
  <1>10. 1 \in 1..Len(items) /\ items[1] = connect
    <2>1. 1 \in 1..Len(parts[1]) /\ at[1] + 1 = 1
      BY <1>5, <1>9
    <2> QED
      BY <1>2, <1>5, <1>8, <2>1
  <1>11. Len(items) >= 1
    BY <1>6, <1>10
  <1>12. ASSUME NEW r \in 1..Len(items)
         PROVE  r = 1 \/ \E i \in 2..last : \E j \in 1..Len(parts[i]) : r = at[i] + j
    <2>1. PICK i \in 1..last : \E j \in 1..Len(parts[i]) : r = at[i] + j
      BY <1>8
    <2>2. CASE i = 1
      <3>1. PICK j \in 1..1 : r = 0 + j
        BY <1>5, <1>9, <2>1, <2>2
      <3> QED
        BY <3>1
    <2>3. CASE i \in 2..last
      BY <2>1, <2>3
    <2> QED
      BY <1>2, <2>2, <2>3
  <1>13. \A i \in 2..last : \A j \in 1..Len(parts[i]) :
              at[i] + j \in 1..Len(items) /\ items[at[i] + j] = parts[i][j]
    BY <1>3, <1>8
  <1>14. RowsAre(list, used, live, folded, byUse, at)
    BY <1>6, <1>8, <1>10, <1>11, <1>12, <1>13 DEF RowsAre, parts, items, last, connect
  <1> QED
    BY <1>14

\* What a row of a server or of a group says about where it is.
ServerAt(r, i, j, s, at, parts) ==
    /\ r = at[i] + j /\ rows[r] = parts[i][j] /\ rows[r] = ServerRow(s, open)
    /\ s.group = GroupOf(i) /\ GroupOf(i) \notin collapsed
HeaderAt(r, i, at, parts) ==
    /\ r = at[i] + 1 /\ 1 \in 1..Len(parts[i]) /\ Named(GroupOf(i)) /\ rows[r][2] = GroupOf(i)
    /\ \A s \in ToSet(servers) : s.group = GroupOf(i) /\ s.id \in open => rows[r][3]

LEMMA ConnectIs ==
    ASSUME NEW row, row = <<"connect", "", FALSE>>
    PROVE  row[1] = "connect"
  OBVIOUS

LEMMA RowsFound ==
    ASSUME SidebarOK
    PROVE  \E at : LET parts == Parts(servers, recent, open, collapsed, sortRecent)
                       last == Groups + 2
                   IN  /\ RowsAre(servers, recent, open, collapsed, sortRecent, at)
                       /\ \A i \in 2..last : Shows(parts[i], GroupOf(i), servers, open, collapsed)
                       /\ \A r \in 1..Len(rows) : rows[r][1] = "server" =>
                             \E i \in 2..last : \E j \in 1..Len(parts[i]) :
                                \E s \in ToSet(servers) : ServerAt(r, i, j, s, at, parts)
                       /\ \A r \in 1..Len(rows) : rows[r][1] = "header" =>
                             \E i \in 2..last : HeaderAt(r, i, at, parts)
  <1> DEFINE parts == Parts(servers, recent, open, collapsed, sortRecent)
             last == Groups + 2
  <1>1. Loaded(servers, recent) /\ collapsed \subseteq ToSet(GroupOrder) /\ sortRecent \in BOOLEAN
    BY ListsLoaded DEF SidebarOK
  <1>2. PICK at : RowsAre(servers, recent, open, collapsed, sortRecent, at)
    BY <1>1, ItemsHaveRows
  <1>3. \A i \in 2..last : Shows(parts[i], GroupOf(i), servers, open, collapsed)
    BY <1>1, PartsShow
  <1>4. /\ rows[1] = <<"connect", "", FALSE>>
        /\ \A i \in 2..last : \A j \in 1..Len(parts[i]) :
              at[i] + j \in 1..Len(rows) /\ rows[at[i] + j] = parts[i][j]
        /\ \A r \in 1..Len(rows) : r = 1 \/
              \E i \in 2..last : \E j \in 1..Len(parts[i]) : r = at[i] + j
    BY <1>2 DEF RowsAre, SidebarOK
  <1> HIDE DEF parts, last
  <1>5. rows[1][1] = "connect"
    BY <1>4, ConnectIs
  <1>6. ASSUME NEW r \in 1..Len(rows), r # 1
        PROVE  \E i \in 2..last : \E j \in 1..Len(parts[i]) :
                  /\ r = at[i] + j /\ rows[r] = parts[i][j]
                  /\ \/ j = 1 /\ rows[r][1] = "header" /\ HeaderAt(r, i, at, parts)
                     \/ \E s \in ToSet(servers) : ServerAt(r, i, j, s, at, parts)
    <2>1. PICK i \in 2..last : \E j \in 1..Len(parts[i]) : r = at[i] + j
      BY <1>4, <1>6
    <2>2. PICK j \in 1..Len(parts[i]) : r = at[i] + j
      BY <2>1
    <2>3. rows[r] = parts[i][j]
      BY <1>4, <2>2
    <2>4. \/ /\ j = 1 /\ Named(GroupOf(i)) /\ parts[i][j][1] = "header" /\ parts[i][j][2] = GroupOf(i)
             /\ \A s \in ToSet(servers) : s.group = GroupOf(i) /\ s.id \in open => parts[i][j][3]
          \/ GroupOf(i) \notin collapsed
             /\ \E s \in ToSet(servers) : s.group = GroupOf(i) /\ parts[i][j] = ServerRow(s, open)
      BY <1>3 DEF Shows
    <2>5. CASE j = 1 /\ parts[i][j][1] = "header" /\ HeaderAt(r, i, at, parts)
      BY <2>2, <2>3, <2>5
    <2>6. CASE \E s \in ToSet(servers) : ServerAt(r, i, j, s, at, parts)
      BY <2>2, <2>3, <2>6
    <2> QED
      BY <2>2, <2>3, <2>4, <2>5, <2>6 DEF ServerAt, HeaderAt
  <1>7. \A s \in ToSet(servers) : ServerRow(s, open)[1] = "server"
    BY <1>1, LoadedHas, ServerRowHas
  <1>8. ASSUME NEW r \in 1..Len(rows), rows[r][1] = "server"
        PROVE  \E i \in 2..last : \E j \in 1..Len(parts[i]) :
                  \E s \in ToSet(servers) : ServerAt(r, i, j, s, at, parts)
    <2>1. r # 1
      BY <1>5, <1>8
    <2> QED
      BY <1>6, <1>8, <2>1
  <1>9. ASSUME NEW r \in 1..Len(rows), rows[r][1] = "header"
        PROVE  \E i \in 2..last : HeaderAt(r, i, at, parts)
    <2>1. r # 1
      BY <1>5, <1>9
    <2>2. \A i, j : \A s \in ToSet(servers) : ~ ServerAt(r, i, j, s, at, parts)
      BY <1>7, <1>9 DEF ServerAt
    <2> QED
      BY <1>6, <2>1, <2>2
  <1> QED
    BY <1>2, <1>3, <1>8, <1>9 DEF parts, last

LEMMA OneHasOne ==
    ASSUME NEW S, NEW x \in S, \A y \in S : y = x
    PROVE  Cardinality(S) = 1
  <1>1. S = {x}
    OBVIOUS
  <1> QED
    BY <1>1, FS_Singleton

LEMMA NoneHasNone ==
    ASSUME NEW S, \A y \in S : FALSE
    PROVE  Cardinality(S) = 0
  <1>1. S = {}
    OBVIOUS
  <1> QED
    BY <1>1, FS_EmptySet

\* The last header up to a row is the one the row stands under.
LEMMA StandsUnder ==
    ASSUME NEW r \in Nat, NEW h \in 1..r, rows[h][1] = "header",
           \A o \in 1..r : rows[o][1] = "header" => o <= h
    PROVE  GroupAt(r) = rows[h][2]
  <1> DEFINE headers == {o \in 1..r : rows[o][1] = "header"}
  <1>1. h \in headers /\ \A o \in headers : o <= h
    OBVIOUS
  <1>2. \A o \in headers : o \in 1..r
    OBVIOUS
  <1> HIDE DEF headers
  <1>3. \A x \in headers : (\A o \in headers : o <= x) => x = h
    BY <1>1, <1>2
  <1>4. (CHOOSE x \in headers : \A o \in headers : o <= x) = h
    BY <1>1, <1>3
  <1>5. headers # {}
    BY <1>1
  <1> QED
    BY <1>4, <1>5 DEF GroupAt, headers

LEMMA StandsAlone ==
    ASSUME NEW r \in Nat, \A o \in 1..r : rows[o][1] # "header"
    PROVE  GroupAt(r) = ""
  <1>1. {o \in 1..r : rows[o][1] = "header"} = {}
    OBVIOUS
  <1> QED
    BY <1>1 DEF GroupAt

LEMMA RowsWhole ==
    ASSUME SidebarOK
    PROVE  ListIsWhole
  <1> DEFINE parts == Parts(servers, recent, open, collapsed, sortRecent)
             last == Groups + 2
  <1>1. Loaded(servers, recent) /\ collapsed \subseteq ToSet(GroupOrder) /\ sortRecent \in BOOLEAN
    BY ListsLoaded DEF SidebarOK
  <1>2. PICK at :
          /\ RowsAre(servers, recent, open, collapsed, sortRecent, at)
          /\ \A i \in 2..last : Shows(parts[i], GroupOf(i), servers, open, collapsed)
          /\ \A r \in 1..Len(rows) : rows[r][1] = "server" =>
                \E i \in 2..last : \E j \in 1..Len(parts[i]) :
                   \E s \in ToSet(servers) : ServerAt(r, i, j, s, at, parts)
          /\ \A r \in 1..Len(rows) : rows[r][1] = "header" =>
                \E i \in 2..last : HeaderAt(r, i, at, parts)
    BY RowsFound
  <1>3. /\ rows \in Seq(RowShape) /\ rows[1] = <<"connect", "", FALSE>>
        /\ Offsets(parts, last, at) /\ Len(rows) = at[last + 1]
        /\ \A i \in 2..last : \A j \in 1..Len(parts[i]) :
              at[i] + j \in 1..Len(rows) /\ rows[at[i] + j] = parts[i][j]
    BY <1>2 DEF RowsAre, SidebarOK
  <1>4. /\ last \in Nat /\ \A i \in 2..last : i \in 1..(last + 1) /\ i + 1 \in 1..(last + 1)
                                            /\ i \in Nat /\ i \in 1..last /\ 2 <= i
        /\ \A i, k \in 2..last : GroupOf(i) = GroupOf(k) => i = k
        /\ \A g : g = "" \/ g \in ToSet(GroupOrder) => \E i \in 2..last : g = GroupOf(i)
    <2>1. /\ last \in Nat
          /\ \A i \in 2..last : i \in 1..(last + 1) /\ i + 1 \in 1..(last + 1)
                             /\ i \in Nat /\ i \in 1..last /\ 2 <= i
      BY GroupsNumber
    <2> QED
      BY <2>1, GroupsDiffer, GroupsAll
  <1>5. DOMAIN rows = 1..Len(rows) /\ DOMAIN servers = 1..Len(servers)
    <2>1. DOMAIN rows = 1..Len(rows)
      <3>1. rows \in Seq(RowShape)
        BY <1>3
      <3> QED
        BY <3>1
    <2>2. DOMAIN servers = 1..Len(servers)
      BY <1>1 DEF Loaded
    <2> QED
      BY <2>1, <2>2
  <1>6. \A s, t \in ToSet(servers) : s.id = t.id => s = t
    BY <1>1, <1>5 DEF Loaded, Unique, ToSet
  <1>7. \A s \in ToSet(servers) :
          /\ s.group = "" \/ s.group \in ToSet(GroupOrder)
          /\ ServerRow(s, open)[1] = "server" /\ ServerRow(s, open)[2] = s.id
          /\ ServerRow(s, open)[3] = (s.id \in open)
    BY <1>1, LoadedHas, ServerRowHas
  <1> HIDE DEF parts, last
  \* A server's row is in the part of its group, so there is at most one.
  <1>8. ASSUME NEW s \in ToSet(servers), NEW r \in RowsOf("server", s.id)
        PROVE  \E i \in 2..last : \E j \in 1..Len(parts[i]) : ServerAt(r, i, j, s, at, parts)
    <2>1. r \in 1..Len(rows) /\ rows[r][1] = "server" /\ rows[r][2] = s.id
      BY <1>5 DEF RowsOf
    <2>2. PICK i \in 2..last : \E j \in 1..Len(parts[i]) :
             \E t \in ToSet(servers) : ServerAt(r, i, j, t, at, parts)
      BY <1>2, <2>1
    <2>3. PICK j \in 1..Len(parts[i]) : \E t \in ToSet(servers) : ServerAt(r, i, j, t, at, parts)
      BY <2>2
    <2>4. PICK t \in ToSet(servers) : ServerAt(r, i, j, t, at, parts)
      BY <2>3
    <2>5. t.id = s.id
      BY <1>7, <2>1, <2>4 DEF ServerAt
    <2> QED
      BY <1>6, <2>4, <2>5
  <1>9. ASSUME NEW s \in ToSet(servers), NEW r \in RowsOf("server", s.id),
               NEW q \in RowsOf("server", s.id)
        PROVE  r = q
    <2>1. PICK i \in 2..last : \E j \in 1..Len(parts[i]) : ServerAt(r, i, j, s, at, parts)
      BY <1>8
    <2>2. PICK k \in 2..last : \E j \in 1..Len(parts[k]) : ServerAt(q, k, j, s, at, parts)
      BY <1>8
    <2>3. i = k
      BY <1>4, <2>1, <2>2 DEF ServerAt
    <2>4. PICK j \in 1..Len(parts[i]) : ServerAt(r, i, j, s, at, parts)
      BY <2>1
    <2>5. PICK m \in 1..Len(parts[i]) : ServerAt(q, i, m, s, at, parts)
      BY <2>2, <2>3
    <2>6. parts[i][j] = parts[i][m]
      BY <2>4, <2>5 DEF ServerAt
    <2>7. j = m
      BY <1>2, <2>6 DEF Shows
    <2> QED
      BY <2>4, <2>5, <2>7 DEF ServerAt
  <1>10. ASSUME NEW s \in ToSet(servers), s.group \notin collapsed
         PROVE  \E r : r \in RowsOf("server", s.id)
    <2>1. PICK i \in 2..last : s.group = GroupOf(i)
      BY <1>4, <1>7
    <2>2. PICK j \in 1..Len(parts[i]) : parts[i][j] = ServerRow(s, open)
      BY <1>2, <1>10, <2>1 DEF Shows
    <2>3. at[i] + j \in 1..Len(rows) /\ rows[at[i] + j] = ServerRow(s, open)
      BY <1>3, <2>2
    <2> QED
      BY <1>5, <1>7, <2>3 DEF RowsOf
  <1>11. ASSUME NEW s \in ToSet(servers)
         PROVE  Cardinality(RowsOf("server", s.id)) = IF s.group \in collapsed THEN 0 ELSE 1
    <2>1. CASE s.group \in collapsed
      <3>1. \A r \in RowsOf("server", s.id) : FALSE
        BY <1>8, <2>1 DEF ServerAt
      <3> QED
        BY <2>1, <3>1, NoneHasNone
    <2>2. CASE s.group \notin collapsed
      <3>1. PICK r : r \in RowsOf("server", s.id)
        BY <1>10, <2>2
      <3>2. Cardinality(RowsOf("server", s.id)) = 1
        BY <1>9, <3>1, OneHasOne
      <3> QED
        BY <2>2, <3>2
    <2> QED
      BY <2>1, <2>2
  \* A group that has a server has one header, the first row of its part.
  <1>12. ASSUME NEW i \in 2..last, Named(GroupOf(i)),
                NEW s \in ToSet(servers), s.group = GroupOf(i)
         PROVE  /\ at[i] + 1 \in RowsOf("header", GroupOf(i))
                /\ \A h \in RowsOf("header", GroupOf(i)) : h = at[i] + 1
                /\ \A h \in RowsOf("header", GroupOf(i)) : s.id \in open => rows[h][3]
    <2>1. \A h \in RowsOf("header", GroupOf(i)) : HeaderAt(h, i, at, parts)
      <3> TAKE h \in RowsOf("header", GroupOf(i))
      <3>1. h \in 1..Len(rows) /\ rows[h][1] = "header" /\ rows[h][2] = GroupOf(i)
        BY <1>5 DEF RowsOf
      <3>2. PICK k \in 2..last : HeaderAt(h, k, at, parts)
        BY <1>2, <3>1
      <3>3. k = i
        BY <1>4, <3>1, <3>2 DEF HeaderAt
      <3> QED
        BY <3>2, <3>3
    <2>2. Len(parts[i]) >= 1 /\ parts[i][1][1] = "header"
      BY <1>2, <1>12 DEF Shows
    <2>3. 1 \in 1..Len(parts[i])
      <3>1. parts[i] \in Seq(RowShape)
        <4>1. parts \in [1..last -> Seq(RowShape)] /\ i \in 1..last
          <5>1. PartsAre(parts, servers, recent, open, collapsed, sortRecent)
            BY <1>1, PartsShow DEF parts
          <5> QED
            BY <1>4, <5>1 DEF PartsAre, last
        <4> QED
          BY <4>1
      <3>2. Len(parts[i]) \in Nat
        BY <3>1
      <3> QED
        BY <2>2, <3>2
    <2>4. at[i] + 1 \in 1..Len(rows) /\ rows[at[i] + 1] = parts[i][1]
      BY <1>3, <2>3
    <2>5. parts[i][1][2] = GroupOf(i)
      <3>1. \A t \in ToSet(servers) : parts[i][1] # ServerRow(t, open)
        BY <1>7, <2>2
      <3> QED
        BY <1>2, <2>3, <3>1 DEF Shows
    <2> QED
      BY <1>5, <1>12, <2>1, <2>2, <2>4, <2>5 DEF RowsOf, HeaderAt
  \* A row of a named group comes after that group's header and before the next.
  <1>13. ASSUME NEW s \in ToSet(servers), NEW r \in RowsOf("server", s.id)
         PROVE  GroupAt(r) = s.group
    <2>1. PICK i \in 2..last : \E j \in 1..Len(parts[i]) : ServerAt(r, i, j, s, at, parts)
      BY <1>8
    <2>2. PICK j \in 1..Len(parts[i]) : ServerAt(r, i, j, s, at, parts)
      BY <2>1
    <2>3. r \in 1..Len(rows) /\ r = at[i] + j /\ s.group = GroupOf(i)
      BY <1>5, <2>2 DEF RowsOf, ServerAt
    <2>4. /\ at[i] \in Nat /\ at[i + 1] = at[i] + Len(parts[i]) /\ j \in Nat /\ 1 <= j
          /\ j <= Len(parts[i]) /\ r \in Nat /\ at[i + 1] \in Nat /\ Len(parts[i]) \in Nat
          /\ r <= at[i + 1]
      <3>1. parts[i] \in Seq(RowShape)
        <4>1. parts \in [1..last -> Seq(RowShape)] /\ i \in 1..last
          <5>1. PartsAre(parts, servers, recent, open, collapsed, sortRecent)
            BY <1>1, PartsShow DEF parts
          <5> QED
            BY <1>4, <5>1 DEF PartsAre, last
        <4> QED
          BY <4>1
      <3>2. Len(parts[i]) \in Nat
        BY <3>1
      <3>3. at[i] \in Nat /\ at[i + 1] = at[i] + Len(parts[i]) /\ at[i + 1] \in Nat
        BY <1>3, <1>4 DEF Offsets
      <3>4. r = at[i] + j
        BY <2>3
      <3> QED
        BY <3>2, <3>3, <3>4
    \* A header up to r is the header of a part up to i.
    <2>5. ASSUME NEW h \in 1..r, rows[h][1] = "header"
          PROVE  \E k \in 2..last : HeaderAt(h, k, at, parts) /\ at[k] <= at[i] /\ k <= i
      <3>1. h \in 1..Len(rows)
        BY <2>3
      <3>2. PICK k \in 2..last : HeaderAt(h, k, at, parts)
        BY <1>2, <2>5, <3>1
      <3>3. at[k] \in Nat /\ h = at[k] + 1 /\ h <= r
        <4>1. at[k] \in Nat
          BY <1>3, <1>4 DEF Offsets
        <4>2. h = at[k] + 1 /\ h \in 1..r
          BY <3>2 DEF HeaderAt
        <4> QED
          BY <2>4, <4>1, <4>2
      <3>4. ~ at[i + 1] <= at[k]
        <4>1. r <= at[i + 1] /\ at[i + 1] \in Nat /\ r \in Nat
          BY <2>4
        <4> QED
          BY <3>3, <4>1
      <3>5. ~ i + 1 <= k
        BY <1>3, <1>4, <3>4 DEF Offsets
      <3>6. k <= i
        <4>1. i \in Nat /\ k \in Nat
          BY <1>4
        <4> QED
          BY <3>5, <4>1
      <3>7. at[k] <= at[i]
        BY <1>3, <1>4, <3>6 DEF Offsets
      <3> QED
        BY <3>2, <3>6, <3>7
    <2>6. CASE Named(GroupOf(i))
      <3>1. at[i] + 1 \in RowsOf("header", GroupOf(i))
        BY <1>12, <2>3, <2>6
      <3>2. at[i] + 1 \in 1..r /\ rows[at[i] + 1][1] = "header" /\ rows[at[i] + 1][2] = GroupOf(i)
        <4>1. at[i] + 1 \in 1..r
          BY <2>3, <2>4
        <4> QED
          BY <3>1, <4>1 DEF RowsOf
      <3>3. ASSUME NEW o \in 1..r, rows[o][1] = "header"
            PROVE  o <= at[i] + 1
        <4>1. PICK k \in 2..last : HeaderAt(o, k, at, parts) /\ at[k] <= at[i] /\ k <= i
          BY <2>5, <3>3
        <4>2. at[k] \in Nat /\ o = at[k] + 1
          BY <1>3, <1>4, <4>1 DEF HeaderAt, Offsets
        <4> QED
          BY <2>4, <4>1, <4>2
      <3>4. GroupAt(r) = rows[at[i] + 1][2]
        BY <2>4, <3>2, <3>3, StandsUnder
      <3> QED
        BY <2>3, <3>2, <3>4
    <2>7. CASE ~ Named(GroupOf(i))
      <3>1. i = 2 /\ s.group = ""
        BY <2>3, <2>7, GroupsNamed, GroupsPlace DEF last
      <3>2. ASSUME NEW o \in 1..r, rows[o][1] = "header"
            PROVE  FALSE
        <4>1. PICK k \in 2..last : HeaderAt(o, k, at, parts) /\ k <= i
          BY <2>5, <3>2
        <4>2. k = i
          <5>1. k \in Nat /\ 2 <= k
            BY <1>4
          <5>2. i = 2 /\ k <= i
            BY <3>1, <4>1
          <5> QED
            BY <5>1, <5>2
        <4> QED
          BY <2>7, <4>1, <4>2 DEF HeaderAt
      <3>3. GroupAt(r) = ""
        BY <2>4, <3>2, StandsAlone
      <3> QED
        BY <3>1, <3>3
    <2> QED
      BY <2>6, <2>7
  <1>14. ASSUME NEW s \in ToSet(servers)
         PROVE  /\ s.group # "" => Cardinality(RowsOf("header", s.group)) = 1
                /\ \A h \in RowsOf("header", s.group) : s.id \in open => rows[h][3]
    <2>1. PICK i \in 2..last : s.group = GroupOf(i)
      BY <1>4, <1>7
    <2>2. CASE Named(GroupOf(i))
      <3>1. Cardinality(RowsOf("header", s.group)) = 1
        BY <1>12, <2>1, <2>2, OneHasOne
      <3> QED
        BY <1>12, <2>1, <2>2, <3>1
    <2>3. CASE ~ Named(GroupOf(i))
      <3>1. s.group = ""
        BY <2>1, <2>3, GroupsNamed, GroupsPlace DEF last
      <3>2. ASSUME NEW h \in RowsOf("header", s.group) PROVE FALSE
        <4>1. h \in 1..Len(rows) /\ rows[h][1] = "header" /\ rows[h][2] = GroupOf(i)
          BY <1>5, <2>1 DEF RowsOf
        <4>2. PICK k \in 2..last : HeaderAt(h, k, at, parts)
          BY <1>2, <4>1
        <4> QED
          BY <2>3, <4>1, <4>2 DEF HeaderAt
      <3> QED
        BY <3>1, <3>2
    <2> QED
      BY <2>2, <2>3
  <1>15. ASSUME NEW s \in ToSet(servers), NEW r \in RowsOf("server", s.id)
         PROVE  rows[r][3] = (s.id \in open)
    <2>1. rows[r] = ServerRow(s, open)
      BY <1>8 DEF ServerAt
    <2> QED
      BY <1>7, <2>1
  <1>16. ASSUME NEW r \in DOMAIN rows, rows[r][1] = "server"
         PROVE  rows[r][2] \in IdsOf(servers)
    <2>1. PICK s \in ToSet(servers) : rows[r] = ServerRow(s, open)
      BY <1>2, <1>5, <1>16 DEF ServerAt
    <2>2. rows[r][2] = s.id
      BY <1>7, <2>1
    <2> QED
      BY <2>2 DEF IdsOf, ToSet
  <1>17. cursor \in DOMAIN rows
    BY <1>5 DEF SidebarOK
  <1>18. \A i \in DOMAIN servers : servers[i] \in ToSet(servers)
    BY DEF ToSet
  <1> QED
    BY <1>3, <1>11, <1>13, <1>14, <1>15, <1>16, <1>17, <1>18 DEF ListIsWhole


LEMMA ItemsLong ==
    ASSUME NEW list, NEW used, Loaded(list, used), NEW live,
           NEW folded, folded \subseteq ToSet(GroupOrder), NEW byUse \in BOOLEAN
    PROVE  /\ Len(ItemsFor(list, used, live, folded, byUse)) \in Nat
           /\ Len(ItemsFor(list, used, live, folded, byUse)) >= 1
  <1> DEFINE items == ItemsFor(list, used, live, folded, byUse)
  <1>1. items \in Seq(RowShape) /\ Len(items) >= 1
    BY ItemsHaveRows DEF RowsAre
  <1> HIDE DEF items
  <1>2. Len(items) \in Nat
    BY <1>1
  <1> QED
    BY <1>1, <1>2 DEF items

\* A reload keeps them so, whatever it is given.
LEMMA ReloadOK ==
    ASSUME SidebarOK, NEW list \in Lists \cup {<< >>},
           NEW used \in Seq(STRING), IsInjective(used), NEW live,
           NEW folded, folded \subseteq ToSet(GroupOrder), NEW byUse \in BOOLEAN,
           Reload(list, used, live, folded, byUse)
    PROVE  SidebarOK'
  <1>1. Loaded(list, used)
    BY ListsLoaded
  <1>2. Len(rows') \in Nat /\ Len(rows') >= 1
    BY <1>1, ItemsLong DEF Reload
  <1>3. cursor \in Nat /\ cursor >= 1
    <2>1. Loaded(servers, recent) /\ collapsed \subseteq ToSet(GroupOrder) /\ sortRecent \in BOOLEAN
      BY ListsLoaded DEF SidebarOK
    <2>2. Len(rows) \in Nat /\ cursor \in 1..Len(rows)
      BY <2>1, ItemsLong DEF SidebarOK
    <2> QED
      BY <2>2
  <1>4. cursor' \in 1..Len(rows')
    BY <1>2, <1>3 DEF Reload
  <1> QED
    BY <1>4 DEF Reload, SidebarOK

\* What is left of the ids last used is again without repetition.
LEMMA OnlyInjective ==
    ASSUME NEW used \in Seq(STRING), IsInjective(used), NEW set
    PROVE  /\ Only(used, set) \in Seq(STRING) /\ IsInjective(Only(used, set))
           /\ ToSet(Only(used, set)) \subseteq set
  <1> DEFINE out == Only(used, set)
  <1>1. out \in Seq(STRING) /\ Picked(out, used, set)
    BY OnlyPicks
  <1> HIDE DEF out
  <1>2. PICK w \in [1..Len(out) -> 1..Len(used)] :
            /\ \A p, q \in 1..Len(out) : w[p] = w[q] => p = q
            /\ \A p \in 1..Len(out) : out[p] = used[w[p]] /\ out[p] \in set
    BY <1>1 DEF Picked
  <1>3. DOMAIN out = 1..Len(out) /\ DOMAIN used = 1..Len(used)
    BY <1>1
  <1>4. IsInjective(out)
    BY <1>2, <1>3 DEF IsInjective
  <1>5. ToSet(out) \subseteq set
    BY <1>2, <1>3 DEF ToSet
  <1> QED
    BY <1>1, <1>4, <1>5 DEF out

LEMMA FrontInjective ==
    ASSUME NEW T, NEW used \in Seq(T), IsInjective(used), NEW id \in T, id \notin ToSet(used)
    PROVE  <<id>> \o used \in Seq(T) /\ IsInjective(<<id>> \o used)
  <1> DEFINE out == <<id>> \o used
  <1>1. <<id>> \in Seq(T) /\ Len(<<id>>) = 1 /\ <<id>>[1] = id
    OBVIOUS
  <1>2. /\ out \in Seq(T) /\ Len(out) = 1 + Len(used)
        /\ \A p \in 1..(1 + Len(used)) : out[p] = IF p <= 1 THEN <<id>>[p] ELSE used[p - 1]
    BY <1>1, ConcatProperties
  <1> HIDE DEF out
  <1>3. DOMAIN out = 1..Len(out) /\ DOMAIN used = 1..Len(used) /\ Len(used) \in Nat
    BY <1>2
  <1>4. out[1] = id
    <2>1. 1 \in 1..(1 + Len(used)) /\ 1 <= 1
      BY <1>3
    <2>2. out[1] = <<id>>[1]
      BY <1>2, <2>1
    <2> QED
      BY <1>1, <2>2
  <1>5. ASSUME NEW p \in 1..Len(out), p # 1
        PROVE  p - 1 \in 1..Len(used) /\ out[p] = used[p - 1] /\ out[p] # id
    <2>1. p - 1 \in 1..Len(used) /\ ~ p <= 1
      BY <1>2, <1>3, <1>5
    <2>2. out[p] = used[p - 1]
      BY <1>2, <2>1
    <2>3. used[p - 1] \in ToSet(used)
      BY <1>3, <2>1 DEF ToSet
    <2> QED
      BY <2>1, <2>2, <2>3
  <1>6. ASSUME NEW p \in 1..Len(out), NEW q \in 1..Len(out), out[p] = out[q]
        PROVE  p = q
    <2>1. CASE p = 1 \/ q = 1
      BY <1>4, <1>5, <1>6, <2>1
    <2>2. CASE p # 1 /\ q # 1
      <3>1. p - 1 = q - 1
        BY <1>3, <1>5, <1>6, <2>2 DEF IsInjective
      <3> QED
        BY <1>2, <1>3, <3>1
    <2> QED
      BY <2>1, <2>2
  <1>7. IsInjective(out)
    BY <1>3, <1>6 DEF IsInjective
  <1> QED
    BY <1>2, <1>7 DEF out

LEMMA HeaderIsOfGroup ==
    ASSUME SidebarOK, rows[cursor][1] = "header"
    PROVE  rows[cursor][2] \in ToSet(GroupOrder)
  <1>1. PICK at : \A r \in 1..Len(rows) : rows[r][1] = "header" =>
                    \E i \in 2..(Groups + 2) : HeaderAt(r, i, at, Parts(servers, recent, open, collapsed, sortRecent))
    BY RowsFound
  <1>2. PICK i \in 2..(Groups + 2) : HeaderAt(cursor, i, at, Parts(servers, recent, open, collapsed, sortRecent))
    BY <1>1 DEF SidebarOK
  <1>3. i \in 3..(Groups + 2)
    BY <1>2, GroupsPlace, GroupsNamed DEF HeaderAt
  <1>4. rows[cursor][2] = GroupOrder[i - 2] /\ i - 2 \in DOMAIN GroupOrder
    BY <1>2, <1>3, GroupsPlace, GroupsNamed, GroupsNumber DEF HeaderAt
  <1> QED
    BY <1>4 DEF ToSet

LEMMA SidebarStepOK ==
    SidebarOK /\ [SidebarNext]_sidebarVars => SidebarOK'
  <1> SUFFICES ASSUME SidebarOK, [SidebarNext]_sidebarVars
               PROVE  SidebarOK'
    OBVIOUS
  <1>1. /\ servers \in Lists \cup {<< >>} /\ recent \in Seq(STRING) /\ IsInjective(recent)
        /\ collapsed \subseteq ToSet(GroupOrder) /\ sortRecent \in BOOLEAN
    BY DEF SidebarOK
  <1>2. CASE SetServers
    <2>1. PICK list \in Lists : Reload(list, Only(recent, IdsOf(list)), open, collapsed, sortRecent)
      BY <1>2 DEF SetServers
    <2> QED
      BY <1>1, <2>1, OnlyInjective, ReloadOK
  <1>3. CASE ShowUsed
    <2>1. PICK id \in IdsOf(servers) :
             Reload(servers, <<id>> \o Only(recent, ToSet(recent) \ {id}), open, collapsed, sortRecent)
      BY <1>3 DEF ShowUsed
    <2>2. id \in STRING
      <3>1. Loaded(servers, recent)
        BY <1>1, ListsLoaded
      <3> QED
        BY <3>1, LoadedHas DEF IdsOf, ToSet
    <2> DEFINE rest == Only(recent, ToSet(recent) \ {id})
    <2>3. rest \in Seq(STRING) /\ IsInjective(rest) /\ id \notin ToSet(rest)
      BY <1>1, OnlyInjective
    <2> HIDE DEF rest
    <2>4. <<id>> \o rest \in Seq(STRING) /\ IsInjective(<<id>> \o rest)
      BY <2>2, <2>3, FrontInjective
    <2>5. Reload(servers, <<id>> \o rest, open, collapsed, sortRecent)
      BY <2>1 DEF rest
    <2> QED
      BY <1>1, <2>4, <2>5, ReloadOK
  <1>4. CASE SetOpen
    BY <1>1, <1>4, ReloadOK DEF SetOpen
  <1>5. CASE LoadState
    BY <1>1, <1>5, ReloadOK DEF LoadState
  <1>6. CASE SetSortRecent
    <2>1. (~sortRecent) \in BOOLEAN
      OBVIOUS
    <2> QED
      BY <1>1, <1>6, <2>1, ReloadOK DEF SetSortRecent
  <1>7. CASE Fold
    <2> DEFINE g == rows[cursor][2]
               folded == IF g \in collapsed THEN collapsed \ {g} ELSE collapsed \cup {g}
    <2>1. Reload(servers, recent, open, folded, sortRecent)
      BY <1>7 DEF Fold
    <2>2. g \in ToSet(GroupOrder)
      BY <1>7, HeaderIsOfGroup DEF Fold
    <2>3. folded \subseteq ToSet(GroupOrder)
      BY <1>1, <2>2
    <2> QED
      BY <1>1, <2>1, <2>3, ReloadOK
  <1>8. CASE Move
    BY <1>8 DEF Move, SidebarOK
  <1>9. CASE UNCHANGED sidebarVars
    BY <1>9 DEF sidebarVars, SidebarOK
  <1> QED
    BY <1>2, <1>3, <1>4, <1>5, <1>6, <1>7, <1>8, <1>9 DEF SidebarNext


LEMMA SidebarInitOK == SidebarInit => SidebarOK
  <1> SUFFICES ASSUME SidebarInit PROVE SidebarOK
    OBVIOUS
  <1>1. << >> \in Seq(STRING) /\ IsInjective(<< >>) /\ {} \subseteq ToSet(GroupOrder)
    BY DEF IsInjective
  <1>2. Loaded(<< >>, << >>)
    BY <1>1, ListsLoaded
  <1>3. Len(rows) \in Nat /\ Len(rows) >= 1
    BY <1>1, <1>2, ItemsLong DEF SidebarInit
  <1>4. cursor \in 1..Len(rows)
    <2>1. cursor = 1
      BY DEF SidebarInit
    <2> QED
      BY <1>3, <2>1
  <1> QED
    BY <1>1, <1>4 DEF SidebarInit, SidebarOK

\* What is selected by a row is its kind and its name.
Alike(a, b) ==
    Len(a) = Len(b) /\ \A j \in 1..Len(a) : a[j][1] = b[j][1] /\ a[j][2] = b[j][2]

\* Sequences as long as each other, up to some part, begin at the same rows.
LEMMA SamePlaces ==
    ASSUME NEW n \in Nat, NEW m \in 0..n, NEW ss, NEW tt, NEW a, NEW b,
           Offsets(ss, n, a), Offsets(tt, n, b), \A i \in 1..m : Len(ss[i]) = Len(tt[i])
    PROVE  \A i \in 1..(m + 1) : a[i] = b[i]
  <1> DEFINE Same == {k \in Nat : k \in 1..(m + 1) => a[k] = b[k]}
  <1>1. 0 \in Same
    OBVIOUS
  <1>2. \A k \in Nat : k \in Same => k + 1 \in Same
    <2> SUFFICES ASSUME NEW k \in Nat, k \in Same, k + 1 \in 1..(m + 1)
                 PROVE  a[k + 1] = b[k + 1]
      OBVIOUS
    <2>1. CASE k = 0
      BY <2>1 DEF Offsets
    <2>2. CASE k # 0
      <3>1. k \in 1..n /\ k \in 1..m /\ k \in 1..(m + 1)
        BY <2>2
      <3>2. a[k] = b[k]
        BY <3>1
      <3>3. a[k + 1] = a[k] + Len(ss[k]) /\ b[k + 1] = b[k] + Len(tt[k])
        BY <3>1 DEF Offsets
      <3>4. Len(ss[k]) = Len(tt[k])
        BY <3>1
      <3> QED
        BY <3>2, <3>3, <3>4
    <2> QED
      BY <2>1, <2>2
  <1> HIDE DEF Same
  <1>3. Nat \subseteq Same
    BY <1>1, <1>2, SetInduction
  <1> QED
    BY <1>3 DEF Same

\* Other sessions change the markers of a part and nothing else.
LEMMA LinesAlike ==
    ASSUME NEW list \in Seq(Server), NEW live, NEW other
    PROVE  Alike(Lines(list, live), Lines(list, other))
  <1>1. DOMAIN list = 1..Len(list) /\ Len(list) \in Nat
        /\ \A i \in 1..Len(list) : list[i].id \in STRING
    <2>1. DOMAIN list = 1..Len(list) /\ Len(list) \in Nat
      OBVIOUS
    <2>2. \A i \in 1..Len(list) : list[i] \in Server
      OBVIOUS
    <2> QED
      BY <2>1, <2>2, ServerHas
  <1>2. ASSUME NEW on
        PROVE  Len(Lines(list, on)) = Len(list)
               /\ \A i \in 1..Len(list) : Lines(list, on)[i] = ServerRow(list[i], on)
    BY <1>1 DEF Lines, ServerRow
  <1> QED
    BY <1>1, <1>2, ServerRowHas DEF Alike

LEMMA FrontAlike ==
    ASSUME NEW h \in RowShape, NEW k \in RowShape, h[1] = k[1], h[2] = k[2],
           NEW a \in Seq(RowShape), NEW b \in Seq(RowShape), Alike(a, b)
    PROVE  Alike(<<h>> \o a, <<k>> \o b)
  <1>1. ASSUME NEW x \in RowShape, NEW c \in Seq(RowShape)
        PROVE  /\ Len(<<x>> \o c) = 1 + Len(c) /\ Len(c) \in Nat
               /\ \A j \in 1..(1 + Len(c)) : (<<x>> \o c)[j] = IF j = 1 THEN x ELSE c[j - 1]
    <2>1. <<x>> \in Seq(RowShape) /\ Len(<<x>>) = 1 /\ <<x>>[1] = x /\ Len(c) \in Nat
      OBVIOUS
    <2>2. /\ Len(<<x>> \o c) = 1 + Len(c)
          /\ \A j \in 1..(1 + Len(c)) : (<<x>> \o c)[j] = IF j <= 1 THEN <<x>>[j] ELSE c[j - 1]
      BY <2>1, ConcatProperties
    <2>3. \A j \in 1..(1 + Len(c)) : (j <= 1 <=> j = 1)
      BY <2>1
    <2> QED
      BY <2>1, <2>2, <2>3
  <1>2. ASSUME NEW j \in 1..(1 + Len(a))
        PROVE  /\ (<<h>> \o a)[j][1] = (<<k>> \o b)[j][1]
               /\ (<<h>> \o a)[j][2] = (<<k>> \o b)[j][2]
    <2>1. Len(a) = Len(b) /\ Len(a) \in Nat
      BY <1>1 DEF Alike
    <2>2. CASE j = 1
      BY <1>1, <2>1, <2>2
    <2>3. CASE j # 1
      <3>1. j - 1 \in 1..Len(a)
        BY <2>1, <2>3
      <3>2. a[j - 1][1] = b[j - 1][1] /\ a[j - 1][2] = b[j - 1][2]
        BY <3>1 DEF Alike
      <3> QED
        BY <1>1, <2>1, <2>3, <3>2
    <2> QED
      BY <2>2, <2>3
  <1> QED
    BY <1>1, <1>2 DEF Alike

LEMMA PartsAlike ==
    ASSUME NEW list, NEW used, Loaded(list, used), NEW live, NEW other,
           NEW folded, folded \subseteq ToSet(GroupOrder), NEW byUse \in BOOLEAN,
           NEW i \in 1..(Groups + 2)
    PROVE  Alike(Parts(list, used, live, folded, byUse)[i],
                 Parts(list, used, other, folded, byUse)[i])
  <1> DEFINE sorted(g) == SortServers(Members(list, g), used, byUse)
             piece(on) == Parts(list, used, on, folded, byUse)
             connect == << <<"connect", "", FALSE>> >>
             plain(on) == Lines(sorted(""), on)
             block(g, on) == Block(g, list, used, on, folded, byUse)
  <1>6. ASSUME NEW on
        PROVE  /\ piece(on)[1] = connect /\ piece(on)[2] = plain(on)
               /\ \A k \in 3..(Groups + 2) : piece(on)[k] = block(GroupOf(k), on)
    <2>1. PartsAre(piece(on), list, used, on, folded, byUse)
      BY PartsShow
    <2> QED
      BY <2>1 DEF PartsAre, sorted
  <1> HIDE DEF piece, connect, block
  <1>1. ASSUME NEW g PROVE sorted(g) \in Seq(Server)
    <2>1. Members(list, g) \in Seq(Server) /\ Has(Members(list, g), list, {s \in ToSet(list) : s.group = g})
      BY OnlyHas DEF Members, Loaded
    <2> QED
      BY <2>1, SortHas DEF Has, Loaded
  <1> HIDE DEF sorted
  <1>2. ASSUME NEW g PROVE Alike(Lines(sorted(g), live), Lines(sorted(g), other))
    BY <1>1, LinesAlike
  <1>3. CASE i = 1
    <2>1. piece(live)[1] = piece(other)[1]
      BY <1>6
    <2> QED
      BY <1>3, <2>1 DEF Alike, piece
  <1>4. CASE i = 2
    <2>1. piece(live)[2] = plain(live) /\ piece(other)[2] = plain(other)
      BY <1>6
    <2>2. Alike(plain(live), plain(other))
      BY <1>2
    <2> QED
      BY <1>4, <2>1, <2>2 DEF piece
  <1>5. CASE i \in 3..(Groups + 2)
    <2> DEFINE g == GroupOf(i)
               header(on) == HeaderRow(g, IdsOf(Members(list, g)) \cap on # {})
    <2>1. piece(live)[i] = block(g, live) /\ piece(other)[i] = block(g, other)
      BY <1>5, <1>6
    <2>2. ASSUME NEW on
          PROVE  block(g, on) = IF Members(list, g) = << >> THEN << >>
                             ELSE <<header(on)>> \o (IF g \in folded THEN << >> ELSE Lines(sorted(g), on))
      BY DEF Block, HeaderRow, sorted, block
    <2>3. ASSUME NEW on
          PROVE  /\ header(on) \in RowShape /\ header(on)[1] = "header" /\ header(on)[2] = g
                 /\ Lines(sorted(g), on) \in Seq(RowShape)
      BY <1>5, GroupsNamed, HeaderRowHas, LinesShow DEF sorted
    <2> HIDE DEF g, header
    <2>4. CASE Members(list, g) = << >>
      BY <2>1, <2>2, <2>4 DEF Alike, piece
    <2>5. CASE Members(list, g) # << >> /\ g \in folded
      <3>1. ASSUME NEW on
            PROVE  Len(block(g, on)) = 1 /\ block(g, on)[1] = header(on)
        BY <2>2, <2>3, <2>5
      <3> QED
        BY <2>1, <2>3, <3>1 DEF Alike, piece
    <2>6. CASE Members(list, g) # << >> /\ g \notin folded
      <3> DEFINE lines(on) == Lines(sorted(g), on)
      <3>1. ASSUME NEW on
            PROVE  block(g, on) = <<header(on)>> \o lines(on)
        BY <2>2, <2>6
      <3>2. ASSUME NEW on PROVE lines(on) \in Seq(RowShape)
        BY <2>3
      <3>3. Alike(lines(live), lines(other))
        BY <1>2
      <3> HIDE DEF lines
      <3> QED
        BY <2>1, <2>3, <3>1, <3>2, <3>3, FrontAlike DEF piece
    <2> QED
      BY <2>4, <2>5, <2>6
  <1> QED
    BY <1>3, <1>4, <1>5, GroupsPlace

\* A tab opening or closing leaves every row where it was.
LEMMA OpenStays ==
    ASSUME SidebarOK, SetOpen
    PROVE  Selected' = Selected
  <1>1. PICK live : Reload(servers, recent, live, collapsed, sortRecent)
    BY DEF SetOpen
  <1> DEFINE last == Groups + 2
             parts == Parts(servers, recent, open, collapsed, sortRecent)
             parts2 == Parts(servers, recent, live, collapsed, sortRecent)
  <1>2. Loaded(servers, recent) /\ collapsed \subseteq ToSet(GroupOrder) /\ sortRecent \in BOOLEAN
    BY ListsLoaded DEF SidebarOK
  <1>3. \A i \in 1..last : Alike(parts[i], parts2[i])
    BY <1>2, PartsAlike
  <1>4. PICK a : RowsAre(servers, recent, open, collapsed, sortRecent, a)
    BY <1>2, ItemsHaveRows
  <1>5. PICK b : RowsAre(servers, recent, live, collapsed, sortRecent, b)
    BY <1>2, ItemsHaveRows
  <1>6. rows' = ItemsFor(servers, recent, live, collapsed, sortRecent)
    BY <1>1 DEF Reload
  <1>7. /\ Offsets(parts, last, a) /\ Len(rows) = a[last + 1]
        /\ rows[1] = <<"connect", "", FALSE>>
        /\ \A i \in 2..last : \A j \in 1..Len(parts[i]) : rows[a[i] + j] = parts[i][j]
        /\ \A r \in 1..Len(rows) : r = 1 \/
              \E i \in 2..last : \E j \in 1..Len(parts[i]) : r = a[i] + j
    BY <1>4 DEF RowsAre, SidebarOK
  <1>8. /\ Offsets(parts2, last, b) /\ Len(rows') = b[last + 1]
        /\ rows'[1] = <<"connect", "", FALSE>>
        /\ \A i \in 2..last : \A j \in 1..Len(parts2[i]) : rows'[b[i] + j] = parts2[i][j]
    BY <1>5, <1>6 DEF RowsAre
  <1>9. last \in Nat /\ last \in 0..last /\ last + 1 \in 1..(last + 1)
        /\ \A i \in 2..last : i \in 1..last /\ i \in 1..(last + 1)
    BY GroupsNumber
  <1> HIDE DEF last, parts, parts2
  <1>10. \A i \in 1..(last + 1) : a[i] = b[i]
    <2>1. \A i \in 1..last : Len(parts[i]) = Len(parts2[i])
      BY <1>3 DEF Alike
    <2> QED
      <3>1. Offsets(parts, last, a) /\ Offsets(parts2, last, b)
        BY <1>7, <1>8
      <3> QED
        BY <2>1, <3>1, <1>9, SamePlaces
  <1>11. Len(rows') = Len(rows) /\ cursor \in 1..Len(rows)
    BY <1>7, <1>8, <1>9, <1>10 DEF SidebarOK
  <1>12. cursor' = cursor
    <2>1. cursor' = IF cursor > Len(rows') THEN Len(rows') ELSE cursor
      BY <1>1 DEF Reload
    <2>2. Len(rows) \in Nat
      BY <1>2, ItemsLong DEF SidebarOK
    <2> QED
      BY <1>11, <2>1, <2>2
  <1>13. rows'[cursor][1] = rows[cursor][1] /\ rows'[cursor][2] = rows[cursor][2]
    <2>1. CASE cursor = 1
      BY <1>7, <1>8, <2>1
    <2>2. CASE cursor # 1
      <3>1. PICK i \in 2..last : \E j \in 1..Len(parts[i]) : cursor = a[i] + j
        BY <1>7, <1>11, <2>2
      <3>2. PICK j \in 1..Len(parts[i]) : cursor = a[i] + j
        BY <3>1
      <3>3. rows[cursor] = parts[i][j]
        BY <1>7, <3>2
      <3>4. /\ j \in 1..Len(parts2[i]) /\ parts2[i][j][1] = parts[i][j][1]
            /\ parts2[i][j][2] = parts[i][j][2]
        BY <1>3, <1>9 DEF Alike
      <3>5. rows'[cursor] = parts2[i][j]
        BY <1>8, <1>9, <1>10, <3>2, <3>4
      <3> QED
        BY <3>3, <3>4, <3>5
    <2> QED
      BY <2>1, <2>2
  <1> QED
    BY <1>12, <1>13 DEF Selected

\* Folding a group changes the rows after its header.
LEMMA FoldStays ==
    ASSUME SidebarOK, Fold
    PROVE  Selected' = Selected
  <1> DEFINE g == rows[cursor][2]
             folded == IF g \in collapsed THEN collapsed \ {g} ELSE collapsed \cup {g}
             last == Groups + 2
             parts == Parts(servers, recent, open, collapsed, sortRecent)
             parts2 == Parts(servers, recent, open, folded, sortRecent)
  <1>1. rows[cursor][1] = "header" /\ Reload(servers, recent, open, folded, sortRecent)
    BY DEF Fold
  <1>2. /\ Loaded(servers, recent) /\ collapsed \subseteq ToSet(GroupOrder)
        /\ sortRecent \in BOOLEAN
    BY ListsLoaded DEF SidebarOK
  <1>3. g \in ToSet(GroupOrder) /\ folded \subseteq ToSet(GroupOrder)
    BY <1>1, <1>2, HeaderIsOfGroup
  <1>4. PICK a :
           /\ RowsAre(servers, recent, open, collapsed, sortRecent, a)
           /\ \A r \in 1..Len(rows) : rows[r][1] = "header" =>
                 \E i \in 2..last : HeaderAt(r, i, a, parts)
    BY RowsFound
  <1>5. PICK b : RowsAre(servers, recent, open, folded, sortRecent, b)
    BY <1>2, <1>3, ItemsHaveRows
  <1>6. PICK i \in 2..last : cursor = a[i] + 1 /\ 1 \in 1..Len(parts[i]) /\ Named(GroupOf(i)) /\ GroupOf(i) = g
    BY <1>1, <1>4 DEF HeaderAt, SidebarOK
  <1> DEFINE block(k, f) == Block(GroupOf(k), servers, recent, open, f, sortRecent)
  <1>7. /\ parts[1] = parts2[1] /\ parts[2] = parts2[2]
        /\ \A k \in 3..last : parts[k] = block(k, collapsed) /\ parts2[k] = block(k, folded)
        /\ parts \in [1..last -> Seq(RowShape)] /\ parts2 \in [1..last -> Seq(RowShape)]
    <2>1. PartsAre(parts, servers, recent, open, collapsed, sortRecent)
      BY <1>2, PartsShow
    <2>2. PartsAre(parts2, servers, recent, open, folded, sortRecent)
      BY <1>2, <1>3, PartsShow
    <2> HIDE DEF parts, parts2
    <2> QED
      BY <2>1, <2>2 DEF PartsAre
  <1>8. i \in 3..last
    BY <1>6, GroupsNamed, GroupsPlace
  <1>9. \A k \in 3..last : k # i => parts[k] = parts2[k]
    <2> TAKE k \in 3..last
    <2> HAVE k # i
    <2>1. GroupOf(k) # g
      BY <1>6, <1>8, GroupsDiffer, GroupsPlace
    <2>2. GroupOf(k) \in collapsed <=> GroupOf(k) \in folded
      BY <2>1
    <2>3. block(k, collapsed) = block(k, folded)
      BY <2>2 DEF Block
    <2> QED
      BY <1>7, <2>3
  <1> DEFINE mine == Members(servers, GroupOf(i))
             header == HeaderRow(GroupOf(i), IdsOf(mine) \cap open # {})
  <1>10. ASSUME NEW f
         PROVE  /\ mine = << >> => block(i, f) = << >>
                /\ mine # << >> => Len(block(i, f)) >= 1 /\ block(i, f)[1] = header
    <2> DEFINE lines == Lines(SortServers(mine, recent, sortRecent), open)
               tail == IF GroupOf(i) \in f THEN << >> ELSE lines
    <2>1. block(i, f) = IF mine = << >> THEN << >> ELSE <<header>> \o tail
      BY DEF Block, HeaderRow
    <2>2. tail \in Seq(RowShape)
      <3>1. lines \in Seq(RowShape)
        BY <1>2, LinesShow
      <3> HIDE DEF lines
      <3> QED
        BY <3>1
    <2>3. header \in RowShape
      BY <1>6, HeaderRowHas
    <2> HIDE DEF mine, header, tail
    <2>4. /\ <<header>> \in Seq(RowShape) /\ Len(<<header>>) = 1 /\ <<header>>[1] = header
          /\ Len(tail) \in Nat
      BY <2>2, <2>3
    <2>5. /\ Len(<<header>> \o tail) = 1 + Len(tail)
          /\ (<<header>> \o tail)[1] = header
      BY <2>2, <2>4, ConcatProperties
    <2> QED
      BY <2>1, <2>4, <2>5
  <1> HIDE DEF g, folded, last, parts, parts2, block, mine, header
  <1>11. rows' = ItemsFor(servers, recent, open, folded, sortRecent)
    BY <1>1 DEF Reload
  <1>12. /\ Offsets(parts, last, a) /\ rows \in Seq(RowShape)
         /\ \A k \in 2..last : \A j \in 1..Len(parts[k]) : rows[a[k] + j] = parts[k][j]
         /\ \A r \in 1..Len(rows) : r = 1 \/
               \E k \in 2..last : \E j \in 1..Len(parts[k]) : r = a[k] + j
    BY <1>4 DEF RowsAre, SidebarOK, parts, last
  <1>13. /\ Offsets(parts2, last, b) /\ rows' \in Seq(RowShape)
         /\ \A k \in 2..last : \A j \in 1..Len(parts2[k]) :
               b[k] + j \in 1..Len(rows') /\ rows'[b[k] + j] = parts2[k][j]
    BY <1>5, <1>11 DEF RowsAre, parts2, last
  <1> DEFINE m == i - 1
  <1>14. /\ last \in Nat /\ m \in 0..last /\ i \in 1..(m + 1) /\ i \in 1..last
         /\ \A k \in 1..m : k = 1 \/ k = 2 \/ (k \in 3..last /\ k # i)
    BY <1>8, GroupsNumber DEF last
  <1> HIDE DEF m
  <1>15. a[i] = b[i]
    <2>1. \A k \in 1..m : Len(parts[k]) = Len(parts2[k])
      BY <1>7, <1>9, <1>14
    <2>2. last \in Nat /\ m \in 0..last /\ Offsets(parts, last, a) /\ Offsets(parts2, last, b)
      BY <1>12, <1>13, <1>14
    <2>3. \A k \in 1..(m + 1) : a[k] = b[k]
      BY <2>1, <2>2, SamePlaces
    <2> QED
      BY <1>14, <2>3
  <1>16. parts[i] \in Seq(RowShape) /\ parts2[i] \in Seq(RowShape)
    BY <1>7, <1>14
  \* The header is there because the cursor is on it.
  <1>17. mine # << >>
    <2> SUFFICES ASSUME mine = << >> PROVE FALSE
      OBVIOUS
    <2>1. Len(parts[i]) = 0
      BY <1>7, <1>8, <1>10
    <2> QED
      BY <1>6, <2>1
  <1>18. parts[i][1] = header /\ parts2[i][1] = header /\ 1 \in 1..Len(parts2[i])
    <2>1. Len(parts2[i]) \in Nat
      BY <1>16
    <2> QED
      BY <1>7, <1>8, <1>10, <1>17, <2>1
  <1>19. rows'[cursor] = rows[cursor] /\ cursor \in 1..Len(rows')
    <2>1. rows[cursor] = header
      BY <1>6, <1>12, <1>18
    <2>2. b[i] + 1 \in 1..Len(rows') /\ rows'[b[i] + 1] = header
      BY <1>13, <1>18
    <2> QED
      BY <1>6, <1>15, <2>1, <2>2
  <1>20. cursor' = cursor
    <2>1. cursor' = IF cursor > Len(rows') THEN Len(rows') ELSE cursor
      BY <1>1 DEF Reload
    <2>2. Len(rows') \in Nat
      BY <1>13
    <2> QED
      BY <1>19, <2>1, <2>2
  <1> QED
    BY <1>19, <1>20 DEF Selected

-----------------------------------------------------------------------------
(* Theorems. *)

LEMMA SidebarInvariant == SidebarSpec => []SidebarOK
  <1>1. SidebarInit => SidebarOK
    BY SidebarInitOK
  <1>2. SidebarOK /\ [SidebarNext]_sidebarVars => SidebarOK'
    BY SidebarStepOK
  <1> QED
    BY <1>1, <1>2, PTL DEF SidebarSpec

\* Whatever is folded, sorted, loaded or opened in whatever order, every server
\* has its row under its group's header, or its group is folded.
THEOREM SidebarSafe == SidebarSpec => []ListIsWhole
  <1>1. SidebarOK => ListIsWhole
    BY RowsWhole
  <1> QED
    BY <1>1, SidebarInvariant, PTL

\* A tab opening or closing, or a fold, leaves the selection where it was.
THEOREM SelectionKept == SidebarSpec => SelectionStays
  <1>1. SidebarOK /\ [SidebarNext]_sidebarVars
           => [Selected' # Selected => ~(SetOpen \/ Fold)]_sidebarVars
    BY OpenStays, FoldStays
  <1> QED
    BY <1>1, SidebarInvariant, PTL DEF SidebarSpec, SelectionStays

-----------------------------------------------------------------------------
(* The three together.                                                      *)

\* A behaviour of the three is one of each.
LEMMA EachBehaves == UiSpec => AppSpec /\ KeymapSpec /\ SidebarSpec
  <1>1. UiInit => AppInit /\ KeymapInit /\ SidebarInit
    BY DEF UiInit
  <1>2. ASSUME [UiNext]_<<part, appVars, keymapVars, sidebarVars>>
        PROVE  [AppNext]_appVars /\ [KeymapNext]_keymapVars /\ [SidebarNext]_sidebarVars
    BY <1>2 DEF UiNext
  <1> QED
    BY <1>1, <1>2, PTL DEF UiSpec, AppSpec, KeymapSpec, SidebarSpec

\* Whatever the event loop, the keymap and the list do, each is within its types
\* and the list has every server.
THEOREM UiIsConsistent == UiSpec => []UiConsistent
  <1>1. AppTypeOK /\ KeymapTypeOK /\ ListIsWhole => UiConsistent
    BY DEF UiConsistent
  <1> QED
    BY <1>1, EachBehaves, AppTyped, KeymapTyped, SidebarSafe, PTL
=============================================================================
