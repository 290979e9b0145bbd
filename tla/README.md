# A specification of tui-ssh-client

TLA+ modules, model-checking configurations and machine-checked proofs for the
terminal SSH/SFTP client in this repository. The modules are translations of the
Go code; where a doc or a comment says something else, the difference is stated
as a property that a run refutes, or listed under *Disagreements*.

Line numbers are those of `src/`; `PROJECT.json` maps every definition to the
lines it stands for.

## 1. The system

A Bubble Tea program: one goroutine, the *UI*, runs `App.Update` on one message
at a time. Anything slow is a *command*, a function run on a goroutine of its
own whose result comes back as a message. Nothing orders commands among
themselves, and nothing cancels one when the user changes their mind: the
handlers recognise late answers by the *generation* they carry. On top of that
every SSH session has four goroutines of its own and meets the UI in one bounded
channel, and all dials meet it in one channel of one place for host key
questions.

| Part | Code | State | Operations | Hard because |
|---|---|---|---|---|
| SSH session | `ssh/session.go` | `out`, `exitErr`, `closed`; two pumps, a waiter, a keepalive | `Write`, `Resize`, `Output`, `Close`, `finish`, `fail`, `send`, `keepalive` | four goroutines and the UI race to end it; a full channel blocks the pumps |
| Dial, host keys | `ssh/hostkey.go`, `ssh/session.go`, `sftp/remote.go`, `ui/app.go` | `known_hosts`, the prompt channel, the confirm panel | `Dial`, `Connect`, `hostKeyCallback`, `askHostKey`, `answer` | several dials share one channel and one panel; timers; abandoned dials |
| Tabs | `ui/tabs.go`, `ui/terminal.go`, `ui/app.go` | tabs, active index, generations, slot pool, key pumps | open, switch, close, reconnect, park, every tab message | slots and indices are recycled while messages are in flight |
| Server list | `config/store.go`, `ui/app.go` | `servers.json`, the UI's copy | `Load`, `Save`, `Add`, `AddAll`, `Update`, `Remove` | read-modify-write by concurrent commands through one temporary name |
| Vault and migration | `config/migrate.go`, `config/vaultstore.go`, `ui/unlock.go` | list, `keys/`, vault, backup, unlock gate | scan, unlock, create, `Migrate`, `persistSecrets` | a crash or an error between any two steps, then a retry |
| SFTP transport, transfers | `sftp/*.go` | a connection, a set of files | `Connect`, `Upload`, `Download`, `Plan`, `RunSet`, `Delete` | cancellation, partial files, progress from another goroutine |
| SFTP panes | `ui/sftp.go` | two listings, a selection, the running set | list, plan, transfer, delete, rename, mkdir | late listings; a connection torn down under a transfer |
| Sync | `ui/sync.go`, `sync/github.go`, `config/bundle.go`, `main.go` | repository file and its sha, settings | push, pull, apply, bootstrap | two devices; a lost answer; several files replaced one by one |
| Dialogs and focus | `ui/app.go`, `ui/help.go`, `ui/form.go`, `ui/confirm.go`, `ui/importer.go` | `rightMode`, `focus`, the open dialog | every key and click | messages arrive while a dialog is up |
| Keymap | `ui/keymap.go`, `config/keymap.go` | bindings by context | `Apply`, `resolveClashes` | resolving one clash makes another |
| Sidebar | `ui/sidebar.go` | rows, folds, cursor | `itemsFor`, move, fold | cursor against a list that changes |
| Crypto, parsers, drawing | `vault/`, `config/sshconfig.go`, `ui/help.go`, ... | none | pure functions | not modelled |

How they interact: the UI starts a dial with a generation; the dial may ask
about a host key through `hostKeys`; it comes back as `connectedMsg` or
`connectFailedMsg`, which the tabs match by generation. A session's output is
read one chunk per command (`waitForOutput`), re-armed by the handler of
`outputMsg`; its end comes as `sessionEndedMsg` and may start a backoff tick.
Commands on the server list and the vault run next to all of that and replace
the UI's copy when their message arrives. Tabs, SFTP, dialogs and the unlock
gate share the keyboard and the right-hand panel.

What makes each part correct:

* *Session*: all output before the end; a session is not called lost unless its
  link was; a dead link or a finished shell reaches the UI.
* *Dial*: no key is trusted that is neither on file nor approved; a changed key
  never is; the answer reaches the dial it is about; nobody waits for ever;
  nothing is left open behind an abandoned dial.
* *Tabs*: a message finds its tab or none; keys reach the tab's own session; no
  slot is shared or lost; every tab that waits for something gets it.
* *Store*: the file is a whole list; commands take effect one after the other;
  what was reported saved is there.
* *Migrate*: no secret is lost whatever fails or crashes, and the app never opens
  on a vault that is short of one, but for what a pull passes over or replaces.
* *Panes*: what is on screen, and what a key acts on, belongs to the connection
  of now; one walk, question, copy or delete at a time; no connection and no
  copy is left behind.
* *Transfer*: a half-written file stays only where it could not be removed;
  nothing is lost that nobody asked for; cancelling ends unless the server hangs.
* *Sync*: the sha a device holds vouches for what is in the repository; no push
  removes what nobody deleted; approved host keys stay, one per host.
* *Dialogs and focus*: what is typed for a shell goes to one that is on screen;
  the question a key answers is the one shown; there is always a way out.
* *Keymap*: a key does what `keys.json` says of it, unless its line is reported, or
  one whose action has the key by default is.
* *Sidebar*: no server is lost from the list; the cursor is on a row, and on the
  same one when a tab opens or closes or a group is folded.

## 2. The modules

**Session** is one remote shell. A step is one critical section, one channel
operation or one call into the SSH library. `pump`, `waiter` and `ka` are the
program counters of the four goroutines; `out` counts the chunks in the channel;
`exitErr` and `closed` are the fields under the mutex; `ui` is the UI's consumer
(`waitForOutput` armed, handling, gone, ended), `closing` its call of `Close`.
The link, the exit status and the pipes stand for the remote and the library.
`Pumps` are the code's two, stdout's and stderr's. **Stream** is what a tab is
promised of it: what arrives is shown, then comes the end, once and last.

**Dial** is a set of dials with their tabs, the channel `hostKeys`, its pump
(`prompt` is a message on its way), the panel `confirm`, the commands that carry
an answer and the messages that follow. `file` is what the `known_hosts` files
hold, `seen` what a dial read when it began: `knownhosts.New` is evaluated once.

**Tabs** is the whole of the tab bookkeeping: a tab is the emulator slot it
borrowed, `order` the strip, `active` the index, `free`/`live` the pool. `dials`,
`ticks` and `readers` are what is in flight, by generation; `open` the sessions
that are up. A handler is one action, and its disjuncts are the handler's cases.

**Store** has the two names `servers.json` and `servers.json.tmp`, the files
behind them and the commands, each with a program counter through load, open,
write, rename, unlink and reload. **ServerList** is the abstract specification:
a list that changes by one whole command at a time.

**Migrate** is the start of the program: scan, gate, the command behind it step
by step, the app past the gate, and `Restart`, which may interrupt anything and
start with `--pull` or without. A file is the set of servers whose secret it holds.
A pull has the steps of `ApplyBundle` and the seal after it, as `bootstrap` runs them
before there is a UI (`phase` is "boot", and `ScanStartup` then finds a passphrase and
puts up no gate) and `applyPullCmd` beside it. Which list and which secrets the bundle
has is open. `dropped` and `replaced` are history: the secrets that stood in the clear
when a pull replaced the list, which it passes over, and those of the vault it replaced.
`localBackup` is the copy of the list it makes first.

**Panes** is the event loop's side of the SFTP view. `gen` is `sftpGen`,
`remote` the generation of the connection the remote pane holds, `link` those
that are open. `listings`, `plans`, `copy`, `edits`, `dialing` and `up` are the
goroutines and messages under way; `drag`, `rename`, `pending`, `confirm`,
`keyPass` and `card` the dialogs, in the order `handleKey` asks them. A row is
abstracted to the directory it was picked in. `teardownSFTP` is an operator,
part of every action that calls it.

**Transfer** is the other side: what the goroutines of copies, deletes and
renames do to files, with the connection possibly closed under them. A file is
absent, whole, or what one copy has written so far. A connection answers (`link`),
hangs (`hung`: the server keeps it and does not answer) or is gone. The removal of
a partial file succeeds, is refused (`refused`), or has no connection to go over;
`CopyFails` has all three, and an opening that fails may have emptied the
file, when the answer to the request went with the connection. Which request may be put
when is left to `Panes`; here any file may be copied while no transfer runs,
and any may be deleted or renamed at any time.

**Sync** is a repository file and devices. `list`, `hosts` and `vault` are the
files of a device, `secrets` what its UI holds, `seals` the writes of the vault
under way. `push` and `pull` are the commands, one step for each request or
file; `Stop` interrupts any of them. A version stands for a sha. `Patient` says
that a user starts nothing while a sync is under way on the same device.

**App** is the event loop as the user meets it: `focus`, `right` and `prev` are
the fields of those names, `up` and the variables beside it the dialogs that are
open, `msgs` the messages of commands on their way. `Owner` is the order in which
`handleKey` asks who gets a key, `Panel` the order in which `View` draws: the gate,
else the help card over whatever there is, else what `rightBody` chooses, or `sftpModal`
in the split view. These are two cascades in two places, which the code nowhere compares. `StepBack` is what the escape key
does to each owner, `UserKey` the other keys and the mouse, `Message` one action
per message. The tabs are the current one and one in the background, in the
states the handlers distinguish; the details are in `Tabs`, `Dial` and `Panes`.

**Keymap** is the reading of `keys.json`. `Set` lays the file over the table,
`ResolveKey` is one turn of the loop of `resolveClashes` over a Go map, in any
order and over the keys as they were when it began (`overlaid`), `RequireBound`
gives the escape and the help card their keys back. `Action` is the index.

**Sidebar** is the list: `ItemsFor` builds the rows by flattening `Parts`, one
sequence for each group; `Reload` is the tail of every call that changes what they
are made of, and the cursor an index into them. `Only` picks from a sequence what is
in a set, in its order: the members of a group, what is still there of `recent`.

**Ui** has `App`, `Keymap` and `Sidebar` in one state, of which one moves: they share
nothing, `keys.json` being read once and a row of the list being any row to `App`.

The `MC` modules carry the constants, symmetry sets and views for TLC; `MCSync`
also says what is explored together. In one of its behaviours either servers or
host keys change, never both: the two travel in one bundle and never meet.
The theorems are in `TabsProofs`, `SshProofs` (about `Dial` and `Session`),
`StoreProofs`, `MigrateProofs`, `PanesProofs`, `TransferProofs`, `SyncProofs` and
`UiProofs` (about `App`, `Keymap`, `Sidebar` and `Ui`).

## 3. The runs

| Run | Question | Bounds |
|---|---|---|
| `Session_all` | it implements `Stream`, gives a true reason, and every end is reported | two pumps, a channel of 1, two chunks per pipe: a full channel with a chunk behind it on each pump |
| `Tabs_all` | who holds sessions and keys, what tabs wait for, view stability, retries | 2 servers, 3 tabs, 3 dials: a tab before, at and after the active one; a redial, a second redial, a reused slot |
| `Dial_all` | trust, the shared question, nobody waits for ever | 2 dials, 1 host, a good and a revoked key, at most one line on file at the start |
| `Store_serial` | the file implements the abstract list | 2 servers, 2 commands, 2 versions, crashes and I/O errors anywhere |
| `Migrate_all` | no secret lost, no short vault, with and without pulls | a server with both secrets, one with a key only; one pull at a time, with any list and any secrets in its bundle |
| `Panes_all` | the split view shows and acts on its own connection, one thing at a time | 2 connections (something of the first is under way at the second), 2 local directories and a remote one, one listing asked for beside those that start by themselves |
| `Transfer_all` | what stays on disk, and that cancelling ends | 2 connections, 2 copies, one delete or rename, 2 names of which both sides have one |
| `Sync_all` | the sha as an optimistic lock; the union of known hosts | 2 devices; 1 server and 3 uploads, or 2 hosts with 2 keys and 2 uploads |
| `Ui_all` | dialogs, focus and screen; `keys.json`; the list | `Stacked` = 2: two in all of dialogs open, messages on their way and a second tab, whatever the user is doing beside them; 6 bindings in 2 contexts and files of up to 3 lines; 3 servers, 2 groups |
| `Store_torn`, `Migrate_unscanned`, `Panes_panic` | refuted statements of docs, comments and tests | the same, or smaller |

Why the bounds are enough: the third dial of `Tabs_all` is what lets a message
of a closed tab meet the slot's next tab; with three tabs there is one on either
side of the active one. With two dials one can be abandoned, or on screen, while
the other asks. A channel of one place is full as soon as something is queued,
which is what 64 places do after 64 chunks. In `Store` two commands are the
smallest overlap, and `Serial` forbids that of two saves: without it the file is
not even whole (`Store_torn`). In `Migrate` passwords
move in one file, all at once, so one shows what may happen to each; keys are removed
one by one, so there are two. Pulls that overlap are `Sync`'s. In `Sync` servers do not affect each
other either, nor the list the known hosts; three uploads let a device be two
behind. The run uses a view that takes two shas for one when neither is the repository's: nothing
compares them. In `App` a disagreement of the two cascades takes two dialogs, one
of which a message brings in over the other: `Stacked` counts both, and a run
with 3 (1.3 million states) finds nothing new. Its run has a view that leaves out two
fields while nothing that can still happen reads them: what a closed form would have
restored, and which kind of connection a card that is not up would retry. In `Keymap` three lines are enough
for a clash whose resolution makes another. In `Transfer` the second copy is what a first one, told to stop,
may still overlap. All safety properties but `WayOut` are proved for every size as well (section 4).

`Consistent` is the type invariant of `Store`, `Panes`, `Transfer` and `Sync`
together with one that says no two things are under way at once, or no two files
contradict each other (`NoDanglingKey`, `OneAtATime`, `OneTransfer`,
`OneKeyPerHost`); `UiConsistent` has the types of `App` and `Keymap`, and that the
list is whole.

Deadlock is not checked: each of these systems may stop (the user quits, every
bound is reached).

### Fairness

Weak fairness only, per goroutine. `Session`: the pumps, the waiter, the
keepalive and the armed consumer run when they can (the Go scheduler); nothing
is assumed of the remote, of the network or of the user. That a dead link is
reported rests on the keepalive timer alone. `Tabs`: a pending tick is
delivered, because `tea.Tick` fires; dials and sessions may take for ever.
`Dial`: the prompt pump, the delivery of messages, timers and the answering
commands are fair; the user need never answer, and a server that has stopped
answering (`stuck`) never gets going. `Transfer`: reads and
writes return, with bytes or an error, over a connection that answers or is gone, and
the messages of copies are handled; of a server that hangs nothing is assumed, and
`CancelEnds` leaves its copies out, because nothing in the code ends them (there is
no deadline, and a cancellation is looked at between two requests); the user, the
network and deletes may take for ever. `Panes` needs no liveness:
`ScanIsReal` says that the walk the view waits for is on its way. `Store`, `Migrate` and `Sync` state none.
`Ui_all` needs none either: `WayOut` says that a step back is enabled and leads
closer to the list, not that the user takes it.

### Mutants

Each property has, next to the definition it concerns, a mutant: the same
operator with a plausible mistake (`ScheduleAttached` leaves the keys of a lost
session connected, `PutBlindly` uploads without a sha, `FailLockCloses` has the
keepalive mark the session closed, which discards what its pumps still hold).
With the mutant in place the property fails.

## 4. The proofs

All theorems hold for every value of the constants that satisfies the module's
`ASSUME`; none is assumed without proof. Each proof module has one inductive
invariant for each module it is about, a conjunction of named parts, one lemma for what an
operator or a group of actions does to each part, and the theorems at the end.

* **TabsProofs** (`TabsAssumption`): type correctness, `GenerationsDistinct`,
  `SlotsAccounted`, `ActiveInRange`, `KeysGoHome`, `NoOrphanSessions`,
  `EveryTabDriven`, `ParkedNeedsUser`. None of them is inductive alone:
  `GenerationsDistinct` needs that every generation in flight is at most `gen`;
  `KeysGoHome` needs that a pump is attached only while its tab is live, which
  needs that a session's generation is its tab's; `EveryTabDriven` needs that a
  tick, a reader and a dial of one generation exclude each other. `IInv` is their
  conjunction, one named part per fact, and each action is proved to keep it.
  From it, `ViewIsStable`: another tab's close finds the active tab again, by the
  position it has in what is left (`CloseKeepsView`).
* **SshProofs**, of `Session` (`SessionAssumption`): type correctness;
  `LostOnlyIfLinkFailed`, from `LossIsReal`, which follows the loss from the link to
  whoever records it; `FinalBytes`; and the refinement of `Stream`, `OutputIsAStream`,
  where what is sent is what arrived, what is seen is what is shown, and the state is
  the tab's. The last two need two invariants: `EndInOrder`,
  that `out` is closed last, by the waiter, when both pumps have emptied their
  pipes, and `NothingLost`, an account of every chunk: whatever arrived is in
  a pipe, in a pump's hands, in the channel, in a message or on the screen, unless the
  session was closed by its owner. So all is on screen when the end is told
  (`AllShown`), and every step of the goroutines, the remote and the UI is a step of
  the stream or a stutter (`StreamSteps`).
* **SshProofs**, of `Dial` (`DialAssumption`): type correctness, `OnlyTrustedKeys`,
  `ChangedKeysRefused`, `AutoNeverAsks`, `NobodyHoldsAbandoned`,
  `FileGrowsByApproval`. The strengthening follows an answer back: a `yes` in a
  reply channel, or a command about to put it there, exists only for a key that
  was approved on screen, and a dial asks only about a key that is unknown in
  what it read.
* What liveness rests on is proved as well, for any size, and only the inference from
  fairness is left to TLC. As long as the promised thing has not happened, one of the
  steps whose fairness is assumed can be taken (this is stated by guards, not by
  ENABLED), and each such step brings it nearer by a count that no other step raises.
  `EndNeverStuck` and `EndComesNearer` say so for `EndIsReported`: once the SSH channel
  has closed, a pump, the waiter or the UI can move, however small `OutCap` is.
  `LossNeverStuck` and `LossComesNearer` do for `DeadLinkIsReported`,
  `RetriesAreDriven` (in `TabsProofs`) for `RetryHappens`, `DialsMoveOn` for
  `PromptsEnd` and `AbandonedAreClosed`, `CopiesMoveOn` (in `TransferProofs`) for
  `CancelEnds`.
* **MigrateProofs** (no assumption): `KeysKept`, `NothingLost`, `NoDanglingPath`,
  `UnlockedHoldsAll`, `BackedUpFirst`. `KInv` holds whatever the scans could
  read: a gate that makes a new vault holds everything an earlier try of it
  sealed, and only sealed keys leave `keys/`. `Scanned` holds until a scan
  fails: a gate holds everything still in the clear and not yet sealed, and past
  the gate without a passphrase there was nothing to migrate. What a pull has
`dropped` or `replaced` is the only exception in each, and both sets are given by the
pull's two steps, so they cannot excuse anything else. `NoDanglingPath` says of a
step that it removes no key file the list names: that a list names no missing
file is not so after a pull, whose bundle may name paths of another machine.
* **TransferProofs** (`TransferAssumption`): `Consistent`, `TornIsExplained`,
  `OnlyAskedFor`. That a torn file is explained by the connection of its copy
  being gone is lasting only because a generation that went never comes back
  (`GensPast`), in `link` or `hung`; that a copy about to begin has torn nothing yet is
  `TornIsStarted`. A removal is refused once and for all, so `refused` needs no more.
* **SyncProofs** (`SyncAssumption`): `Consistent`, with one key per host whatever
  the users do (`HostsInv`, over what is on file, on its way or about to be written);
  and, for patient users (`Patient`), `ShaIsHonest`, `RemoteKeepsEntries` and
  `KnownHostsKept` (`Merging`: what a pull is about to write holds what is on file). The lock is not inductive: `Honest` says of everything a device
  holds, has sent or is about to write, the seals of earlier secrets included, that
  it is honest, and nothing held is newer than what the device fetched or sent.
  Without patience the three fail, which section 5 describes.
* **UiProofs**, of `App` (`StackedAssumption`): `ShellOnScreen`, for any depth of dialogs,
  and `AnsweredAsShown`. The invariant is `OnScreen`, that a focused session is in
  the terminal panel of a tab; what handlers share (`SwitchTo`, `NewTab`,
  `StartFiles`, `Restore`, `CloseCurrent`) is proved to keep it once, and every
  handler follows. `FirstIs` and `FirstExists` turn the two lists of precedence,
  `Owner` and `Panel`, into plain conditions, which the two theorems compare.
  Also type correctness, and `WaitsAreAnswered`, the part of `WayOut` that does not
  speak of ENABLED: a dialog that takes no keys waits for a message that is on
  its way. `Waits` is inductive only as an equivalence: an answer of the vault
  that nobody waits for would reopen a gate that has nothing to go on to.
  The rest of `WayOut` is proved with guards in place of ENABLED:
  `SomeKeyLeadsBack`, that the keyboard belongs to the list, to a dialog that waits for
  such a message, or to somebody with a key to step back (`CanStepBack`); and
  `StepsLeadBack`, that every step back lowers `Left`, the number of dialogs in the way
  and of the focus, so a run of them ends.
* **UiProofs**, of `Keymap` (`TableAssumption`, `FilesAssumption`): type correctness and
  `AppliedAsTold`, for every table whose defaults do not collide (see below) and every
  file. `HalfWay` is the invariant of the walk: what was sent back so far is what
  the clashes visited so far met, and `keys` and `problems` are functions of that
  set. So nothing remembers the order, and at the end every clash was visited:
  `RejectedIsMet` says that these are the actions `Rejected` names. What a key does is
  more than what the bindings list: `KeyDoesOrIsOverruled` shows, for a line nothing is
  reported of, that any other binding of its key has it by default and was sent back
  to it, so that its own line is reported: what is listed of lines and problems
  (`LinesListed`) then gives `RefusalsReported`.
  `LeftoversAreDefaults` rests on this, and on `DefaultsAssumption`, which says of the table
  what `TestNoDuplicateKeyInContext` (`ui/keymap_test.go:93`) tests: no two bindings of a
  context share a default. Of two bindings that end with one key, then, not both have it by
  default and not both from the file, since the clash was visited; so one was
  sent back to a default that a line of the file gives the other.
* **UiProofs**, of `Sidebar` (`SidebarAssumption`: no list uses an id twice, and no
  group is named twice): `SelectionStays` and `ListIsWhole`, for any lists, groups and
  order of calls. The invariant `SidebarOK` says that the rows are those of the
  servers, markers, folds and order in force, and that the cursor is on one. The work is
  in what `FlattenSeq` returns, which is defined by recursion over a sequence. The
  library's induction theorems take an operator, which the provers here cannot instantiate;
  `SetInduction` derives what is needed for a set, from the least number that is not in
  it. From there the lemmas say where each row stands in the part it came from, that a
  server is in one part only, and that the rows up to the cursor differ after `SetOpen`
  and `Fold` by a marker at most.
* **UiProofs**, of `Ui`: `UiConsistent`, from the three.
* **StoreProofs** (`StoreAssumption`, and the hypothesis `Serial`, that a user starts no
  command that saves while another does): `Consistent`, `AddsStay`, `AlwaysWhole` and
  `OneCommandAtATime`, the refinement of `ServerList`. `Store_torn` shows that the
  hypothesis is needed; commands that only read may overlap anything, and a crash or an
  error may come between any two steps. The invariant says of the one that saves
  (`Turn`) that what it is about to write is its own operation applied to what is on disk,
  that `servers.json.tmp` is the file it writes to, cut or whole as its counter says, and
  of `servers.json` (`Directory`) that it is whole and not that file. So the rename is the only step that
  changes the list, and is ServerList's step; every other stutters (`StepRefines`).
* **PanesProofs** (`PanesAssumption`): `Consistent` with `OneAtATime`, `ScanIsReal`,
  `NoLeakedConnection`, `PanesAreCurrent`, `PicksAreHere`, for any directories and any
  number of connections. What carries them is `Generations`: nothing is of a generation
  yet to come, so `startSFTP` makes everything under way an earlier connection's; and
  `OneJob`: a walk, a waiting transfer, a copy and a question about a delete of
  this connection exclude each other. `GenMoves`, `PaneMoves`, `LinkMoves` and `JobMoves` say once
  what any step does to each part of the state.

Only model-checked, and why:

* that `DeadLinkIsReported`, `EndIsReported`, `RetryHappens`, `PromptsEnd`,
  `AbandonedAreClosed` and `CancelEnds` follow from the theorems above and the fairness:
  out of this prover's reach;
* `WayOut` as it is stated, with ENABLED: likewise;
* `Store` without `Serial`, of which little holds.

Proved, and therefore not repeated in a run: `TypeOK` of `Tabs`, `Dial` and
`Migrate`, `GenerationsDistinct`, `SlotsAccounted`, `ActiveInRange`,
`ParkedNeedsUser`, `ChangedKeysRefused`, `AutoNeverAsks`, `NobodyHoldsAbandoned`,
`NoDanglingPath`, `BackedUpFirst`, and `FinalBytes`, which `OutputIsAStream` implies.

## 5. Disagreements between the code and its words

With a run (`PROJECT.json`, findings): two saves tear `servers.json`
(`Store_torn`); an unreadable key file lets the app save the passwords away
(`Migrate_unscanned`); backspace or `r` on a remote pane that is not connected
ends the program (`Panes_panic`).

Behaviours of the models, found with TLC and not kept as a run of their own:

* `ssh/session.go:172` says `Output` "is closed when the session ends". A pump
  blocked on the full channel when its tab is closed is never drained, and
  neither it nor the waiter nor the channel ever ends.
* `ssh/errors.go:27` counts "the transport dropped" as a lost connection. The
  waiter is woken first, with the library's missing exit status, and the tab is
  closed instead of reconnected.
* `ui/tabs.go:188` says `dialing` reports whether a connection is being made.
  Answering the passphrase question of an SFTP connection (`ui/unlock.go:394`)
  opens a tab, drops its dial and leaves it connecting for ever.
* `ssh/session.go:21` says `DialTimeout` bounds "the TCP + handshake phase". It
  bounds the TCP connection; a silent server holds the dial in the handshake.
* `ui/app.go:284` says `hostKeyAnsweredMsg` closes the panel that was answered.
  It closes whatever is there, another dial's question included.
* `sftp/transfer.go:118` says a failed or cancelled copy deletes the
  destination. A new connection closes the old one before the cancelled copy
  gets to remove its upload, which stays; so does a file renamed while it was
  copied, whose old name is what is removed; so does one whose removal the server or
  the disk refuses, an error that is ignored (lines 150 and 184); and one that a
  request to create it emptied, when the connection went before the answer came
  (line 142 removes nothing). `TornIsExplained` names these cases. Killing the program in the middle of a
  copy leaves one as well, and is not modelled.
* `sync/github.go:135` says a push refuses when the remote moved on. With a
  push and a pull of one device under way (`Patient = FALSE`), a late
  `syncPushedMsg` puts the new sha over an older list, and the next push drops
  entries nobody deleted: `ShaIsHonest` and `RemoteKeepsEntries` fail.
* `config/bundle.go:101` says `known_hosts` is never replaced wholesale. A key
  approved between the read and the rename of a pull is lost (`Patient =
  FALSE`): `KnownHostsKept` fails.
* `ui/sftp.go:37` says a mark kept over a change of directory would select the
  wrong file, so marks are cleared. A drag is not: one that is held while a
  listing lands transfers its names from the new directory. `PicksAreHere` does
  not hold of copies for that reason, and is stated of marks and deletes.

* `ui/app.go:94` says `confirm` "swallows every key that is not an answer to
  it", and `ui/app.go:1225` that the rename input is "the newest question on
  screen". Which of two open dialogs has
  the keyboard and which is drawn is decided in two places. A key's passphrase is
  asked for while the split view is up, where `sftpModal` does not draw it: the
  keyboard is dead but for a field nobody sees. A host key question that comes
  over a transfer waiting for its answer gets the next enter, which trusts a key
  that was never shown, because the panel shows the transfer. A rename, a waiting
  transfer or the card of a failed file connection keeps the keyboard when a
  click or a connection puts something else in the panel. And the help card is drawn
  over everything but the gate (lines 2153-2157), while the passphrase question comes
  before it for the keys (1179, 1186): with `n`, then `?` while the connection is being
  made, and a key that turns out to be locked (869), the card is on screen and what is
  typed goes to a passphrase field under it. These four are the exceptions of
  `AnsweredAsShown`, which is proved with them.
* `ui/app.go:1184` says nothing is stacked under the help card. A message may
  open a dialog while the card is up. The card is drawn over it; it has the keyboard
  too until it is closed, but not over the passphrase question.
* `ui/app.go:109` and `:119` say the import preview and the sync form are there
  only in their mode. Leaving the panel by a click, or a connection that takes
  it, leaves the form behind; its own message then restores a panel (`prevRight`)
  that may since be another server's.
* `ui/keymap.go:466` says the escape and the help card "may never be left without
  a key". `{"global.help": [], "global.quit": ["?"]}` is accepted: there is no
  clash while help has no key, its default comes back afterwards, and `?` quits.
  `{"session.escape": [], "session.scroll_up": ["ctrl+b"]}` does the same to the
  way out of a session, and a file whose clash sends an action back to a key that
  another line of the file uses leaves that key with two meanings.
  `LeftoversAreDefaults` says there is no other way.
* `ui/keymap.go:418` says a mistake in the file is "reported rather than swallowed".
  With `{"global.help": ["q"], "global.quit": ["x", "x"]}` the second line is refused and
  reported, quit gets its `q` back, and `q` quits; the line for help is not honoured and
  nothing is reported of it. `RefusalsReported` excepts this case, a line overruled by
  the defaults of one that is reported (`Overruled`), and TLC finds it when it does not.
* `ui/unlock.go:313` says the gate comes up when there is "something in the clear that
  must not stay that way". After `--pull` it does not (line 319). `ApplyBundle` has
  replaced the list and `SaveSecrets` the vault by then. What was never migrated is
  passed over: key files stay in `keys/` in the clear with nothing that names them
  (unless a path of the bundle's list does), and passwords are left in `ssh-client.local.bak` alone, until the next pull
  overwrites it. `config/bundle.go:21` calls that file what makes "an unwanted pull
  undoable"; the secrets of the vault it replaces are not in it. `NothingLost` and
  `UnlockedHoldsAll` name what a pull passed over (`dropped`) or replaced (`replaced`).

Seen while modelling:

* `ui/app.go:848`: a first connection that fails in the background takes the
  panel and the focus of whoever is typing in another session.
* `ui/app.go:772`: a save that ends closes whatever form is open by then.
* `ui/app.go:1303` submits the form again on a second enter, and a new server is
  added twice.
* `ui/app.go:1464`: with the recent-first order, or after a save or a sync,
  another server is under the cursor than before; a filter's results are reset
  by the same reload.
* `ui/keymap.go:532`: which key the problem of an action quotes depends on the
  order of a Go map.
* `ui/app.go:1559` starts writes of `ui.json` that nothing orders; the last one
  to be written need not be the last one started.

* `ssh/errors.go:28` calls a lost connection "deliberately distinct from a clean
  remote exit"; a keepalive that fails between `sess.Wait` returning and the
  waiter recording it turns the one into the other.
* `ui/app.go:150` says the error card needs `lastAttempt`; with two connects in
  flight it is the one started last, not the one that failed.
* `ui/tabs.go:188` says `dialing` tells a question somebody waits for from one
  of an abandoned attempt; it asks whether *anything* is dialling.
* `ui/app.go:1462` says `markUsed` costs a sort key at most; it writes the whole
  entry captured when the session came up, over an edit saved in between.
* `config/migrate.go:105` says the migration removes the originals; a crash
  between rewriting the list and unlinking leaves key files nothing names.
* `config/migrate.go:14` calls the backup the copy that must not be lost; a
  migration run again after the list was rewritten overwrites it.

## 6. Plan

1. *Done*: `Tabs`, `Dial`, `Session` with `Stream`, `Store` with `ServerList`,
   `Migrate`, `Panes`, `Transfer`, `Sync`, `App`, `Keymap`, `Sidebar`, `Ui`; proofs of the
   safety of all of them, of what their liveness rests on, that `Session` implements
   `Stream`, and `Store` `ServerList` under `Serial`.
2. Proofs: what `Store` keeps without `Serial`, such as what a crash may leave.
3. Abstract specifications: a transfer as an atomic replacement that may leave a
   marked partial file, with `Transfer` shown to implement it; the repository as
   a register with compare-and-set, with `Sync` over it.
4. A vault whose writes overlap, as `Store`'s do.

## 7. Not modelled

`age` encryption, the agent socket, parsing of `ssh_config` and JSON, drawing
(emulator, help, cards, styles), the editing of fields, the list's filter, the
writing of `ui.json`, quitting, resizing and the text selection, which of the two
file panes has the focus, and everything the plan names. Terminal geometry reaches no state another operation reads; its
races are listed as a hazard.
