------------------------------ MODULE Migrate ------------------------------
(***************************************************************************)
(* Starting up, the lock screen and the migration of cleartext secrets:    *)
(* ScanPlaintext and Migrate of internal/config/migrate.go, LoadSecrets    *)
(* and SaveSecrets of internal/config/vaultstore.go, the unlock gate of    *)
(* internal/ui/unlock.go, and the two ways a bundle replaces what is here: *)
(* a start with --pull (bootstrap of main.go) and applyPullCmd of          *)
(* internal/ui/sync.go.                                                    *)
(*                                                                         *)
(* A file of the config directory is the set of servers whose secret it    *)
(* holds.  The program may be killed between any two steps, and any write  *)
(* may fail; a file written through a temporary name is replaced at once.  *)
(* Two servers' secrets never affect each other, so a secret is only there *)
(* or not there.                                                           *)
(***************************************************************************)
EXTENDS Naturals, FiniteSets

CONSTANTS
    WithPw,  \* servers with a password in the servers.json of before v6
    WithKey  \* servers with a private key of ours in keys/

VARIABLES
    \* The config directory.
    listPw, listKey, \* servers.json: entries with a password, with a path
                     \* into keys/
    pems,       \* the files in keys/
    vault,      \* the sealed vault: [made, pw, key]
    backup,     \* passwords in servers.json.plaintext.bak
    localBackup, \* passwords in ssh-client.local.bak
    \* History.
    blind,      \* a startup scan that was needed has failed
    dropped,    \* secrets in the clear whose list a pull replaced
    replaced,   \* secrets of a vault that a pull replaced
    \* The program.
    phase,      \* "boot" (--pull), "scan", "gate", "busy" (u.busy), "ready",
                \* "stopped"
    mode,       \* "open" or "create"
    pt,         \* unlockState.plaintext: [pw, key]
    after,      \* unlockState.after is set: the gate came up mid-session
    attempts,   \* unlockState.attempt
    pass,       \* App.pass is set
    secrets,    \* App.secrets
    \* unlockCmd and createVaultCmd; bootstrap and applyPullCmd.
    step,       \* program counter
    sec,        \* the command's secrets
    answer      \* unlockedMsg: "ok", "bad" passphrase, "failed"

diskVars == <<listPw, listKey, pems, vault, backup, localBackup>>
history == <<blind, dropped, replaced>>
gateVars == <<mode, pt, after, attempts>>
appVars == <<pass, secrets>>
cmdVars == <<step, sec, answer>>
vars == <<diskVars, history, phase, gateVars, appVars, cmdVars>>

Secrets == [pw : SUBSET WithPw, key : SUBSET WithKey]
None == [pw |-> {}, key |-> {}]
Any(s) == s.pw # {} \/ s.key # {}
maxUnlockAttempts == 3

TypeOK ==
    /\ listPw \subseteq WithPw /\ listKey \subseteq WithKey
    /\ pems \subseteq WithKey /\ backup \subseteq WithPw
    /\ vault \in [made : BOOLEAN, pw : SUBSET WithPw, key : SUBSET WithKey]
    /\ localBackup \subseteq WithPw
    /\ blind \in BOOLEAN /\ dropped \in Secrets /\ replaced \in Secrets
    /\ phase \in {"boot", "scan", "gate", "busy", "ready", "stopped"}
    /\ mode \in {"open", "create"}
    /\ pt \in Secrets /\ after \in BOOLEAN
    /\ attempts \in 0..maxUnlockAttempts
    /\ pass \in BOOLEAN /\ secrets \in Secrets
    /\ step \in {"none", "load", "backup", "seal", "list", "unlink", "answer",
                "fetch", "copy", "replace", "reseal", "hand"}
    /\ sec \in Secrets
    /\ answer \in {"ok", "bad", "failed"}

(* The first start of this version: everything is in the clear, and a      *)
(* vault may exist all the same (a list edited by hand).                   *)
Init ==
    /\ listPw = WithPw /\ listKey = WithKey /\ pems = WithKey
    /\ backup = {} /\ localBackup = {}
    /\ vault \in [made : BOOLEAN, pw : {{}}, key : {{}}]
    /\ blind = FALSE /\ dropped = None /\ replaced = None
    /\ phase \in {"boot", "scan"} /\ mode = "open" /\ pt = None
    /\ after = FALSE /\ attempts = 0
    /\ pass = FALSE /\ secrets = None
    /\ step = (IF phase = "boot" THEN "fetch" ELSE "none")
    /\ sec = None /\ answer = "ok"

-----------------------------------------------------------------------------
(* The lock screen.                                                        *)

(* No gate is up, and no command runs.                                     *)
NoLock == mode' = "open" /\ pt' = None /\ after' = FALSE /\ attempts' = 0
Idle == step' = "none" /\ sec' = None /\ answer' = "ok"

(* newUnlock.                                                              *)
Lock(m, p, then) ==
    /\ phase' = "gate" /\ mode' = m /\ pt' = p /\ after' = then
    /\ attempts' = 0

Found == [pw |-> listPw, key |-> listKey \cap pems]

(* scanStartup and gateStartup, which ignores the scan after --pull.       *)
ScanStartup ==
    /\ phase = "scan"
    /\ \/ /\ pass \/ (~vault.made /\ ~Any(Found))
          /\ phase' = "ready" /\ UNCHANGED gateVars
       \/ ~pass /\ vault.made /\ Lock("open", Found, FALSE)
       \/ ~pass /\ ~vault.made /\ Any(Found) /\ Lock("create", Found, FALSE)
    /\ UNCHANGED <<diskVars, history, appVars, cmdVars>>

(* A scan that fails is reported, and no gate goes up.                     *)
ScanFails ==
    /\ phase = "scan" /\ listKey # {}
    /\ phase' = "ready" /\ blind' = (blind \/ ~pass)
    /\ UNCHANGED <<diskVars, dropped, replaced, gateVars, appVars, cmdVars>>

(* requireVault: the first secret is about to be stored.                   *)
RequireVault ==
    /\ phase = "ready" /\ ~pass
    /\ Lock(IF vault.made THEN "open" ELSE "create", None, TRUE)
    /\ UNCHANGED <<diskVars, history, appVars, cmdVars>>

(* esc: the startup gate has nothing behind it to go back to.              *)
Cancel ==
    /\ phase = "gate" /\ after
    /\ phase' = "ready" /\ NoLock
    /\ UNCHANGED <<diskVars, history, appVars, cmdVars>>

(* submitUnlock.  createVaultCmd starts from empty secrets, also when it   *)
(* is run again after a failure.                                           *)
Submit ==
    /\ phase = "gate" /\ phase' = "busy"
    /\ sec' = None
    /\ step' = CASE mode = "open" -> "load"
                 [] mode = "create" -> IF Any(pt) THEN "backup" ELSE "seal"
    /\ UNCHANGED <<diskVars, history, gateVars, appVars, answer>>

Quit ==
    /\ phase \in {"gate", "ready"} /\ phase' = "stopped" /\ Idle
    /\ UNCHANGED <<diskVars, history, gateVars, appVars>>

-----------------------------------------------------------------------------
(* The command.                                                            *)

Answer(a) == step' = "answer" /\ answer' = a

(* Mutant: a vault that exists is taken to be migrated already.            *)
LoadOnly ==
    /\ step = "load"
    /\ \/ Answer("bad") /\ UNCHANGED sec
       \/ sec' = [pw |-> vault.pw, key |-> vault.key] /\ Answer("ok")
    /\ UNCHANGED <<diskVars, history, phase, gateVars, appVars>>

(* Mutant: the passphrase is taken and what it opens is not.               *)
LoadNothing ==
    /\ step = "load"
    /\ \/ Answer("bad") /\ UNCHANGED sec
       \/ /\ sec' = None
          /\ IF Any(pt) THEN step' = "backup" /\ UNCHANGED answer
                        ELSE Answer("ok")
    /\ UNCHANGED <<diskVars, history, phase, gateVars, appVars>>

(* LoadSecrets, with the passphrase right or wrong.                        *)
LoadSecrets ==
    /\ step = "load"
    /\ \/ Answer("bad") /\ UNCHANGED sec
       \/ /\ sec' = [pw |-> vault.pw, key |-> vault.key]
          /\ IF Any(pt) THEN step' = "backup" /\ UNCHANGED answer
                        ELSE Answer("ok")
    /\ UNCHANGED <<diskVars, history, phase, gateVars, appVars>>

(* Mutant: the originals go first and the vault is sealed last (here: not  *)
(* at all, as after a crash in the middle).                                *)
BackupThenList ==
    /\ step = "backup"
    /\ backup' = listPw
    /\ step' = "list"
    /\ UNCHANGED <<history, listPw, listKey, pems, vault, localBackup, phase,
                   gateVars, appVars, sec, answer>>

(* 1. Keep a copy of what is about to be destroyed.                        *)
WriteBackup ==
    /\ step = "backup"
    /\ backup' = listPw
    /\ step' = "seal"
    /\ UNCHANGED <<history, listPw, listKey, pems, vault, localBackup, phase,
                   gateVars, appVars, sec, answer>>

(* 2. Fill the vault and seal it.                                          *)
Seal ==
    /\ step = "seal"
    /\ sec' = [pw |-> sec.pw \cup pt.pw, key |-> sec.key \cup pt.key]
    /\ vault' = [made |-> TRUE, pw |-> sec'.pw, key |-> sec'.key]
    /\ IF Any(pt) THEN step' = "list" /\ UNCHANGED answer ELSE Answer("ok")
    /\ UNCHANGED <<history, listPw, listKey, pems, backup, localBackup, phase,
                   gateVars, appVars>>

(* 3. Rewrite the list without the secrets.                                *)
RewriteList ==
    /\ step = "list"
    /\ listPw' = {} /\ listKey' = listKey \ pt.key
    /\ step' = "unlink"
    /\ UNCHANGED <<history, pems, vault, backup, localBackup, phase, gateVars,
                   appVars, sec, answer>>

(* 4. Now the originals can go: one file after the other.                  *)
Unlink ==
    /\ step = "unlink"
    /\ \/ /\ \E s \in pt.key \cap pems : pems' = pems \ {s}
          /\ UNCHANGED <<step, answer>>
       \/ pt.key \cap pems = {} /\ Answer("ok") /\ UNCHANGED pems
    /\ UNCHANGED <<history, listPw, listKey, vault, backup, localBackup, phase,
                   gateVars, appVars, sec>>

(* Any read or write of the command may fail; nothing is undone.           *)
IoError ==
    /\ step \in {"load", "backup", "seal", "list", "unlink"}
    /\ Answer("failed")
    /\ UNCHANGED <<diskVars, history, phase, gateVars, appVars, sec>>

(* unlockedMsg: applyUnlocked.                                             *)
ApplyUnlocked ==
    /\ step = "answer" /\ Idle
    /\ \/ /\ answer = "ok"
          /\ pass' = TRUE /\ secrets' = sec /\ phase' = "ready" /\ NoLock
       \/ /\ answer = "bad"
          /\ attempts' = attempts + 1
          /\ phase' = IF attempts' < maxUnlockAttempts THEN "gate" ELSE "stopped"
          /\ UNCHANGED <<mode, pt, after, appVars>>
       \/ answer = "failed" /\ phase' = "gate" /\ UNCHANGED <<gateVars, appVars>>
    /\ UNCHANGED <<diskVars, history>>

-----------------------------------------------------------------------------
(* Past the gate: any command that saves the list writes it without        *)
(* passwords, which model.Server no longer has; persistSecrets seals what  *)
(* the UI holds.                                                           *)
SaveList ==
    /\ phase = "ready"
    /\ listPw' = {}
    /\ UNCHANGED <<history, listKey, pems, vault, backup, localBackup, phase,
                   gateVars, appVars, cmdVars>>

PersistSecrets ==
    /\ phase = "ready" /\ pass
    /\ vault' = [made |-> TRUE, pw |-> secrets.pw, key |-> secrets.key]
    /\ UNCHANGED <<history, listPw, listKey, pems, backup, localBackup, phase,
                   gateVars, appVars, cmdVars>>

-----------------------------------------------------------------------------
(* A pull: bootstrap, before the UI exists, and applyPullCmd, beside it.   *)

(* The user confirms what was fetched; one pull at a time (Sync has        *)
(* several).                                                               *)
StartPull ==
    /\ phase = "ready" /\ pass /\ step = "none"
    /\ step' = "copy"
    /\ UNCHANGED <<diskVars, history, phase, gateVars, appVars, sec, answer>>

(* bootstrap opens the vault if there is one, fetches and decrypts.        *)
Bootstrap ==
    /\ step = "fetch" /\ step' = "copy"
    /\ UNCHANGED <<diskVars, history, phase, gateVars, appVars, sec, answer>>

(* ApplyBundle: the copy of the list first.                                *)
CopyList ==
    /\ step = "copy" /\ step' = "replace"
    /\ localBackup' = listPw
    /\ UNCHANGED <<history, listPw, listKey, pems, vault, backup, phase,
                   gateVars, appVars, sec, answer>>

Less(s, t) == [pw |-> s.pw \ t.pw, key |-> s.key \ t.key]
Plus(s, t) == [pw |-> s.pw \cup t.pw, key |-> s.key \cup t.key]

(* The bundle's list, with no passwords but maybe with paths into keys/,   *)
(* and the bundle's secrets.  What stood in the clear is looked at by      *)
(* nobody.                                                                 *)
ReplaceList ==
    /\ step = "replace" /\ step' = "reseal"
    /\ listPw' = {} /\ listKey' \in SUBSET WithKey
    /\ sec' \in Secrets
    /\ dropped' = Plus(dropped, Less(Found, vault))
    /\ UNCHANGED <<blind, replaced, pems, vault, backup, localBackup, phase,
                   gateVars, appVars, answer>>

(* SaveSecrets seals the bundle's secrets in place of those that were.     *)
Reseal ==
    /\ step = "reseal" /\ step' = "hand"
    /\ vault' = [made |-> TRUE, pw |-> sec.pw, key |-> sec.key]
    /\ replaced' = Plus(replaced, Less(vault, sec))
    /\ UNCHANGED <<blind, dropped, listPw, listKey, pems, backup, localBackup,
                   phase, gateVars, appVars, sec, answer>>

(* App.Unlocked, or syncAppliedMsg.                                        *)
HandOver ==
    /\ step = "hand" /\ Idle
    /\ pass' = TRUE /\ secrets' = sec
    /\ phase' = IF phase = "boot" THEN "scan" ELSE phase
    /\ UNCHANGED <<diskVars, history, gateVars>>

(* Any request, read or write may fail.  The start ends there; the UI      *)
(* reports it.                                                             *)
PullFails ==
    /\ step \in {"fetch", "copy", "replace", "reseal"} /\ Idle
    /\ phase' = IF phase = "boot" THEN "stopped" ELSE phase
    /\ UNCHANGED <<diskVars, history, gateVars, appVars>>

-----------------------------------------------------------------------------
(* The program starts again after it quit, or after it was killed anywhere. *)
Restart ==
    /\ phase' \in {"boot", "scan"} /\ pass' = FALSE /\ secrets' = None
    /\ step' = (IF phase' = "boot" THEN "fetch" ELSE "none")
    /\ sec' = None /\ answer' = "ok" /\ NoLock
    /\ UNCHANGED <<diskVars, history>>

Gate == ScanStartup \/ ScanFails \/ RequireVault \/ Cancel \/ Submit \/ Quit
Command ==
    \/ LoadSecrets \/ WriteBackup \/ Seal \/ RewriteList \/ Unlink \/ IoError
    \/ ApplyUnlocked

Pull ==
    \/ StartPull \/ Bootstrap \/ CopyList \/ ReplaceList \/ Reseal \/ HandOver
    \/ PullFails

Next == Gate \/ Command \/ Pull \/ SaveList \/ PersistSecrets \/ Restart

Spec == Init /\ [][Next]_vars

-----------------------------------------------------------------------------
(* Properties.                                                             *)

(* "Reversing it would mean a crash in the middle loses the secrets        *)
(* outright": wherever the program is killed and whatever fails, every     *)
(* private key is still in keys/ or sealed in the vault, also when a       *)
(* startup scan failed and the program went on without it.  Only a vault   *)
(* that a pull replaced takes keys with it, and none of those in keys/.    *)
KeysKept == WithKey \subseteq pems \cup vault.key \cup replaced.key

(* Every password is still in the list or sealed in the vault, the backups *)
(* not counted, or was there when a pull replaced the one or the other.    *)
PasswordsKept ==
    WithPw \subseteq listPw \cup vault.pw \cup dropped.pw \cup replaced.pw

(* As long as every startup scan that was needed could be read, no crash,  *)
(* failure, retry or restart loses a password, and a pull only those it    *)
(* found in the list or the vault and its bundle does not have.            *)
NothingLost == ~blind => PasswordsKept

(* "or it would point at a file we are about to unlink": no file of keys/  *)
(* is removed while the list names it.                                     *)
NoDanglingPath == [][(pems \ pems') \cap listKey = {}]_vars

(* Once past the gate with a passphrase, the UI holds every secret there   *)
(* was: no order of failures, retries and restarts unlocks a vault that is *)
(* short of one, which the next persistSecrets would make final.  What a   *)
(* pull passed over or replaced is the exception, and nothing else is.     *)
UnlockedHoldsAll ==
    ~blind /\ pass =>
        /\ WithPw \subseteq secrets.pw \cup dropped.pw \cup replaced.pw
        /\ WithKey \subseteq secrets.key \cup dropped.key \cup replaced.key

(* "Keep a copy of what is about to be destroyed": a step that removes     *)
(* passwords from the list leaves them in one of the two backups.          *)
BackedUpFirst ==
    [][~blind => listPw \ listPw' \subseteq backup' \cup localBackup']_vars

(* "automatic, but not destructive" (docs/V6_plan.md:73) is PasswordsKept  *)
(* without its condition, and the code does not keep it: after a scan that *)
(* failed, a save of the list drops passwords that were never moved.       *)
=============================================================================
