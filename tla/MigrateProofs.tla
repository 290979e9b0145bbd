--------------------------- MODULE MigrateProofs ---------------------------
(***************************************************************************)
(* Migrate, for any set of servers and secrets: no crash, failure, retry   *)
(* or restart loses a private key of the configuration before v6, nor a    *)
(* password as long as every startup scan could be read, but for what a    *)
(* pull put a bundle in the place of.                                      *)
(***************************************************************************)
EXTENDS Migrate, TLAPS

(* Where the program counter may be: of an unlock, and of a pull.          *)
Unlocking == {"load", "backup", "seal", "list", "unlink", "answer"}
Pulling == {"fetch", "copy", "replace", "reseal", "hand"}

(* What is true of private keys, whatever the startup scans could read.    *)
(* A gate that makes a new vault holds all that an earlier try of it has   *)
(* sealed, only what is sealed leaves keys/, and what the UI holds, or is  *)
(* about to be given, is no less than what a vault has to hold.            *)
KeysSealed ==
    /\ ~vault.made => vault.pw = {} /\ vault.key = {}
    /\ phase \in {"gate", "busy"} /\ mode = "create" =>
          vault.pw \subseteq pt.pw /\ vault.key \subseteq pt.key
    /\ phase = "busy" <=> step \in Unlocking
    /\ phase \in {"gate", "busy"} /\ after => ~Any(pt)
    /\ phase = "boot" => ~pass
    /\ step = "load" => mode = "open"
    /\ step \in {"backup", "list", "unlink"} => Any(pt)
    /\ step \in {"backup", "seal"} /\ mode = "create" =>
          sec.pw \subseteq pt.pw /\ sec.key \subseteq pt.key
    /\ step \in {"backup", "seal"} =>
          /\ vault.pw \subseteq sec.pw \cup pt.pw
          /\ vault.key \subseteq sec.key \cup pt.key
    /\ step \in {"list", "unlink"} =>
          sec.pw = vault.pw /\ sec.key = vault.key /\ pt.key \subseteq vault.key
    /\ step = "unlink" => listKey \cap pt.key = {}
    /\ step = "answer" /\ answer = "ok" =>
          sec.pw = vault.pw /\ sec.key = vault.key
    /\ step = "hand" => WithKey \subseteq pems \cup sec.key \cup replaced.key
    /\ pass => /\ phase \in {"scan", "ready", "stopped"}
               /\ WithKey \subseteq pems \cup secrets.key \cup replaced.key

(* As long as the scans could be read, a gate holds everything that is     *)
(* still in the clear and neither in the vault nor passed over by a pull.  *)
GateCovers ==
    phase \in {"gate", "busy"} =>
        /\ listPw \subseteq pt.pw
        /\ pems \subseteq pt.key \cup vault.key \cup dropped.key \cup replaced.key

(* What is left in the clear and no longer named by the list is sealed, or *)
(* was passed over.                                                        *)
Sealed ==
    pems \subseteq listKey \cup vault.key \cup dropped.key \cup replaced.key

(* Past the gate without a passphrase there was nothing to migrate.        *)
NoVaultYet ==
    ~vault.made /\ listPw = {} /\ pems \subseteq dropped.key \cup replaced.key

Passed ==
    /\ phase = "ready" \/ (phase = "scan" /\ pass) => listPw = {}
    /\ phase = "ready" /\ ~pass => NoVaultYet
    /\ phase = "gate" /\ after => NoVaultYet
    /\ phase = "busy" /\ after /\ ~(step = "answer" /\ answer = "ok") => NoVaultYet

(* A set of secrets that is short of nothing but what a pull replaced or   *)
(* passed over.                                                            *)
Full(s) ==
    /\ WithPw \subseteq s.pw \cup dropped.pw \cup replaced.pw
    /\ WithKey \subseteq s.key \cup dropped.key \cup replaced.key

(* What the commands have done by each of their steps.                     *)
Progress ==
    /\ step \in {"seal", "list"} => listPw \subseteq backup
    /\ step \in {"list", "unlink"} => Full(sec)
    /\ step = "unlink" => listPw = {}
    /\ step = "answer" /\ answer = "ok" => Full(vault) /\ listPw = {}
    /\ step = "replace" => listPw \subseteq localBackup
    /\ step = "reseal" =>
          /\ listPw = {}
          /\ pems \subseteq vault.key \cup dropped.key \cup replaced.key
    /\ step = "hand" => listPw = {} /\ Full(sec)

Scanned ==
    /\ PasswordsKept /\ GateCovers /\ Sealed /\ Passed /\ Progress
    /\ pass => Full(secrets)

(* A wrong passphrase is only ever counted on a gate that is still up.     *)
Counted ==
    /\ attempts < maxUnlockAttempts \/ phase = "stopped"
    /\ step \in Unlocking => phase = "busy"
    /\ step \in Pulling => phase = "boot" \/ (phase = "ready" /\ pass)

KInv == TypeOK /\ Counted /\ KeysKept /\ KeysSealed

IInv == KInv /\ (~blind => Scanned)

-----------------------------------------------------------------------------
(* No secrets at all are secrets.                                          *)
LEMMA NoneType == None \in Secrets
  BY DEF None, Secrets

(* The first start.                                                        *)
LEMMA Start == Init => IInv
  <1> SUFFICES ASSUME Init PROVE IInv
    OBVIOUS
  <1> USE DEF Init
  <1>1. vault \in [made : BOOLEAN, pw : SUBSET WithPw, key : SUBSET WithKey]
        /\ vault.pw = {} /\ vault.key = {}
    OBVIOUS
  <1>2. TypeOK /\ Counted
    <2>1. pt \in Secrets /\ secrets \in Secrets /\ sec \in Secrets
      BY NoneType
    <2>2. attempts \in 0..maxUnlockAttempts /\ attempts < maxUnlockAttempts
      BY DEF maxUnlockAttempts
    <2>3. backup \subseteq WithPw /\ after \in BOOLEAN /\ pass \in BOOLEAN
          /\ localBackup \subseteq WithPw
      OBVIOUS
    <2>4. dropped \in Secrets /\ replaced \in Secrets
      BY NoneType
    <2>5. step \in {"fetch", "none"} /\ (step = "fetch" => phase = "boot")
      OBVIOUS
    <2>6. Counted
      BY <2>2, <2>5 DEF Counted, Unlocking, Pulling
    <2>7. TypeOK
      BY <1>1, <2>1, <2>2, <2>3, <2>4, <2>5, Zenon DEF TypeOK
    <2> QED
      BY <2>6, <2>7
  <1>3. KeysKept /\ KeysSealed
    BY <1>1 DEF KeysKept, KeysSealed, Unlocking, Pulling
  <1>4. Scanned
    BY <1>1 DEF Scanned, PasswordsKept, GateCovers, Sealed, Passed, Progress, Full
  <1> QED
    BY <1>2, <1>3, <1>4 DEF IInv, KInv

(* The types are kept by every step.                                       *)
LEMMA Types == TypeOK /\ Counted /\ [Next]_vars => TypeOK' /\ Counted'
  <1> SUFFICES ASSUME TypeOK, Counted, [Next]_vars PROVE TypeOK' /\ Counted'
    OBVIOUS
  <1>f. TypeOK => Found \in Secrets
    BY DEF TypeOK, Found, Secrets
  <1>n. NoLock => /\ attempts' \in 0..3 /\ attempts' < 3 /\ pt' \in Secrets
                  /\ after' \in BOOLEAN /\ mode' \in {"open", "create"}
    <2>1. NoLock => attempts' \in 0..3 /\ attempts' < 3
      BY DEF NoLock
    <2>2. NoLock => /\ pt' \in Secrets /\ after' \in BOOLEAN
                    /\ mode' \in {"open", "create"}
      BY NoneType DEF NoLock
    <2> QED
      BY <2>1, <2>2
  <1>i. Idle => step' = "none" /\ sec' \in Secrets /\ answer' = "ok"
    BY NoneType DEF Idle
  <1>l. ASSUME NEW m \in {"open", "create"}, NEW p \in Secrets, NEW b \in BOOLEAN,
               Lock(m, p, b)
        PROVE  /\ phase' = "gate" /\ attempts' \in 0..3 /\ attempts' < 3
               /\ pt' \in Secrets /\ after' \in BOOLEAN
               /\ mode' \in {"open", "create"}
    BY <1>l DEF Lock
  <1> USE DEF TypeOK, Counted, maxUnlockAttempts, diskVars, history,
                       gateVars, appVars, cmdVars, Unlocking, Pulling
  <1>1. CASE ScanStartup
    <2>1. CASE phase' = "ready" /\ UNCHANGED gateVars
      BY <1>1, <2>1 DEF ScanStartup
    <2>2. CASE \E m \in {"open", "create"} : Lock(m, Found, FALSE)
      <3>1. phase' = "gate" /\ mode' \in {"open", "create"} /\ pt' \in Secrets
            /\ after' \in BOOLEAN /\ attempts' \in 0..3 /\ attempts' < 3
        BY <1>f, <1>l, <2>2
      <3>2. UNCHANGED <<diskVars, history, appVars, cmdVars>> /\ step = "none"
        BY <1>1 DEF ScanStartup
      <3> QED
        BY <3>1, <3>2
    <2> QED
      BY <1>1, <2>1, <2>2 DEF ScanStartup
  <1>2. CASE ScanFails
    BY <1>2 DEF ScanFails
  <1>3. CASE RequireVault
    <2>1. /\ phase' = "gate" /\ attempts' \in 0..3 /\ attempts' < 3
          /\ pt' \in Secrets /\ after' \in BOOLEAN
          /\ mode' \in {"open", "create"}
      BY <1>3, <1>l, NoneType DEF RequireVault
    <2>2. UNCHANGED <<diskVars, history, appVars, cmdVars>>
      BY <1>3 DEF RequireVault
    <2>3. step' \notin Unlocking /\ step' \notin Pulling
      <3>1. phase = "ready" /\ ~pass
        BY <1>3 DEF RequireVault
      <3> QED
        BY <2>2, <3>1
    <2> QED
      BY <2>1, <2>2, <2>3
  <1>4. CASE Cancel
    <2>1. UNCHANGED <<diskVars, history, appVars, cmdVars>> /\ phase = "gate"
          /\ phase' = "ready"
      BY <1>4 DEF Cancel
    <2>2. NoLock
      BY <1>4 DEF Cancel
    <2> QED
      BY <1>n, <2>1, <2>2
  <1>5. CASE Submit
    BY <1>5, NoneType DEF Submit
  <1>6. CASE Quit
    BY <1>6, <1>i DEF Quit
  <1>7. CASE LoadSecrets
    BY <1>7 DEF LoadSecrets, Answer, Secrets
  <1>8. CASE WriteBackup
    BY <1>8 DEF WriteBackup
  <1>9. CASE Seal
    BY <1>9 DEF Seal, Answer, Secrets
  <1>10. CASE RewriteList
    BY <1>10 DEF RewriteList
  <1>11. CASE Unlink
    BY <1>11 DEF Unlink, Answer
  <1>12. CASE IoError
    BY <1>12 DEF IoError, Answer
  <1>13. CASE ApplyUnlocked
    <2>1. UNCHANGED <<diskVars, history>> /\ Idle /\ phase = "busy"
          /\ attempts \in 0..3 /\ attempts < 3
      BY <1>13 DEF ApplyUnlocked
    <2>2. CASE pass' = TRUE /\ secrets' = sec /\ phase' = "ready" /\ NoLock
      BY <1>i, <1>n, <2>1, <2>2
    <2>3. CASE /\ attempts' = attempts + 1
               /\ phase' = IF attempts' < 3 THEN "gate" ELSE "stopped"
               /\ UNCHANGED <<mode, pt, after, appVars>>
      <3>1. attempts' \in 0..3 /\ (attempts' < 3 \/ phase' = "stopped")
            /\ phase' \in {"gate", "stopped"}
        BY <2>1, <2>3
      <3>2. UNCHANGED <<mode, pt, after, appVars>>
        BY <2>3
      <3> QED
        BY <1>i, <2>1, <3>1, <3>2
    <2>4. CASE phase' = "gate" /\ UNCHANGED <<gateVars, appVars>>
      BY <1>i, <2>1, <2>4
    <2> QED
      BY <1>13, <2>2, <2>3, <2>4 DEF ApplyUnlocked
  <1>14. CASE SaveList
    BY <1>14 DEF SaveList
  <1>15. CASE PersistSecrets
    <2>1. vault' \in [made : BOOLEAN, pw : SUBSET WithPw, key : SUBSET WithKey]
      <3>1. secrets.pw \in SUBSET WithPw /\ secrets.key \in SUBSET WithKey
        BY DEF Secrets
      <3> QED
        BY <1>15, <3>1 DEF PersistSecrets
    <2>2. UNCHANGED <<history, listPw, listKey, pems, backup, localBackup, phase,
                      gateVars, appVars, cmdVars>>
      BY <1>15 DEF PersistSecrets
    <2> QED
      BY <2>1, <2>2
  <1>16. CASE Restart
    <2>1. UNCHANGED <<diskVars, history>> /\ NoLock /\ secrets' = None
          /\ sec' = None /\ pass' = FALSE /\ answer' = "ok"
      BY <1>16 DEF Restart
    <2>2. (phase' = "boot" /\ step' = "fetch") \/ (phase' = "scan" /\ step' = "none")
      BY <1>16 DEF Restart
    <2>3. secrets' \in Secrets /\ sec' \in Secrets
      BY <2>1, NoneType
    <2> QED
      BY <1>n, <2>1, <2>2, <2>3
  <1>18. CASE StartPull \/ Bootstrap
    BY <1>18 DEF StartPull, Bootstrap
  <1>19. CASE CopyList
    BY <1>19 DEF CopyList
  <1>20. CASE ReplaceList
    <2>1. dropped' \in Secrets
      BY <1>20, <1>f DEF ReplaceList, Plus, Less, Secrets
    <2>2. sec' \in Secrets /\ listKey' \subseteq WithKey /\ listPw' = {}
      BY <1>20 DEF ReplaceList
    <2>3. UNCHANGED <<blind, replaced, pems, vault, backup, localBackup, phase,
                      gateVars, appVars, answer>>
          /\ step = "replace" /\ step' = "reseal"
      BY <1>20 DEF ReplaceList
    <2> QED
      BY <2>1, <2>2, <2>3
  <1>21. CASE Reseal
    <2>1. replaced' \in Secrets
      BY <1>21 DEF Reseal, Plus, Less, Secrets
    <2>2. vault' \in [made : BOOLEAN, pw : SUBSET WithPw, key : SUBSET WithKey]
      BY <1>21 DEF Reseal, Secrets
    <2>3. UNCHANGED <<blind, dropped, listPw, listKey, pems, backup, localBackup,
                      phase, gateVars, appVars, sec, answer>>
          /\ step = "reseal" /\ step' = "hand"
      BY <1>21 DEF Reseal
    <2> QED
      BY <2>1, <2>2, <2>3
  <1>22. CASE HandOver
    <2>1. UNCHANGED <<diskVars, history, gateVars>> /\ Idle /\ pass' = TRUE
          /\ secrets' = sec /\ phase \in {"boot", "ready"}
          /\ phase' \in {"scan", "ready"}
      BY <1>22 DEF HandOver
    <2> QED
      BY <1>i, <2>1
  <1>23. CASE PullFails
    <2>1. UNCHANGED <<diskVars, history, gateVars, appVars>> /\ Idle
          /\ phase \in {"boot", "ready"} /\ phase' \in {"stopped", "ready"}
      BY <1>23 DEF PullFails
    <2> QED
      BY <1>i, <2>1
  <1>24. CASE UNCHANGED vars
    BY <1>24 DEF vars
  <1> QED
    BY <1>1, <1>2, <1>3, <1>4, <1>5, <1>6, <1>7, <1>8, <1>9, <1>10, <1>11,
       <1>12, <1>13, <1>14, <1>15, <1>16, <1>18, <1>19, <1>20, <1>21, <1>22,
       <1>23, <1>24 DEF Next, Gate, Command, Pull

(* Every step keeps what is true of private keys.                          *)
LEMMA KeyStep == KInv /\ [Next]_vars => KInv'
  <1> SUFFICES ASSUME KInv, [Next]_vars PROVE KInv'
    OBVIOUS
  <1>t. TypeOK' /\ Counted'
    BY Types DEF KInv
  <1> USE DEF KInv, TypeOK, Counted, KeysKept, KeysSealed, Secrets, None, Any,
              diskVars, history, gateVars, appVars, cmdVars, NoLock, Idle,
              Unlocking, Pulling
  <1>1. CASE ScanStartup
    <2>0. CASE phase' = "ready" /\ pass /\ UNCHANGED gateVars
      BY <1>1, <1>t, <2>0 DEF ScanStartup
    <2>1. CASE phase' = "ready" /\ ~vault.made /\ ~Any(Found) /\ UNCHANGED gateVars
      <3>1. listPw = {} /\ listKey \cap pems = {}
        BY <2>1 DEF Found
      <3> QED
        BY <1>1, <1>t, <2>1, <3>1 DEF ScanStartup
    <2>2. CASE ~pass /\ ((vault.made /\ Lock("open", Found, FALSE))
                        \/ (~vault.made /\ Lock("create", Found, FALSE)))
      <3>1. phase' = "gate" /\ pt'.pw = listPw /\ pt'.key = listKey \cap pems
            /\ after' = FALSE /\ (mode' = "create" => ~vault.made)
        BY <2>2 DEF Lock, Found
      <3> QED
        BY <1>1, <1>t, <2>2, <3>1 DEF ScanStartup
    <2> QED
      BY <1>1, <2>0, <2>1, <2>2 DEF ScanStartup
  <1>2. CASE ScanFails
    BY <1>2, <1>t DEF ScanFails
  <1>3. CASE RequireVault
    BY <1>3, <1>t DEF RequireVault, Lock
  <1>4. CASE Cancel
    BY <1>4, <1>t DEF Cancel
  <1>5. CASE Submit
    BY <1>5, <1>t DEF Submit
  <1>6. CASE Quit
    BY <1>6, <1>t DEF Quit
  <1>7. CASE LoadSecrets
    BY <1>7, <1>t DEF LoadSecrets, Answer
  <1>8. CASE WriteBackup
    BY <1>8, <1>t DEF WriteBackup
  <1>9. CASE Seal
    <2>1. sec'.pw = sec.pw \cup pt.pw /\ sec'.key = sec.key \cup pt.key
          /\ vault'.made /\ vault'.pw = sec'.pw /\ vault'.key = sec'.key
      BY <1>9 DEF Seal
    <2>2. vault.pw \subseteq vault'.pw /\ vault.key \subseteq vault'.key
      BY <1>9, <2>1 DEF Seal
    <2>3. phase = "busy" /\ ~pass
      BY <1>9 DEF Seal
    <2>4. mode = "create" => sec'.pw \subseteq pt.pw /\ sec'.key \subseteq pt.key
      BY <1>9, <2>1, <2>3 DEF Seal
    <2>5. UNCHANGED <<listPw, listKey, pems, backup, localBackup, history, phase,
                      gateVars, appVars>>
      BY <1>9 DEF Seal
    <2>6. (step' = "list" /\ Any(pt)) \/ (step' = "answer" /\ ~Any(pt))
      BY <1>9 DEF Seal, Answer
    <2> QED
      BY <1>t, <2>1, <2>2, <2>3, <2>4, <2>5, <2>6
  <1>10. CASE RewriteList
    BY <1>10, <1>t DEF RewriteList
  <1>11. CASE Unlink
    BY <1>11, <1>t DEF Unlink, Answer
  <1>12. CASE IoError
    BY <1>12, <1>t DEF IoError, Answer
  <1>13. CASE ApplyUnlocked
    BY <1>13, <1>t DEF ApplyUnlocked
  <1>14. CASE SaveList
    BY <1>14, <1>t DEF SaveList
  <1>15. CASE PersistSecrets
    BY <1>15, <1>t DEF PersistSecrets
  <1>16. CASE Restart
    BY <1>16, <1>t DEF Restart
  <1>17. CASE StartPull
    BY <1>17, <1>t DEF StartPull
  <1>18. CASE Bootstrap
    BY <1>18, <1>t DEF Bootstrap
  <1>19. CASE CopyList
    BY <1>19, <1>t DEF CopyList
  <1>20. CASE ReplaceList
    <2>1. dropped'.pw = dropped.pw \cup (listPw \ vault.pw)
          /\ dropped'.key = dropped.key \cup ((listKey \cap pems) \ vault.key)
      BY <1>20 DEF ReplaceList, Plus, Less, Found
    <2>2. UNCHANGED <<blind, replaced, pems, vault, backup, localBackup, phase,
                      gateVars, appVars, answer>>
          /\ step = "replace" /\ step' = "reseal" /\ listPw' = {}
      BY <1>20 DEF ReplaceList
    <2> QED
      BY <1>t, <2>1, <2>2
  <1>21. CASE Reseal
    <2>1. replaced'.pw = replaced.pw \cup (vault.pw \ sec.pw)
          /\ replaced'.key = replaced.key \cup (vault.key \ sec.key)
          /\ vault'.made /\ vault'.pw = sec.pw /\ vault'.key = sec.key
      BY <1>21 DEF Reseal, Plus, Less
    <2>2. UNCHANGED <<blind, dropped, listPw, listKey, pems, backup, localBackup,
                      phase, gateVars, appVars, sec, answer>>
          /\ step = "reseal" /\ step' = "hand"
      BY <1>21 DEF Reseal
    <2>3. WithKey \subseteq pems \cup sec.key \cup replaced'.key
      BY ONLY KeysKept, <2>1 DEF KeysKept
    <2>4. KeysSealed'
      <3>1. phase \in {"boot", "ready"}
        BY <2>2
      <3> QED
        BY <2>1, <2>2, <2>3, <3>1
    <2> QED
      BY <1>t, <2>1, <2>2, <2>3, <2>4
  <1>22. CASE HandOver
    <2>1. UNCHANGED <<diskVars, history, gateVars>> /\ Idle /\ pass' = TRUE
          /\ secrets' = sec /\ step = "hand"
          /\ phase' = IF phase = "boot" THEN "scan" ELSE phase
      BY ONLY <1>22 DEF HandOver
    <2> QED
      BY <1>t, <2>1
  <1>23. CASE PullFails
    <2>1. UNCHANGED <<diskVars, history, gateVars, appVars>> /\ Idle
          /\ step \in {"fetch", "copy", "replace", "reseal"}
          /\ phase' = IF phase = "boot" THEN "stopped" ELSE phase
      BY ONLY <1>23 DEF PullFails
    <2> QED
      BY <1>t, <2>1
  <1>24. CASE UNCHANGED vars
    BY <1>24, <1>t DEF vars
  <1> QED
    BY <1>1, <1>2, <1>3, <1>4, <1>5, <1>6, <1>7, <1>8, <1>9, <1>10, <1>11,
       <1>12, <1>13, <1>14, <1>15, <1>16, <1>17, <1>18, <1>19, <1>20, <1>21,
       <1>22, <1>23, <1>24 DEF Next, Gate, Command, Pull

(* Every step keeps what the gate and its command know.                    *)
LEMMA ScannedStep ==
  ASSUME KInv, Scanned, ~blind', [Next]_vars
  PROVE  Scanned'
  <1>t. KInv'
    BY KeyStep
  <1> USE DEF KInv, TypeOK, Counted, KeysKept, KeysSealed, Scanned, Full, Idle,
              PasswordsKept, GateCovers, Sealed, Passed, NoVaultYet, Progress,
              Secrets, None, Any, diskVars, history, gateVars, appVars, cmdVars,
              NoLock, Unlocking, Pulling
  <1>1. CASE ScanStartup
    <2>0. CASE phase' = "ready" /\ pass /\ UNCHANGED gateVars
      BY <1>1, <1>t, <2>0 DEF ScanStartup
    <2>1. CASE phase' = "ready" /\ ~vault.made /\ ~Any(Found) /\ UNCHANGED gateVars
      <3>1. listPw = {} /\ listKey \cap pems = {}
        BY <2>1 DEF Found
      <3> QED
        BY <1>1, <1>t, <2>1, <3>1 DEF ScanStartup
    <2>2. CASE ~pass /\ ((vault.made /\ Lock("open", Found, FALSE))
                        \/ (~vault.made /\ Lock("create", Found, FALSE)))
      <3>1. phase' = "gate" /\ pt'.pw = listPw /\ pt'.key = listKey \cap pems
            /\ after' = FALSE /\ (mode' = "create" => ~vault.made)
        BY <2>2 DEF Lock, Found
      <3> QED
        BY <1>1, <1>t, <2>2, <3>1 DEF ScanStartup
    <2> QED
      BY <1>1, <2>0, <2>1, <2>2 DEF ScanStartup
  <1>2. CASE ScanFails
    BY <1>2, <1>t DEF ScanFails
  <1>3. CASE RequireVault
    BY <1>3, <1>t DEF RequireVault, Lock
  <1>4. CASE Cancel
    BY <1>4, <1>t DEF Cancel
  <1>5. CASE Submit
    BY <1>5, <1>t DEF Submit
  <1>6. CASE Quit
    BY <1>6, <1>t DEF Quit
  <1>7. CASE LoadSecrets
    <2>1. UNCHANGED <<diskVars, history, phase, gateVars, appVars>>
          /\ step = "load"
          /\ phase = "busy" /\ ~pass
      BY <1>7 DEF LoadSecrets
    <2>2. CASE step' = "backup"
      BY <1>t, <2>1, <2>2
    <2>3. CASE step' = "answer" /\ answer' # "ok"
      BY <1>t, <2>1, <2>3
    <2>4. CASE step' = "answer" /\ answer' = "ok" /\ ~Any(pt)
      <3>1. listPw = {} /\ Full(vault)
        BY <2>1, <2>4
      <3> QED
        BY <1>t, <2>1, <2>4, <3>1
    <2> QED
      BY <1>7, <2>2, <2>3, <2>4 DEF LoadSecrets, Answer
  <1>8. CASE WriteBackup
    BY <1>8, <1>t DEF WriteBackup
  <1>9. CASE Seal
    <2>1. sec'.pw = sec.pw \cup pt.pw /\ sec'.key = sec.key \cup pt.key
          /\ vault'.made /\ vault'.pw = sec'.pw /\ vault'.key = sec'.key
      BY <1>9 DEF Seal
    <2>2. UNCHANGED <<listPw, listKey, pems, backup, localBackup, history, phase,
                      gateVars, appVars>>
          /\ step = "seal" /\ phase = "busy" /\ ~pass
      BY <1>9 DEF Seal
    <2>3. vault.pw \subseteq vault'.pw /\ vault.key \subseteq vault'.key
      BY <2>1, <2>2
    <2>4. Full(sec') /\ Full(vault')
      BY <2>1, <2>2, <2>3
    <2>5. (step' = "list" /\ Any(pt)) \/ (step' = "answer" /\ ~Any(pt))
      BY <1>9 DEF Seal, Answer
    <2>6. PasswordsKept' /\ GateCovers' /\ Sealed' /\ Passed'
      <3>1. PasswordsKept'
        BY <2>2, <2>3
      <3>2. GateCovers' /\ Sealed'
        BY <2>1, <2>2, <2>3
      <3>3. Any(pt) => ~after
        BY <2>2
      <3>4. answer' = "ok" \/ Any(pt)
        BY <1>9 DEF Seal, Answer
      <3>5. Passed'
        BY <2>2, <2>5, <3>3, <3>4
      <3> QED
        BY <3>1, <3>2, <3>5
    <2>7. Progress'
      BY <2>1, <2>2, <2>4, <2>5
    <2> QED
      BY <2>2, <2>6, <2>7
  <1>10. CASE RewriteList
    BY <1>10, <1>t DEF RewriteList
  <1>11. CASE Unlink
    BY <1>11, <1>t DEF Unlink, Answer
  <1>12. CASE IoError
    BY <1>12, <1>t DEF IoError, Answer
  <1>13. CASE ApplyUnlocked
    <2>1. UNCHANGED <<diskVars, history>> /\ Idle /\ step = "answer"
          /\ phase = "busy"
      BY <1>13 DEF ApplyUnlocked
    <2>2. CASE answer = "ok" /\ pass' = TRUE /\ secrets' = sec /\ phase' = "ready"
               /\ NoLock
      BY <1>t, <2>1, <2>2
    <2>3. CASE answer # "ok" /\ UNCHANGED <<mode, pt, after, appVars>>
               /\ phase' \in {"gate", "stopped"}
      BY <1>t, <2>1, <2>3
    <2> QED
      BY <1>13, <2>2, <2>3 DEF ApplyUnlocked
  <1>14. CASE SaveList
    BY <1>14, <1>t DEF SaveList
  <1>15. CASE PersistSecrets
    BY <1>15, <1>t DEF PersistSecrets
  <1>16. CASE Restart
    BY <1>16, <1>t DEF Restart
  <1>17. CASE StartPull
    BY <1>17, <1>t DEF StartPull
  <1>18. CASE Bootstrap
    BY <1>18, <1>t DEF Bootstrap
  <1>19. CASE CopyList
    BY <1>19, <1>t DEF CopyList
  <1>20. CASE ReplaceList
    <2>1. dropped'.pw = dropped.pw \cup (listPw \ vault.pw)
          /\ dropped'.key = dropped.key \cup ((listKey \cap pems) \ vault.key)
      BY <1>20 DEF ReplaceList, Plus, Less, Found
    <2>2. UNCHANGED <<blind, replaced, pems, vault, backup, localBackup, phase,
                      gateVars, appVars, answer>>
          /\ step = "replace" /\ step' = "reseal" /\ listPw' = {}
      BY <1>20 DEF ReplaceList
    <2> QED
      BY <1>t, <2>1, <2>2
  <1>21. CASE Reseal
    <2>1. replaced'.pw = replaced.pw \cup (vault.pw \ sec.pw)
          /\ replaced'.key = replaced.key \cup (vault.key \ sec.key)
          /\ vault'.made /\ vault'.pw = sec.pw /\ vault'.key = sec.key
      BY <1>21 DEF Reseal, Plus, Less
    <2>2. UNCHANGED <<blind, dropped, listPw, listKey, pems, backup, localBackup,
                      phase, gateVars, appVars, sec, answer>>
          /\ step = "reseal" /\ step' = "hand"
      BY <1>21 DEF Reseal
    <2> QED
      BY <1>t, <2>1, <2>2
  <1>22. CASE HandOver
    <2>1. UNCHANGED <<diskVars, history, gateVars>> /\ Idle /\ pass' = TRUE
          /\ secrets' = sec /\ step = "hand"
          /\ phase' = IF phase = "boot" THEN "scan" ELSE phase
      BY ONLY <1>22 DEF HandOver
    <2> QED
      BY <1>t, <2>1
  <1>23. CASE PullFails
    <2>1. UNCHANGED <<diskVars, history, gateVars, appVars>> /\ Idle
          /\ step \in {"fetch", "copy", "replace", "reseal"}
          /\ phase' = IF phase = "boot" THEN "stopped" ELSE phase
      BY ONLY <1>23 DEF PullFails
    <2> QED
      BY <1>t, <2>1
  <1>24. CASE UNCHANGED vars
    BY <1>24, <1>t DEF vars
  <1> QED
    BY <1>1, <1>2, <1>3, <1>4, <1>5, <1>6, <1>7, <1>8, <1>9, <1>10, <1>11,
       <1>12, <1>13, <1>14, <1>15, <1>16, <1>17, <1>18, <1>19, <1>20, <1>21,
       <1>22, <1>23, <1>24 DEF Next, Gate, Command, Pull

-----------------------------------------------------------------------------
(* A scan that failed stays on record.                                     *)
LEMMA BlindStays == [Next]_vars /\ blind => blind'
  BY DEF Next, Gate, Command, Pull, vars, history, ScanStartup, ScanFails, RequireVault, Cancel,
     Submit, Quit, LoadSecrets, WriteBackup, Seal, RewriteList, Unlink, IoError,
     ApplyUnlocked, SaveList, PersistSecrets, Restart, StartPull, Bootstrap,
     CopyList, ReplaceList, Reseal, HandOver, PullFails

(* The inductive invariant holds throughout.                               *)
THEOREM Invariance == Spec => []IInv
  <1>1. IInv /\ [Next]_vars => IInv'
    BY KeyStep, ScannedStep, BlindStays DEF IInv
  <1> QED
    BY Start, <1>1, PTL DEF Spec

(* Type correctness.                                                       *)
THEOREM TypeCorrect == Spec => []TypeOK
  <1>1. IInv => TypeOK
    BY DEF IInv, KInv
  <1> QED
    BY Invariance, <1>1, PTL

(* No crash, failure, retry or restart loses a private key, with or        *)
(* without scans that fail; a pull takes those of the vault it replaces.   *)
THEOREM KeysSurvive == Spec => []KeysKept
  <1>1. IInv => KeysKept
    BY DEF IInv, KInv
  <1> QED
    BY Invariance, <1>1, PTL

(* Nor a password, as long as the scans could be read; a pull those of the *)
(* list and the vault it replaces.                                         *)
THEOREM PasswordsSurvive == Spec => []NothingLost
  <1>1. IInv => NothingLost
    BY DEF IInv, Scanned, NothingLost
  <1> QED
    BY Invariance, <1>1, PTL

(* No key file is removed while the list names it.                         *)
THEOREM PathsAreGood == Spec => NoDanglingPath
  <1>1. IInv /\ [Next]_vars => (pems \ pems') \cap listKey = {}
    <2> SUFFICES ASSUME IInv, [Next]_vars PROVE (pems \ pems') \cap listKey = {}
      OBVIOUS
    <2>1. CASE Unlink
      BY <2>1 DEF Unlink, IInv, KInv, KeysSealed
    <2>2. CASE ~Unlink
      <3>1. UNCHANGED pems
        BY <2>2 DEF Next, Gate, Command, Pull, vars, diskVars, ScanStartup,
           ScanFails, RequireVault, Cancel, Submit, Quit, LoadSecrets,
           WriteBackup, Seal, RewriteList, IoError, ApplyUnlocked, SaveList,
           PersistSecrets, Restart, StartPull, Bootstrap, CopyList, ReplaceList,
           Reseal, HandOver, PullFails
      <3> QED
        BY <3>1
    <2> QED
      BY <2>1, <2>2
  <1> QED
    BY Invariance, <1>1, PTL DEF Spec, NoDanglingPath

(* The app never opens on a vault that is short of a secret, but for what  *)
(* a pull replaced or passed over.                                         *)
THEOREM UnlockIsComplete == Spec => []UnlockedHoldsAll
  <1>1. IInv => UnlockedHoldsAll
    BY DEF IInv, Scanned, Full, UnlockedHoldsAll
  <1> QED
    BY Invariance, <1>1, PTL

(* A step that takes passwords out of the list leaves them in a backup.    *)
THEOREM CopyComesFirst == Spec => BackedUpFirst
  <1>1. IInv /\ [Next]_vars => (~blind => listPw \ listPw' \subseteq backup' \cup localBackup')
    <2> SUFFICES ASSUME IInv, [Next]_vars, ~blind
                 PROVE  listPw \ listPw' \subseteq backup' \cup localBackup'
      OBVIOUS
    <2>1. CASE RewriteList
      BY <2>1 DEF RewriteList, IInv, Scanned, Progress
    <2>2. CASE SaveList
      BY <2>2 DEF SaveList, IInv, Scanned, Passed
    <2>3. CASE ReplaceList
      BY <2>3 DEF ReplaceList, IInv, Scanned, Progress
    <2>4. CASE ~RewriteList /\ ~SaveList /\ ~ReplaceList
      <3>1. UNCHANGED listPw
        BY <2>4 DEF Next, Gate, Command, Pull, vars, diskVars, ScanStartup, ScanFails,
           RequireVault, Cancel, Submit, Quit, LoadSecrets, WriteBackup, Seal,
           Unlink, IoError, ApplyUnlocked, PersistSecrets, Restart,
           StartPull, Bootstrap, CopyList, Reseal, HandOver, PullFails
      <3> QED
        BY <3>1
    <2> QED
      BY <2>1, <2>2, <2>3, <2>4
  <1> QED
    BY Invariance, <1>1, PTL DEF Spec, BackedUpFirst
=============================================================================
