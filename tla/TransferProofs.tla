--------------------------- MODULE TransferProofs ---------------------------
(* Transfer, for any number of files, connections, copies and edits.         *)
(*                                                                           *)
(* A torn file is explained by the connection its copy ran over being gone:  *)
(* that needs that a generation that went never comes back.  Or its removal  *)
(* was refused, which is remembered.                                         *)
EXTENDS Transfer, TLAPS

Running == {"begin", "copying", "told"}
Stages == {"none", "begin", "copying", "told", "done"}

\* No copy belongs to a connection that is still to be made.
GensPast ==
    \A c \in CopyIds : cgen[c] <= gen /\ (~remote /\ stage[c] # "none" => cgen[c] < gen)

\* Only a copy that began writing has torn a file.
TornIsStarted ==
    \A p \in Places : file[p] \in Torn => stage[file[p].by] \notin {"none", "begin"}

IInv == TypeOK /\ GensPast /\ TornIsStarted /\ OneTransfer /\ TornIsExplained

-----------------------------------------------------------------------------
(* Types.                                                                    *)

\* The empty place, the whole file and the torn one are told apart.
LEMMA Values ==
    /\ None # Whole /\ None \notin Torn /\ Whole \notin Torn
    /\ None \notin Edits /\ Whole \notin Edits
    /\ \A i \in CopyIds : i \in Nat /\ i # 0
    /\ \A g \in Gens : g \in Nat
    /\ 0 \in Gens
  BY TransferAssumption DEF CopyIds, Gens

\* Every variable keeps its type.
LEMMA Typed == Spec => []TypeOK
  <1>1. Init => TypeOK
    BY Values DEF Init, TypeOK, Contents
  <1>2. ASSUME TypeOK, [Next]_vars
        PROVE  TypeOK'
    <2>1. CASE Teardown \/ Connect \/ LinkDrops \/ LinkHangs \/ CancelTransfer
      <3>1. gen' \in Gens /\ gen \in Gens
        BY <1>2, <2>1, TransferAssumption
           DEF Teardown, Connect, LinkDrops, LinkHangs, CancelTransfer, linkVars, TypeOK, Gens
      <3>2. stopped' \in [CopyIds -> BOOLEAN]
        BY <1>2, <2>1
           DEF Teardown, Connect, LinkDrops, LinkHangs, CancelTransfer, TypeOK, copyVars
      <3> QED
        BY <1>2, <2>1, <3>1, <3>2
           DEF Teardown, Connect, LinkDrops, LinkHangs, CancelTransfer, linkVars, TypeOK, copyVars
    <2>2. ASSUME NEW c \in CopyIds, NEW s \in Sides, NEW n \in Names, StartTransfer(c, s, n)
          PROVE  TypeOK'
      <3>1. <<s, n>> \in Places /\ <<OtherSide(s), n>> \in Places
        BY DEF Places, Sides, OtherSide
      <3> QED
        BY <1>2, <2>2, <3>1 DEF StartTransfer, linkVars, TypeOK
    <2>3. ASSUME NEW c \in CopyIds, OpenFails(c) \/ OpenBoth(c)
          PROVE  TypeOK'
      <3>1. [by |-> c, moved |-> FALSE] \in Contents
        BY DEF Contents, Torn
      <3> QED
        BY <1>2, <2>3, <3>1 DEF OpenFails, OpenBoth, Emptied, Goto, Rest, linkVars, TypeOK
    <2>4. ASSUME NEW c \in CopyIds, CopyEnds(c) \/ CopyFails(c)
          PROVE  TypeOK'
      <3>1. file' \in [Places -> Contents]
        BY <1>2, <2>4 DEF CopyEnds, CopyFails, TypeOK, Contents
      <3> QED
        BY <1>2, <2>4, <3>1 DEF CopyEnds, CopyFails, Goto, Rest, linkVars, TypeOK
    <2>5. ASSUME NEW c \in CopyIds, TransferDone(c)
          PROVE  TypeOK'
      BY <1>2, <2>5 DEF TransferDone, Goto, linkVars, TypeOK
    <2>6. ASSUME NEW i \in EditIds, NEW k \in {"delete", "rename"}, NEW p \in Places,
                 NEW n \in Names, StartEdit(i, k, p, n)
          PROVE  TypeOK'
      <3>1. [kind |-> k, at |-> p, as |-> n, gen |-> gen] \in Edits
        BY <1>2 DEF Edits, TypeOK
      <3> QED
        BY <1>2, <2>6, <3>1 DEF StartEdit, EditRest, linkVars, TypeOK, copyVars
    <2>7. ASSUME NEW i \in EditIds, EditFails(i) \/ RunDelete(i)
          PROVE  TypeOK'
      <3>1. file' \in [Places -> Contents]
        BY <1>2, <2>7 DEF EditFails, RunDelete, TypeOK, Contents
      <3> QED
        BY <1>2, <2>7, <3>1 DEF EditFails, RunDelete, Over, EditRest, linkVars, TypeOK, copyVars
    <2>8. ASSUME NEW i \in EditIds, RunRename(i)
          PROVE  TypeOK'
      <3>1. Moved(file[edit[i].at]) \in Contents
        <4>1. edit[i].at \in Places
          BY <1>2, <2>8 DEF TypeOK, RunRename, UnderWay, Edits
        <4> QED
          BY <1>2, <4>1 DEF TypeOK, Moved, Contents, Torn
      <3>2. file' \in [Places -> Contents]
        BY <1>2, <2>8, <3>1 DEF RunRename, TypeOK, Contents
      <3> QED
        BY <1>2, <2>8, <3>2 DEF RunRename, Over, EditRest, linkVars, TypeOK, copyVars
    <2>9. CASE UNCHANGED vars
      BY <1>2, <2>9 DEF vars, linkVars, copyVars, TypeOK
    <2> QED
      BY <1>2, <2>1, <2>2, <2>3, <2>4, <2>5, <2>6, <2>7, <2>8, <2>9 DEF Next, User, CopyStep
  <1> QED
    BY <1>1, <1>2, PTL DEF Spec

-----------------------------------------------------------------------------
(* The connection comes and goes.                                            *)

\* A torn file is explained by a generation that left "link" for good.
LEMMA ConnectionSteps ==
    ASSUME IInv, Teardown \/ Connect \/ LinkDrops \/ LinkHangs \/ CancelTransfer
    PROVE  GensPast' /\ TornIsStarted' /\ OneTransfer' /\ TornIsExplained'
  <1>0. TypeOK /\ GensPast /\ TornIsStarted /\ OneTransfer /\ TornIsExplained
    BY DEF IInv
  <1>1. UNCHANGED <<file, stage, cgen, from, to, refused, edit>>
    BY DEF Teardown, Connect, LinkDrops, LinkHangs, CancelTransfer, copyVars
  <1>2. gen \in Nat /\ \A c \in CopyIds : cgen[c] \in Nat /\ c # 0
    BY <1>0, Values DEF TypeOK
  <1>3. GensPast'
    BY <1>0, <1>1, <1>2 DEF GensPast, Teardown, Connect, LinkDrops, LinkHangs, CancelTransfer, linkVars
  <1>4. TornIsStarted'
    BY <1>0, <1>1 DEF TornIsStarted
  <1>5. OneTransfer'
    <2>1. CASE Teardown
      <3> SUFFICES ASSUME NEW c \in CopyIds
                   PROVE  /\ transfer' # c /\ cgen'[c] # gen'
                          /\ stage[c] \in {"begin", "copying"} => stopped'[c]
        BY <1>1 DEF OneTransfer
      <3>1. transfer' = 0 /\ gen' = gen + 1 /\ stopped'[c] = (stopped[c] \/ c = transfer)
        BY <2>1 DEF Teardown
      <3>2. transfer' # c
        BY <1>2, <3>1
      <3>3. cgen[c] <= gen
        BY <1>0 DEF GensPast
      <3>4. cgen'[c] # gen'
        BY <1>1, <1>2, <3>1, <3>3
      <3>5. stage[c] \in {"begin", "copying"} => stopped'[c]
        <4>1. stage[c] \in {"begin", "copying"} /\ c # transfer => stopped[c]
          BY <1>0 DEF OneTransfer
        <4>2. stage[c] \in {"begin", "copying"} => stopped[c] \/ c = transfer
          BY <4>1
        <4> QED
          BY <4>2, <3>1
      <3> QED
        BY <3>2, <3>4, <3>5
    <2>2. CASE CancelTransfer
      <3>1. \A c \in CopyIds : stopped[c] => stopped'[c]
        BY <1>0, <2>2 DEF CancelTransfer, TypeOK
      <3> QED
        BY <1>0, <1>1, <2>2, <3>1 DEF OneTransfer, CancelTransfer, linkVars
    <2>3. CASE Connect \/ LinkDrops \/ LinkHangs
      BY <1>0, <1>1, <2>3 DEF OneTransfer, Connect, LinkDrops, LinkHangs, copyVars
    <2> QED
      BY <2>1, <2>2, <2>3
  <1>6. TornIsExplained'
    <2> SUFFICES ASSUME NEW p \in Places, file[p] \in Torn
                 PROVE  LET c == file[p].by
                        IN  \/ file[p].moved
                            \/ to[c] = p /\ stage[c] = "copying"
                            \/ p[1] = "remote" /\ cgen[c] \notin link'
                            \/ c \in refused
      BY <1>1 DEF TornIsExplained
    <2> DEFINE c == file[p].by
    <2>1. c \in CopyIds /\ stage[c] # "none"
      BY <1>0 DEF Torn, TornIsStarted
    <2> HIDE DEF c
    <2>2. cgen[c] \notin link => cgen[c] \notin link'
      BY <1>0, <1>2, <2>1 DEF GensPast, Teardown, Connect, LinkDrops, LinkHangs, CancelTransfer, linkVars
    <2> QED
      BY <1>0, <2>2 DEF TornIsExplained, c
  <1> QED
    BY <1>3, <1>4, <1>5, <1>6

\* A copy starts, writes, and is over.
LEMMA CopySteps ==
    ASSUME IInv, NEW c \in CopyIds,
           \/ \E s \in Sides, n \in Names : StartTransfer(c, s, n)
           \/ CopyStep(c) \/ TransferDone(c)
    PROVE  GensPast' /\ TornIsStarted' /\ OneTransfer' /\ TornIsExplained'
  <1>0. TypeOK /\ GensPast /\ TornIsStarted /\ OneTransfer /\ TornIsExplained
    BY DEF IInv
  <1>1. UNCHANGED <<link, gen, remote, edit>> /\ refused \subseteq refused'
    BY DEF StartTransfer, CopyStep, OpenFails, OpenBoth, CopyEnds, CopyFails, TransferDone, Rest,
       linkVars
  <1>2. gen \in Nat /\ \A b \in CopyIds : cgen[b] \in Nat /\ b # 0
    BY <1>0, Values DEF TypeOK
  <1>3. CASE \E s \in Sides, n \in Names : StartTransfer(c, s, n)
    <2>1. PICK s \in Sides, n \in Names : StartTransfer(c, s, n)
      BY <1>3
    <2>2. /\ remote /\ transfer = 0 /\ stage[c] = "none" /\ transfer' = c
          /\ stage'[c] = "begin" /\ cgen'[c] = gen /\ file' = file
          /\ \A b \in CopyIds \ {c} :
                /\ stage'[b] = stage[b] /\ cgen'[b] = cgen[b]
                /\ to'[b] = to[b] /\ stopped'[b] = stopped[b]
      BY <1>0, <2>1 DEF StartTransfer, TypeOK
    <2>3. \A p \in Places : file[p] \in Torn => file[p].by \in CopyIds \ {c}
      BY <1>0, <2>2 DEF TornIsStarted, Torn
    <2>4. GensPast'
      BY <1>0, <1>1, <1>2, <2>2 DEF GensPast
    <2>5. TornIsStarted'
      BY <1>0, <2>2, <2>3 DEF TornIsStarted
    <2>6. OneTransfer'
      BY <1>0, <1>1, <1>2, <2>2 DEF OneTransfer
    <2>7. TornIsExplained'
      BY <1>0, <1>1, <2>2, <2>3 DEF TornIsExplained
    <2> QED
      BY <2>4, <2>5, <2>6, <2>7
  <1>4. ASSUME CopyStep(c) \/ TransferDone(c)
        PROVE  /\ UNCHANGED <<cgen, to, stopped>>
               /\ stage[c] \in Running
               /\ \A b \in CopyIds \ {c} : stage'[b] = stage[b]
               /\ GensPast'
    <2>1. UNCHANGED <<cgen, to, stopped>> /\ stage[c] \in Running
      BY <1>4 DEF CopyStep, OpenFails, OpenBoth, CopyEnds, CopyFails, TransferDone, Goto, Rest,
         Running
    <2>2. \A b \in CopyIds \ {c} : stage'[b] = stage[b]
      BY <1>0, <1>4 DEF CopyStep, OpenFails, OpenBoth, CopyEnds, CopyFails, TransferDone, Goto,
         TypeOK
    <2>3. GensPast'
      BY <1>0, <1>1, <2>1, <2>2 DEF GensPast, Running
    <2> QED
      BY <2>1, <2>2, <2>3
  <1>5. ASSUME CopyStep(c)
        PROVE  OneTransfer' /\ transfer' = transfer /\ stage'[c] \in {"copying", "told"}
    <2>1. transfer' = transfer /\ stage'[c] \in {"copying", "told"}
          /\ (stage'[c] = "copying" => stage[c] = "begin")
      BY <1>0, <1>5 DEF CopyStep, OpenFails, OpenBoth, CopyEnds, CopyFails, Goto, Rest, TypeOK
    <2> QED
      BY <1>0, <1>1, <1>4, <1>5, <2>1 DEF OneTransfer, Running
  <1>6. CASE OpenFails(c)
    <2>1. stage[c] = "begin" /\ stage'[c] = "told"
      BY <1>0, <1>6 DEF OpenFails, Goto, TypeOK
    <2>2. \A p \in Places : file[p] \in Torn => file[p].by \in CopyIds \ {c}
      BY <1>0, <2>1 DEF TornIsStarted, Torn
    <2>3. \A p \in Places : \/ file'[p] = file[p]
                            \/ /\ file'[p] = [by |-> c, moved |-> FALSE]
                               /\ to[c] = p /\ p[1] = "remote" /\ cgen[c] \notin link
      BY <1>0, <1>6 DEF OpenFails, Emptied, TypeOK
    <2>4. TornIsStarted' /\ TornIsExplained'
      BY <1>0, <1>1, <1>4, <1>6, <2>1, <2>2, <2>3
         DEF TornIsStarted, TornIsExplained, CopyStep
    <2> QED
      BY <1>4, <1>5, <1>6, <2>4 DEF CopyStep
  <1>7. CASE OpenBoth(c)
    <2>1. /\ stage[c] = "begin" /\ stage'[c] = "copying"
          /\ file' = [file EXCEPT ![to[c]] = [by |-> c, moved |-> FALSE]]
      BY <1>0, <1>7 DEF OpenBoth, Emptied, Goto, TypeOK
    <2>2. \A p \in Places : file[p] \in Torn => file[p].by \in CopyIds \ {c}
      BY <1>0, <2>1 DEF TornIsStarted, Torn
    <2>3. \A p \in Places : \/ file'[p] = file[p]
                            \/ to[c] = p /\ file'[p] = [by |-> c, moved |-> FALSE]
      BY <1>0, <2>1 DEF TypeOK
    <2>4. TornIsStarted' /\ TornIsExplained'
      BY <1>0, <1>1, <1>4, <1>7, <2>1, <2>2, <2>3
         DEF TornIsStarted, TornIsExplained, CopyStep
    <2> QED
      BY <1>4, <1>5, <1>7, <2>4 DEF CopyStep
  <1>8. CASE CopyEnds(c)
    <2>1. /\ stage[c] = "copying" /\ stage'[c] = "told"
          /\ \A p \in Places : file'[p] =
                IF file[p] \in Torn /\ file[p].by = c THEN Whole ELSE file[p]
      BY <1>0, <1>8 DEF CopyEnds, Goto, TypeOK
    <2>2. \A p \in Places : file'[p] \in Torn =>
              file'[p] = file[p] /\ file[p].by \in CopyIds \ {c}
      BY <2>1, Values DEF Torn
    <2>3. TornIsStarted' /\ TornIsExplained'
      BY <1>0, <1>1, <1>4, <1>8, <2>1, <2>2 DEF TornIsStarted, TornIsExplained, CopyStep
    <2> QED
      BY <1>4, <1>5, <1>8, <2>3 DEF CopyStep
  <1>9. CASE CopyFails(c)
    <2>1. /\ stage[c] = "copying" /\ stage'[c] = "told"
          /\ \/ file' = [file EXCEPT ![to[c]] = None]
             \/ file' = file /\ ~Reach(to[c], cgen[c])
             \/ file' = file /\ c \in refused'
      BY <1>0, <1>9 DEF CopyFails, Goto, TypeOK
    <2>2. \A p \in Places : file'[p] \in Torn =>
              /\ file'[p] = file[p]
              /\ to[c] # p \/ (p[1] = "remote" /\ cgen[c] \notin link) \/ c \in refused'
      <3> SUFFICES ASSUME NEW p \in Places, file'[p] \in Torn
                   PROVE  /\ file'[p] = file[p]
                          /\ \/ to[c] # p
                             \/ p[1] = "remote" /\ cgen[c] \notin link
                             \/ c \in refused'
        OBVIOUS
      <3>1. p[1] = "local" \/ p[1] = "remote"
        BY DEF Places, Sides
      <3>2. CASE file' = [file EXCEPT ![to[c]] = None]
        BY <1>0, <3>2, Values DEF TypeOK
      <3>3. CASE file' = file /\ ~Reach(to[c], cgen[c])
        BY <3>1, <3>3 DEF Reach
      <3>4. CASE file' = file /\ c \in refused'
        BY <3>4
      <3> QED
        BY <2>1, <3>2, <3>3, <3>4
    <2>3. \A b \in CopyIds : stage[b] \notin {"none", "begin"} => stage'[b] \notin {"none", "begin"}
      BY <1>4, <1>9, <2>1 DEF CopyStep
    <2>4. TornIsStarted'
      BY <1>0, <2>2, <2>3 DEF TornIsStarted, Torn
    <2>5. TornIsExplained'
      BY <1>0, <1>1, <1>4, <1>9, <2>1, <2>2 DEF TornIsExplained, CopyStep, Torn
    <2> QED
      BY <1>4, <1>5, <1>9, <2>4, <2>5 DEF CopyStep
  <1>10. CASE TransferDone(c)
    <2>1. /\ stage[c] = "told" /\ stage'[c] = "done" /\ file' = file
          /\ transfer' = IF cgen[c] = gen THEN 0 ELSE transfer
      BY <1>0, <1>10 DEF TransferDone, Goto, TypeOK
    <2>2. TornIsStarted'
      BY <1>0, <1>4, <1>10, <2>1 DEF TornIsStarted, Torn
    <2>3. TornIsExplained'
      <3> SUFFICES ASSUME NEW p \in Places, file[p] \in Torn
                   PROVE  \/ file[p].moved
                          \/ to[file[p].by] = p /\ stage'[file[p].by] = "copying"
                          \/ p[1] = "remote" /\ cgen[file[p].by] \notin link
                          \/ file[p].by \in refused'
        BY <1>1, <1>4, <1>10, <2>1 DEF TornIsExplained
      <3>1. file[p].by \in CopyIds
        BY DEF Torn
      <3>2. stage[file[p].by] = "copying" => stage'[file[p].by] = "copying"
        BY <1>4, <1>10, <2>1, <3>1
      <3> QED
        BY <1>0, <1>1, <3>2 DEF TornIsExplained
    <2>4. OneTransfer'
      <3> SUFFICES ASSUME NEW b \in CopyIds
                   PROVE  /\ transfer' = b <=> cgen[b] = gen /\ stage'[b] \in Running
                          /\ stage'[b] \in {"begin", "copying"} /\ b # transfer' => stopped[b]
        BY <1>1, <1>4, <1>10 DEF OneTransfer, Running
      <3>1. /\ transfer = b <=> cgen[b] = gen /\ stage[b] \in Running
            /\ stage[b] \in {"begin", "copying"} /\ b # transfer => stopped[b]
            /\ transfer = c <=> cgen[c] = gen /\ stage[c] \in Running
        BY <1>0 DEF OneTransfer, Running
      <3>2. b # 0
        BY <1>2, Values
      <3>3. CASE b = c
        BY <2>1, <3>1, <3>2, <3>3 DEF Running
      <3>4. CASE b # c
        <4>1. stage'[b] = stage[b]
          BY <1>4, <1>10, <3>4
        <4> QED
          BY <2>1, <3>1, <3>2, <3>4, <4>1 DEF Running
      <3> QED
        BY <3>3, <3>4
    <2> QED
      BY <1>4, <1>10, <2>2, <2>3, <2>4
  <1> QED
    BY <1>3, <1>6, <1>7, <1>8, <1>9, <1>10 DEF CopyStep

\* A delete takes a file away, and a rename marks what it moves.
LEMMA EditSteps ==
    ASSUME IInv,
           \/ \E i \in EditIds, k \in {"delete", "rename"}, p \in Places, n \in Names :
                 StartEdit(i, k, p, n)
           \/ \E i \in EditIds : EditFails(i) \/ RunDelete(i) \/ RunRename(i)
    PROVE  GensPast' /\ TornIsStarted' /\ OneTransfer' /\ TornIsExplained'
  <1>0. TypeOK /\ GensPast /\ TornIsStarted /\ OneTransfer /\ TornIsExplained
    BY DEF IInv
  <1>1. UNCHANGED <<link, gen, remote, transfer, stage, cgen, to, stopped, refused>>
    BY DEF StartEdit, EditFails, RunDelete, RunRename, EditRest, linkVars, copyVars
  <1>2. GensPast' /\ OneTransfer'
    BY <1>0, <1>1 DEF GensPast, OneTransfer
  <1>3. \A p \in Places : file'[p] \in Torn =>
            \/ file'[p] = file[p]
            \/ /\ file'[p].moved
               /\ \E q \in Places : file[q] \in Torn /\ file'[p].by = file[q].by
    <2>1. CASE \/ \E i \in EditIds, k \in {"delete", "rename"}, p \in Places, n \in Names :
                     StartEdit(i, k, p, n)
               \/ \E i \in EditIds : EditFails(i)
      BY <2>1 DEF StartEdit, EditFails
    <2>2. ASSUME NEW i \in EditIds, RunDelete(i)
          PROVE  \A p \in Places : file'[p] \in Torn => file'[p] = file[p]
      BY <1>0, <2>2, Values DEF RunDelete, TypeOK
    <2>3. ASSUME NEW i \in EditIds, RunRename(i), NEW p \in Places, file'[p] \in Torn
          PROVE  \/ file'[p] = file[p]
                 \/ /\ file'[p].moved
                    /\ \E q \in Places : file[q] \in Torn /\ file'[p].by = file[q].by
      <3> DEFINE at == edit[i].at
      <3>1. at \in Places
        BY <1>0, <2>3 DEF TypeOK, RunRename, UnderWay, Edits
      <3>2. file'[p] \in {file[p], None, Moved(file[at])}
        BY <1>0, <2>3 DEF RunRename, TypeOK
      <3>3. CASE file'[p] = Moved(file[at])
        <4>1. file[at] \in Torn
          BY <2>3, <3>3 DEF Moved
        <4>2. file'[p].moved /\ file'[p].by = file[at].by
          BY <3>3, <4>1 DEF Moved, Torn
        <4> QED
          BY <3>1, <4>1, <4>2
      <3> QED
        BY <2>3, <3>2, <3>3, Values
    <2> QED
      BY <2>1, <2>2, <2>3
  <1>4. TornIsStarted' /\ TornIsExplained'
    BY <1>0, <1>1, <1>3 DEF TornIsStarted, TornIsExplained
  <1> QED
    BY <1>2, <1>4

\* The inductive invariant, from the steps above.
LEMMA Invariance == Spec => []IInv
  <1>1. Init /\ TypeOK => IInv
    BY Values DEF Init, IInv, GensPast, TornIsStarted, OneTransfer, TornIsExplained
  <1>2. IInv /\ [Next]_vars => GensPast' /\ TornIsStarted' /\ OneTransfer' /\ TornIsExplained'
    <2>1. ASSUME IInv, UNCHANGED vars
          PROVE  GensPast' /\ TornIsStarted' /\ OneTransfer' /\ TornIsExplained'
      BY <2>1 DEF IInv, vars, linkVars, copyVars, GensPast, TornIsStarted, OneTransfer, TornIsExplained
    <2> QED
      BY <2>1, ConnectionSteps, CopySteps, EditSteps DEF Next, User
  <1>3. IInv /\ [Next]_vars /\ TypeOK' => IInv'
    BY <1>2 DEF IInv
  <1> QED
    BY <1>1, <1>3, Typed, PTL DEF Spec

-----------------------------------------------------------------------------
(* The theorems.                                                             *)

\* Every variable keeps its type, and whatever connections come and go, one
\* transfer is on, over the connection on screen.
THEOREM TransfersAreConsistent == Spec => []Consistent
  <1>1. IInv => Consistent
    BY DEF IInv, Consistent
  <1> QED
    BY <1>1, Invariance, PTL

\* A truncated file is being written, was moved by the user, or could not be
\* removed: its connection had gone, maybe before it was opened, or the removal was
\* refused.
THEOREM TornFilesAreExplained == Spec => []TornIsExplained
  <1>1. IInv => TornIsExplained
    BY DEF IInv
  <1> QED
    BY <1>1, Invariance, PTL

\* A whole file is lost only to a step of a copy of it, or to the delete or the
\* rename of it that ends there, and what was renamed is under its new name.
THEOREM LossesAreAskedFor == Spec => OnlyAskedFor
  <1> DEFINE Copied(p) == \E c \in CopyIds :
                to[c] = p /\ stage[c] \in {"begin", "copying"} /\ stage'[c] # stage[c]
             Target(i) == <<edit[i].at[1], edit[i].as>>
             Edited(p) == \E i \in EditIds :
                /\ edit[i] \notin {None, Whole} /\ edit'[i] = Whole
                /\ \/ edit[i].kind = "delete" /\ p = edit[i].at
                   \/ edit[i].kind = "rename" /\ p = edit[i].at /\ file'[Target(i)] = Whole
                   \/ edit[i].kind = "rename" /\ p = Target(i) /\ p[1] = "local"
             Kept == \A p \in Places :
                file[p] = Whole /\ file'[p] # Whole => Copied(p) \/ Edited(p)
  <1>1. ASSUME TypeOK, Next
        PROVE  Kept
    <2>1. CASE file' = file
      BY <2>1
    <2>2. ASSUME NEW c \in CopyIds, CopyStep(c)
          PROVE  Kept
      <3>1. stage[c] \in {"begin", "copying"} /\ stage'[c] # stage[c]
        BY <1>1, <2>2 DEF CopyStep, OpenFails, OpenBoth, CopyEnds, CopyFails, Goto, TypeOK
      <3>2. \A p \in Places : file'[p] \in {file[p], Whole} \/ to[c] = p
        BY <1>1, <2>2
           DEF CopyStep, OpenFails, OpenBoth, Emptied, CopyEnds, CopyFails, TypeOK
      <3> QED
        BY <3>1, <3>2
    <2>3. ASSUME NEW i \in EditIds, RunDelete(i) \/ RunRename(i)
          PROVE  edit[i] \notin {None, Whole} /\ edit'[i] = Whole /\ edit[i].at \in Places
      BY <1>1, <2>3 DEF RunDelete, RunRename, UnderWay, Over, TypeOK, Edits
    <2>4. ASSUME NEW i \in EditIds, RunDelete(i)
          PROVE  Kept
      <3>1. edit[i].kind = "delete"
        BY <2>4 DEF RunDelete, UnderWay
      <3>2. \A p \in Places : file'[p] = file[p] \/ p = edit[i].at
        BY <1>1, <2>4 DEF RunDelete, TypeOK
      <3> QED
        BY <2>3, <2>4, <3>1, <3>2
    <2>5. ASSUME NEW i \in EditIds, RunRename(i)
          PROVE  Kept
      <3> SUFFICES ASSUME NEW p \in Places, file[p] = Whole, file'[p] # Whole
                   PROVE  Edited(p)
        OBVIOUS
      <3>1. /\ edit[i].kind = "rename" /\ edit[i].at # Target(i)
            /\ edit[i].at[1] = "remote" => file[Target(i)] = None
            /\ file' = [file EXCEPT ![Target(i)] = Moved(file[edit[i].at]),
                                   ![edit[i].at] = None]
        BY <2>5 DEF RunRename, UnderWay
      <3>2. p \in {edit[i].at, Target(i)}
        BY <1>1, <3>1 DEF TypeOK
      <3>3. CASE p = edit[i].at
        <4>1. Target(i) \in Places
          BY <1>1, <2>3, <2>5 DEF TypeOK, Edits, Places
        <4>2. Moved(Whole) = Whole
          BY Values DEF Moved
        <4>3. file'[Target(i)] = Whole
          BY <1>1, <3>1, <3>3, <4>1, <4>2 DEF TypeOK
        <4> QED
          BY <2>3, <2>5, <3>1, <3>3, <4>3
      <3>4. CASE p = Target(i)
        <4>1. p[1] = "local"
          BY <2>3, <2>5, <3>1, <3>4, Values DEF Places, Sides
        <4> QED
          BY <2>3, <2>5, <3>1, <3>4, <4>1
      <3> QED
        BY <3>2, <3>3, <3>4
    <2> QED
      BY <1>1, <2>1, <2>2, <2>4, <2>5 DEF Next, User, Teardown, CancelTransfer, Connect,
         LinkDrops, LinkHangs, StartTransfer, StartEdit, EditFails, TransferDone
  <1>2. TypeOK /\ [Next]_vars =>
          [\A p \in Places : file[p] = Whole /\ file'[p] # Whole =>
             \/ \E c \in CopyIds :
                   to[c] = p /\ stage[c] \in {"begin", "copying"} /\ stage'[c] # stage[c]
             \/ \E i \in EditIds :
                   LET q == <<edit[i].at[1], edit[i].as>>
                   IN  /\ edit[i] \notin {None, Whole} /\ edit'[i] = Whole
                       /\ \/ edit[i].kind = "delete" /\ p = edit[i].at
                          \/ edit[i].kind = "rename" /\ p = edit[i].at /\ file'[q] = Whole
                          \/ edit[i].kind = "rename" /\ p = q /\ p[1] = "local"]_vars
    BY <1>1
  <1> QED
    BY <1>2, Typed, PTL DEF Spec, OnlyAskedFor

-----------------------------------------------------------------------------
(* Why cancelling ends.  The run checks CancelEnds under the fairness of     *)
(* reads and writes on a server that answers or is gone, and of messages;    *)
(* these are the facts it rests on.                                          *)

\* How many steps copy c has before it at most.
Ahead(c) ==
    CASE stage[c] = "none" -> 4 [] stage[c] = "begin" -> 3 [] stage[c] = "copying" -> 2
      [] stage[c] = "told" -> 1 [] stage[c] = "done" -> 0

LEMMA AheadKept ==
  ASSUME NEW c \in CopyIds, TypeOK, stage'[c] = stage[c]
  PROVE  Ahead(c)' = Ahead(c) /\ Ahead(c) \in 0..4
  <1>1. stage[c] \in Stages
    BY DEF TypeOK, Stages
  <1> QED
    BY <1>1 DEF Ahead, Stages

\* The steps of one copy lower what is ahead of it and touch no other.
LEMMA CopyMoves ==
  ASSUME TypeOK, NEW c \in CopyIds, CopyStep(c) \/ TransferDone(c)
  PROVE  /\ Ahead(c)' < Ahead(c)
         /\ \A b \in CopyIds : b # c => stage'[b] = stage[b]
  <1>1. \/ stage[c] = "begin" /\ stage' = [stage EXCEPT ![c] = "told"]
        \/ stage[c] = "begin" /\ stage' = [stage EXCEPT ![c] = "copying"]
        \/ stage[c] = "copying" /\ stage' = [stage EXCEPT ![c] = "told"]
        \/ stage[c] = "told" /\ stage' = [stage EXCEPT ![c] = "done"]
    BY DEF CopyStep, OpenFails, OpenBoth, CopyEnds, CopyFails, TransferDone, Goto
  <1>2. \/ stage[c] = "begin" /\ stage'[c] \in {"told", "copying"}
        \/ stage[c] = "copying" /\ stage'[c] = "told"
        \/ stage[c] = "told" /\ stage'[c] = "done"
    BY <1>1 DEF TypeOK
  <1>3. Ahead(c)' < Ahead(c)
    BY <1>2 DEF Ahead
  <1> QED
    BY <1>1, <1>3 DEF TypeOK

\* A transfer that is on, cancelled or not, has a goroutine that may go on
\* whatever became of its files and its connection (opening may fail, copying
\* may fail, the message may be handled), and it has at most three steps to go:
\* nothing another part of the program does adds one, each of its own takes one,
\* and with the last the transfer is over.  So only a read or a write that does
\* not return, over a connection whose server hangs, can keep a cancelled one on.
THEOREM CopiesMoveOn ==
  Spec => /\ [](\A c \in CopyIds : transfer = c => Ahead(c) \in 1..3)
          /\ [][\A c \in CopyIds :
                  /\ Ahead(c)' <= Ahead(c)
                  /\ CopyStep(c) \/ TransferDone(c) => Ahead(c)' < Ahead(c)
                  /\ TransferDone(c) => transfer' # c]_vars
  <1>1. IInv => \A c \in CopyIds : transfer = c => Ahead(c) \in 1..3
    BY DEF IInv, OneTransfer, Ahead
  <1>2. ASSUME IInv, Next, NEW c \in CopyIds
        PROVE  Ahead(c)' <= Ahead(c)
    <2> USE <1>2 DEF IInv
    <2>1. CASE stage'[c] = stage[c]
      BY <2>1, AheadKept
    <2>2. ASSUME NEW b \in CopyIds, CopyStep(b) \/ TransferDone(b)
          PROVE  Ahead(c)' <= Ahead(c)
      <3>1. CASE b = c
        <4>1. Ahead(c)' < Ahead(c)
          BY <2>2, <3>1, CopyMoves
        <4>2. stage[c] \in Stages /\ stage'[c] \in Stages
          BY <2>2, <3>1 DEF TypeOK, Stages, CopyStep, OpenFails, OpenBoth, CopyEnds,
             CopyFails, TransferDone, Goto
        <4> QED
          BY <4>1, <4>2 DEF Ahead, Stages
      <3>2. CASE b # c
        BY <2>1, <2>2, <3>2, CopyMoves
      <3> QED
        BY <3>1, <3>2
    <2>3. ASSUME NEW b \in CopyIds, NEW s \in Sides, NEW n \in Names, StartTransfer(b, s, n)
          PROVE  Ahead(c)' <= Ahead(c)
      <3>1. stage[b] = "none" /\ stage' = [stage EXCEPT ![b] = "begin"]
        BY <2>3 DEF StartTransfer
      <3>2. CASE b = c
        <4>1. stage[c] = "none" /\ stage'[c] = "begin"
          BY <3>1, <3>2 DEF TypeOK
        <4> QED
          BY <4>1 DEF Ahead
      <3>3. CASE b # c
        BY <2>1, <3>1, <3>3 DEF TypeOK
      <3> QED
        BY <3>2, <3>3
    <2>4. CASE stage' = stage
      BY <2>1, <2>4
    <2> QED
      BY <2>2, <2>3, <2>4 DEF Next, User, Teardown, CancelTransfer, StartEdit, Connect,
         LinkDrops, LinkHangs, EditFails, RunDelete, RunRename, EditRest, copyVars
  <1>3. ASSUME IInv, NEW c \in CopyIds, TransferDone(c)
        PROVE  transfer' # c
    <2>1. 0 # c
      BY TransferAssumption DEF CopyIds
    <2>2. transfer = c => cgen[c] = gen
      BY <1>3 DEF IInv, OneTransfer
    <2> QED
      BY <1>3, <2>1, <2>2 DEF TransferDone
  <1>4. IInv /\ [Next]_vars =>
          [\A c \in CopyIds :
             /\ Ahead(c)' <= Ahead(c)
             /\ CopyStep(c) \/ TransferDone(c) => Ahead(c)' < Ahead(c)
             /\ TransferDone(c) => transfer' # c]_vars
    BY <1>2, <1>3, CopyMoves DEF IInv
  <1> QED
    BY <1>1, <1>4, Invariance, PTL DEF Spec
=============================================================================
