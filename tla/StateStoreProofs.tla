-------------------------- MODULE StateStoreProofs --------------------------
(***************************************************************************)
(* Proofs, for any desired states and any faults, that the store never     *)
(* tears the desired-state file, keeps what it stored, and implements      *)
(* AtomicStore.                                                            *)
(***************************************************************************)
EXTENDS StateStore, TLAPS

USE StoreAssumption, NoFileAssumption

(* A file with these contents that a loss of power cannot harm.            *)
Durable(v) == [data |-> v, synced |-> TRUE]

(* The file survives whatever happens: it is absent, or fsynced.           *)
Safe(f) == f = NoFile \/ \E v \in Values : f = Durable(v)

(* Where save is: what it has put in the temporary file, and later in the  *)
(* file itself.                                                            *)
Progress ==
    /\ pc \in SavePcs => saving \in Values /\ acked = None
    /\ pc = "sync_tmp" => tmp = [data |-> saving, synced |-> FALSE]
    /\ pc = "rename" => tmp = Durable(saving)
    /\ pc \in {"sync_final", "sync_dir"} => path = Durable(saving)

KeptIsSafe == path \in kept /\ \A f \in kept : Safe(f)

(* There is a directory where save has got past making it, and no file     *)
(* where there is none.                                                    *)
DirectoryThere ==
    /\ pc \in SavePcs \ {"mkdir"} => directory # "absent"
    /\ directory = "absent" => kept = {NoFile}

(* What was stored is in every file that may be found, as long as its      *)
(* directory is there.                                                     *)
AckedIsKept ==
    acked # None /\ directory # "absent" => \A f \in kept : Contents(f) = acked

StoreInv == TypeOK /\ Progress /\ KeptIsSafe /\ DirectoryThere /\ AckedIsKept

LEMMA Synced ==
    ASSUME NEW f \in File
    PROVE  [f EXCEPT !.synced = TRUE] = Durable(f.data)
<1> DEFINE g == [f EXCEPT !.synced = TRUE]
<1>1. g \in File /\ g.data = f.data /\ g.synced = TRUE
  BY DEF File
<1>2. \A h \in File : h = [data |-> h.data, synced |-> h.synced]
  BY DEF File
<1> HIDE DEF g
<1>3. g = [data |-> g.data, synced |-> g.synced]
  BY <1>1, <1>2
<1>4. g = [data |-> f.data, synced |-> TRUE]
  BY <1>1, <1>3
<1> QED
  BY <1>4 DEF Durable, g

LEMMA DurableFiles ==
    ASSUME NEW v \in Values
    PROVE  /\ Durable(v) \in File /\ Safe(Durable(v)) /\ Durable(v) # NoFile
           /\ Contents(Durable(v)) = v /\ Remains(Durable(v)) = {Durable(v)}
           /\ [Durable(v) EXCEPT !.synced = TRUE] = Durable(v)
<1>1. Durable(v) \in File /\ Durable(v).data = v /\ Durable(v).synced
  BY DEF Durable, File
<1>2. Durable(v) # NoFile
  BY <1>1
<1>3. Safe(Durable(v))
  BY DEF Safe
<1>4. Contents(Durable(v)) = v
  BY <1>1, <1>2 DEF Contents
<1>5. Remains(Durable(v)) = {[data |-> v, synced |-> TRUE]}
  BY <1>1, <1>2 DEF Remains
<1>6. [Durable(v) EXCEPT !.synced = TRUE] = Durable(v)
  BY <1>1, Synced
<1> QED
  BY <1>1, <1>2, <1>3, <1>4, <1>5, <1>6 DEF Durable

LEMMA SafeFiles ==
    ASSUME NEW f, Safe(f)
    PROVE  /\ f \in File \cup {NoFile}
           /\ Remains(f) = {f}
           /\ Contents(f) \in Values
           /\ f # NoFile => [f EXCEPT !.synced = TRUE] = f
<1>1. CASE f = NoFile
  BY <1>1 DEF Remains, Contents
<1>2. CASE f # NoFile
  <2>1. PICK v \in Values : f = Durable(v)
    BY <1>2 DEF Safe
  <2> QED
    BY <2>1, DurableFiles, Zenon
<1> QED
  BY <1>1, <1>2

LEMMA InvInit == Init => StoreInv
BY DEF Init, StoreInv, TypeOK, Progress, KeptIsSafe, DirectoryThere, AckedIsKept,
       Safe, SavePcs, Contents

(* The files themselves are only touched by these steps, each of which     *)
(* leaves files that are safe.                                             *)
LEMMA RenameKept ==
    ASSUME StoreInv, Rename
    PROVE  /\ saving \in Values /\ acked = None
           /\ path' = Durable(saving) /\ kept' = kept \cup {Durable(saving)}
           /\ KeptIsSafe'
<1>1. saving \in Values /\ acked = None /\ tmp = Durable(saving)
  BY DEF StoreInv, Progress, Rename, Step, SavePcs
<1>2. path' = Durable(saving) /\ kept' = kept \cup {Durable(saving)}
  BY <1>1 DEF Rename
<1> QED
  BY <1>1, <1>2, DurableFiles DEF StoreInv, KeptIsSafe

LEMMA SyncFinalKept ==
    ASSUME StoreInv, SyncFinal
    PROVE  path' = path /\ kept' = kept
<1>1. path = Durable(saving) /\ saving \in Values /\ path \in kept
  BY DEF StoreInv, Progress, KeptIsSafe, SyncFinal, Step, SavePcs
<1>2. path' = path
  BY <1>1, SafeFiles, DurableFiles DEF SyncFinal
<1> QED
  BY <1>1, <1>2 DEF SyncFinal

LEMMA SyncDirectoryKept ==
    ASSUME StoreInv, SyncDirectory
    PROVE  /\ saving \in Values /\ path = Durable(saving)
           /\ kept' = {path} /\ KeptIsSafe' /\ DirectoryThere' /\ AckedIsKept'
<1>1. saving \in Values /\ path = Durable(saving) /\ kept' = {path} /\ path' = path
      /\ acked' = saving /\ directory # "absent" /\ directory' = directory
  BY DEF StoreInv, Progress, DirectoryThere, SyncDirectory, Succeed, SavePcs
<1> QED
  BY <1>1, DurableFiles DEF KeptIsSafe, DirectoryThere, AckedIsKept,
                            SyncDirectory, Succeed, SavePcs

LEMMA PowerLossKept ==
    ASSUME StoreInv, PowerLoss
    PROVE  /\ kept' = {path'} /\ KeptIsSafe' /\ DirectoryThere' /\ AckedIsKept'
           /\ \/ /\ path' \in kept
                 /\ directory' = IF directory = "made" THEN "lasting" ELSE directory
              \/ /\ path' = NoFile
                 /\ directory = "made" /\ directory' = "absent"
<1>1. kept' = {path'} /\ acked' = acked /\ pc' = "down"
  BY DEF PowerLoss, GoDown
<1>2. CASE directory = "made" /\ directory' = "absent" /\ path' = NoFile
  BY <1>1, <1>2 DEF KeptIsSafe, Safe, DirectoryThere, AckedIsKept, SavePcs
<1>3. CASE /\ \E f \in kept : path' \in Remains(f)
           /\ directory' = IF directory = "made" THEN "lasting" ELSE directory
  <2>1. PICK f \in kept : path' \in Remains(f)
    BY <1>3
  <2>2. Safe(f) /\ path' = f
    BY <2>1, SafeFiles DEF StoreInv, KeptIsSafe
  <2> QED
    BY <1>1, <1>3, <2>1, <2>2
       DEF StoreInv, KeptIsSafe, DirectoryThere, AckedIsKept, SavePcs
<1> QED
  BY <1>2, <1>3 DEF PowerLoss

LEMMA WriteBackKept ==
    ASSUME StoreInv, WriteBack
    PROVE  /\ path' = path /\ kept' = {path}
           /\ KeptIsSafe' /\ DirectoryThere' /\ AckedIsKept'
<1>1. Safe(path) /\ path \in kept /\ path # NoFile
  BY DEF StoreInv, KeptIsSafe, WriteBack
<1>2. path' = path /\ kept' = {path}
  BY <1>1, SafeFiles DEF WriteBack
<1> QED
  BY <1>1, <1>2 DEF WriteBack, StoreInv, KeptIsSafe, DirectoryThere, AckedIsKept

LEMMA InvStep == StoreInv /\ [Next]_vars => StoreInv'
<1> SUFFICES ASSUME StoreInv, [Next]_vars
             PROVE  StoreInv'
  OBVIOUS
<1> USE DEF StoreInv
<1>1. CASE Load \/ LoadUnseen
  <2>1. PICK state \in Values : StartWith(state)
    <3>1. Contents(path) \in Values
      BY SafeFiles DEF KeptIsSafe
    <3> QED
      BY <1>1, <3>1 DEF Load, LoadUnseen
  <2> QED
    BY <2>1 DEF StartWith, files, TypeOK, Progress, KeptIsSafe, DirectoryThere,
                AckedIsKept, SavePcs
<1>2. CASE \/ Crash \/ Fail \/ UNCHANGED vars
           \/ \E v \in Values : Begin(v)
  BY <1>2 DEF Crash, GoDown, Fail, Begin, vars, files, TypeOK, Progress, KeptIsSafe,
              DirectoryThere, AckedIsKept, SavePcs
<1>3. CASE MakeDirectory \/ CreateTmp \/ WriteTmp
  <2>1. /\ tmp' \in File \cup {NoFile}
        /\ pc' = "sync_tmp" => tmp' = [data |-> saving', synced |-> FALSE]
    <3>1. CASE MakeDirectory
      BY <1>3, <3>1 DEF MakeDirectory, Step, TypeOK
    <3>2. CASE CreateTmp
      BY <1>3, <3>2 DEF CreateTmp, Step, File
    <3>3. CASE WriteTmp
      BY <1>3, <3>3 DEF WriteTmp, Step, File, Progress, SavePcs
    <3> QED
      BY <1>3, <3>1, <3>2, <3>3
  <2>2. /\ pc \in SavePcs /\ pc' \in {"create", "write", "sync_tmp"}
        /\ UNCHANGED <<saving, loaded, outcome, acked, path, kept>>
    BY <1>3 DEF MakeDirectory, CreateTmp, WriteTmp, Step, SavePcs
  <2>3. directory' \in {"made", "lasting"}
    BY <1>3 DEF MakeDirectory, CreateTmp, WriteTmp, Step, SavePcs, TypeOK,
                DirectoryThere
  <2> QED
    BY <2>1, <2>2, <2>3 DEF TypeOK, Progress, KeptIsSafe, DirectoryThere, AckedIsKept,
                            SavePcs
<1>4. CASE SyncTmp
  <2>1. saving \in Values /\ tmp' = Durable(saving)
    <3>1. saving \in Values /\ tmp = [data |-> saving, synced |-> FALSE]
      BY <1>4 DEF SyncTmp, Step, Progress, SavePcs
    <3>2. tmp \in File /\ tmp.data = saving
      BY <3>1 DEF File
    <3>3. tmp' = [tmp EXCEPT !.synced = TRUE]
      BY <1>4 DEF SyncTmp
    <3> QED
      BY <3>1, <3>2, <3>3, Synced
  <2> QED
    BY <1>4, <2>1, DurableFiles
       DEF SyncTmp, Step, TypeOK, Progress, KeptIsSafe, DirectoryThere, AckedIsKept,
           SavePcs
<1>5. CASE Rename
  <2>1. TypeOK'
    BY <1>5, RenameKept, DurableFiles DEF Rename, Step, TypeOK, SavePcs
  <2>2. Progress' /\ DirectoryThere' /\ AckedIsKept'
    BY <1>5, RenameKept DEF Rename, Step, Progress, DirectoryThere, AckedIsKept, SavePcs
  <2> QED
    BY <1>5, <2>1, <2>2, RenameKept
<1>6. CASE SyncFinal
  BY <1>6, SyncFinalKept
     DEF SyncFinal, Step, TypeOK, Progress, KeptIsSafe, DirectoryThere, AckedIsKept,
         SavePcs
<1>7. CASE SyncDirectory
  BY <1>7, SyncDirectoryKept DEF SyncDirectory, Succeed, TypeOK, Progress, SavePcs
<1>8. CASE PowerLoss
  BY <1>8, PowerLossKept DEF PowerLoss, GoDown, TypeOK, Progress, SavePcs
<1>9. CASE WriteBack
  BY <1>9, WriteBackKept DEF WriteBack, TypeOK, Progress, SavePcs
<1>10. CASE WriteBackDirectory
  BY <1>10 DEF WriteBackDirectory, TypeOK, Progress, KeptIsSafe, DirectoryThere,
               AckedIsKept, SavePcs
<1> QED
  BY <1>1, <1>2, <1>3, <1>4, <1>5, <1>6, <1>7, <1>8, <1>9, <1>10 DEF Next

THEOREM StoreInvariant == Spec => []StoreInv
BY InvInit, InvStep, PTL DEF Spec

(* The files, the progress of save and what was acknowledged always have   *)
(* their types.                                                            *)
THEOREM StoreTypeCorrect == Spec => []TypeOK
<1>1. StoreInv => TypeOK
  BY DEF StoreInv
<1> QED
  BY <1>1, StoreInvariant, PTL

(* A start never finds a file that does not parse, wherever the process or *)
(* the power ended (DF-004).                                               *)
THEOREM FileNeverTorn == Spec => []NeverTorn
<1>1. StoreInv => NeverTorn
  <2> SUFFICES ASSUME StoreInv
               PROVE  NeverTorn
    OBVIOUS
  <2>1. \A f \in kept : Remains(f) = {f} /\ Contents(f) \in Values
    BY SafeFiles DEF StoreInv, KeptIsSafe
  <2> QED
    BY <2>1 DEF NeverTorn, StoreInv, KeptIsSafe
<1> QED
  BY <1>1, StoreInvariant, PTL

-----------------------------------------------------------------------------
(* A save that meets no fault succeeds, if the state path has a directory: *)
(* a bare name, for which bare refutes this, is all that can make it fail. *)
THEOREM HealthySavesSucceed ==
    ASSUME ~BareName
    PROVE  Spec => []HealthySaves
<1>1. Init => HealthySaves
  BY DEF Init, HealthySaves
<1>2. HealthySaves /\ [Next]_vars => HealthySaves'
  BY DEF HealthySaves, Next, Load, LoadUnseen, StartWith, Begin, Step, MakeDirectory,
         CreateTmp, WriteTmp, SyncTmp, Rename, SyncFinal, SyncDirectory, Succeed, Fail,
         Crash, GoDown, PowerLoss, WriteBack, WriteBackDirectory, vars
<1> QED
  BY <1>1, <1>2, PTL DEF Spec

-----------------------------------------------------------------------------
(* The refinement.  These are what Abstract is given for its variables of  *)
(* these names; under the invariant, possible is the contents of the files *)
(* kept, and the empty state unless the directory lasts.                   *)
lasting == directory = "lasting"

Lost == IF directory = "lasting" THEN {} ELSE {Initial}

possible == {Contents(r) : r \in UNION {Remains(f) : f \in kept}}
               \cup (IF directory = "lasting" THEN {} ELSE {Initial})

LEMMA ContentsOfSafe ==
    ASSUME NEW fs, \A f \in fs : Safe(f)
    PROVE  {Contents(r) : r \in UNION {Remains(f) : f \in fs}} = {Contents(f) : f \in fs}
BY SafeFiles

LEMMA PossibleIsKept ==
    ASSUME KeptIsSafe
    PROVE  possible = {Contents(f) : f \in kept} \cup Lost
BY ContentsOfSafe DEF possible, KeptIsSafe, Lost

(* What the last successful save stored is all that the path may hold, now *)
(* and after a loss of power, until the next save begins, from the moment  *)
(* that the directory lasts (ORCH-002, DF-004).                            *)
THEOREM StoredStaysDurable == Spec => []StoredIsDurable
<1>1. StoreInv => StoredIsDurable
  <2> SUFFICES ASSUME StoreInv, acked # None, directory = "lasting"
               PROVE  possible = {acked}
    BY DEF StoredIsDurable, Abstract!Durable, possible
  <2>1. path \in kept /\ \A f \in kept : Contents(f) = acked
    BY DEF StoreInv, KeptIsSafe, AckedIsKept
  <2> QED
    BY <2>1, PossibleIsKept DEF StoreInv, Lost
<1> QED
  BY <1>1, StoreInvariant, PTL

status == CASE pc = "down" -> "down"
            [] pc = "idle" -> "up"
            [] OTHER -> "saving"

LEMMA StatusOf ==
    /\ pc = "down" <=> status = "down"
    /\ pc = "idle" <=> status = "up"
    /\ pc \in SavePcs => status = "saving"
BY DEF status, SavePcs

LEMMA InitRefines == Init => Abstract!Init
<1> SUFFICES ASSUME Init
             PROVE  Abstract!Init
  OBVIOUS
<1>1. KeptIsSafe /\ kept = {NoFile} /\ Contents(NoFile) = Initial
  BY InvInit DEF StoreInv, Init, Contents
<1>2. possible = {Initial}
  BY <1>1, PossibleIsKept DEF Lost
<1> QED
  BY <1>2, StatusOf DEF Init, Abstract!Init, status, possible

LEMMA StepRefines ==
    ASSUME StoreInv, StoreInv', [Next]_vars
    PROVE  [Abstract!Next]_(Abstract!vars)
<1>0. path \in kept /\ path' \in kept'
  BY DEF StoreInv, KeptIsSafe
<1>1. /\ possible = {Contents(f) : f \in kept} \cup Lost /\ possible # {}
      /\ possible' = {Contents(f) : f \in kept'} \cup Lost'
  <2>1. possible = {Contents(f) : f \in kept} \cup Lost
    BY PossibleIsKept DEF StoreInv
  <2>2. possible' = {Contents(r) : r \in UNION {Remains(f) : f \in kept'}} \cup Lost'
    BY DEF possible, Lost, Contents, Remains
  <2>3. {Contents(r) : r \in UNION {Remains(f) : f \in kept'}}
           = {Contents(f) : f \in kept'}
    BY ContentsOfSafe DEF StoreInv, KeptIsSafe, Safe
  <2>4. possible # {}
    BY <1>0, <2>1
  <2> QED
    BY <2>1, <2>2, <2>3, <2>4
<1>2. status' = CASE pc' = "down" -> "down"
                  [] pc' = "idle" -> "up"
                  [] OTHER -> "saving"
  BY DEF status
<1> USE DEF Lost, lasting
<1>3. CASE Load \/ LoadUnseen
  <2>1. PICK state : /\ StartWith(state)
                     /\ state \in possible \/ ("stat" \in Faults /\ state = Initial)
    BY <1>0, <1>1, <1>3 DEF Load, LoadUnseen
  <2>2. /\ status = "down" /\ status' = "up" /\ loaded' = state
        /\ UNCHANGED <<saving, acked, possible, lasting>>
    BY <1>1, <1>2, <2>1 DEF StartWith, status, files
  <2> QED
    BY <2>1, <2>2 DEF Abstract!Next, Abstract!Load, Abstract!LoadUnseen,
                      Abstract!StartWith, status, possible
<1>4. CASE \E v \in Values : Begin(v)
  <2>1. PICK v \in Values : Begin(v)
    BY <1>4
  <2>2. /\ status = "up" /\ status' = "saving" /\ saving' = v /\ acked' = None
        /\ UNCHANGED <<possible, lasting, loaded>>
    BY <1>1, <1>2, <2>1 DEF Begin, files, status
  <2> QED
    BY <2>2 DEF Abstract!Next, Abstract!Begin, status, possible
<1>5. CASE MakeDirectory \/ CreateTmp \/ WriteTmp \/ SyncTmp \/ SyncFinal
  <2>1. kept' = kept /\ lasting' = lasting /\ UNCHANGED <<saving, acked, loaded>>
    BY <1>5, SyncFinalKept
       DEF MakeDirectory, CreateTmp, WriteTmp, SyncTmp, SyncFinal, Step
  <2>2. status = "saving" /\ status' = "saving"
    BY <1>2, <1>5
       DEF MakeDirectory, CreateTmp, WriteTmp, SyncTmp, SyncFinal, Step, status
  <2> QED
    BY <1>1, <2>1, <2>2 DEF Abstract!vars, status, possible
<1>6. CASE Rename
  <2>1. possible' = possible \cup {saving} /\ lasting' = lasting
    BY <1>1, <1>6, RenameKept, DurableFiles DEF Rename
  <2>2. status = "saving" /\ status' = "saving" /\ UNCHANGED <<saving, acked, loaded>>
    BY <1>2, <1>6 DEF Rename, Step, status
  <2> QED
    BY <2>1, <2>2 DEF Abstract!Next, Abstract!TakeEffect, status, possible
<1>7. CASE SyncDirectory
  <2>1. possible' = {saving} \cup Lost /\ lasting' = lasting
    BY <1>1, <1>7, SyncDirectoryKept, DurableFiles DEF SyncDirectory
  <2>2. /\ status = "saving" /\ status' = "up"
        /\ acked' = saving /\ saving' = None /\ loaded' = loaded
    BY <1>2, <1>7 DEF SyncDirectory, Succeed, status
  <2> QED
    BY <2>1, <2>2 DEF Abstract!Next, Abstract!Succeed, status, possible
<1>8. CASE Fail
  <2>1. /\ status = "saving" /\ status' = "up" /\ saving' = None
        /\ UNCHANGED <<acked, possible, lasting, loaded>>
    BY <1>1, <1>2, <1>8, StatusOf DEF Fail, files
  <2> QED
    BY <2>1 DEF Abstract!Next, Abstract!Fail, status, possible
<1>9. CASE Crash
  <2>1. /\ status' = "down" /\ saving' = None /\ loaded' = None /\ acked' = acked
        /\ UNCHANGED <<possible, lasting>>
    BY <1>1, <1>2, <1>9 DEF Crash, GoDown, files
  <2> QED
    BY <1>1, <2>1
       DEF Abstract!Next, Abstract!Stop, Abstract!Narrow, status, possible
<1>10. CASE PowerLoss
  <2>1. kept' = {path'} /\ possible' = {Contents(path')} \cup Lost'
    BY <1>1, <1>10, PowerLossKept
  <2>2. /\ possible' \in (SUBSET possible) \ {{}} /\ lasting' \in {lasting, TRUE}
        /\ ~lasting /\ lasting' /\ acked # None => possible' = {acked}
    <3>1. CASE /\ path' \in kept
               /\ directory' = IF directory = "made" THEN "lasting" ELSE directory
      BY <1>1, <2>1, <3>1 DEF StoreInv, AckedIsKept
    <3>2. CASE path' = NoFile /\ directory = "made" /\ directory' = "absent"
      BY <1>1, <2>1, <3>2 DEF Contents
    <3> QED
      BY <1>10, <3>1, <3>2, PowerLossKept
  <2>3. status' = "down" /\ saving' = None /\ loaded' = None /\ acked' = acked
    BY <1>2, <1>10 DEF PowerLoss, GoDown
  <2> QED
    BY <2>2, <2>3
       DEF Abstract!Next, Abstract!Stop, Abstract!Narrow, status, possible
<1>11. CASE WriteBack \/ WriteBackDirectory
  <2>1. /\ possible' \in (SUBSET possible) \ {{}} /\ lasting' \in {lasting, TRUE}
        /\ ~lasting /\ lasting' /\ acked # None => possible' = {acked}
    <3>1. CASE WriteBack
      BY <1>0, <1>1, <3>1, WriteBackKept DEF WriteBack
    <3>2. CASE WriteBackDirectory
      <4>1. possible' = {Contents(f) : f \in kept}
        BY <1>1, <3>2 DEF WriteBackDirectory
      <4>2. acked # None => possible' = {acked}
        BY <1>0, <3>2, <4>1 DEF WriteBackDirectory, StoreInv, AckedIsKept
      <4>3. possible' \in (SUBSET possible) \ {{}}
        <5>1. possible = possible' \cup Lost
          BY <1>1, <4>1
        <5>2. Contents(path) \in possible'
          BY <1>0, <4>1
        <5> QED
          BY <5>1, <5>2
      <4>4. lasting' = TRUE
        BY <3>2 DEF WriteBackDirectory
      <4> QED
        BY <4>2, <4>3, <4>4
    <3> QED
      BY <1>11, <3>1, <3>2
  <2>2. status' = status /\ UNCHANGED <<saving, acked, loaded>>
    BY <1>11 DEF WriteBack, WriteBackDirectory, status
  <2> QED
    BY <2>1, <2>2
       DEF Abstract!Next, Abstract!Settle, Abstract!Narrow, status, possible
<1>12. CASE UNCHANGED vars
  BY <1>12 DEF vars, files, Abstract!vars
<1> QED
  BY <1>3, <1>4, <1>5, <1>6, <1>7, <1>8, <1>9, <1>10, <1>11, <1>12 DEF Next

(* The system calls of save, with any faults between them, and the starts  *)
(* implement the store that AtomicStore describes (ORCH-002, DF-004).      *)
THEOREM StoreRefines == Spec => ImplementsAtomicStore
BY InitRefines, StepRefines, InvInit, InvStep, StoreInvariant, PTL
   DEF Spec, ImplementsAtomicStore, Abstract!Spec
=============================================================================
