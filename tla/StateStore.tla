----------------------------- MODULE StateStore -----------------------------
(***************************************************************************)
(* state.rs on a POSIX file system: `save` as its system calls, `load` at  *)
(* the start of the daemon, and between any two of them an I/O error, the  *)
(* end of the process or the loss of power.                                *)
(*                                                                         *)
(* The file system is external and modelled by what it guarantees.  File   *)
(* contents that were not fsynced may be lost or torn by a loss of power;  *)
(* a rename that the directory's fsync did not follow may be undone by it; *)
(* a directory that `save` made may be lost with all that it holds, as     *)
(* `save` does not fsync the directory that holds it.  The kernel may      *)
(* write anything back earlier.  The end of the process alone loses        *)
(* nothing.                                                                *)
(***************************************************************************)
EXTENDS Naturals

CONSTANTS Values,    \* desired states
          Initial,   \* the empty one, of a daemon that finds no file
          None,
          Torn,      \* contents that do not parse as a desired state
          NoFile,
          BareName,  \* the state path is a name without a directory
          Faults     \* what may go wrong: "io", "stat", "crash", "power"

ASSUME StoreAssumption ==
    /\ Initial \in Values /\ None \notin Values /\ Torn \notin Values
    /\ BareName \in BOOLEAN
    /\ Faults \subseteq {"io", "stat", "crash", "power"}

File == [data : Values \cup {Torn}, synced : BOOLEAN]

ASSUME NoFileAssumption == NoFile \notin File

VARIABLES
    pc,        \* the next system call of save, or "down" or "idle"
    saving,    \* the desired state being saved, or None
    path,      \* the file that the state path names
    kept,      \* the files that it may name if its directory outlives a
               \* loss of power
    tmp,       \* the file that the temporary path names
    directory, \* of the state path: "absent", "made" or "lasting" on disk
    loaded,    \* what the daemon that runs has started with, or None
    outcome,   \* of the last save: "none" while there is none, "ok", "error"
    acked      \* for the properties: what the last save stored, if it succeeded

files == <<path, kept, tmp, directory>>
vars == <<pc, saving, files, loaded, outcome, acked>>

SavePcs == {"mkdir", "create", "write", "sync_tmp", "rename", "sync_final",
            "sync_dir"}

Init ==
    /\ pc = "down" /\ saving = None
    /\ path = NoFile /\ kept = {NoFile} /\ tmp = NoFile
    /\ directory \in {"absent", "lasting"} /\ (BareName => directory = "lasting")
    /\ loaded = None /\ outcome = "none" /\ acked = Initial

(* A missing file is the empty desired state; one that does not parse      *)
(* refuses the start.                                                      *)
Contents(f) == IF f = NoFile THEN Initial ELSE f.data

StartWith(state) ==
    /\ pc = "down" /\ state # Torn
    /\ pc' = "idle" /\ loaded' = state
    /\ UNCHANGED <<saving, files, outcome, acked>>

Load == StartWith(Contents(path))

(* Path::exists is false whenever the path cannot be examined, also if the *)
(* file is there: the start goes by the empty state.                       *)
LoadUnseen == "stat" \in Faults /\ StartWith(Initial)

-----------------------------------------------------------------------------
\* Seeded bug: an empty state is encoded in the place of the one to save.
BeginForgetful(v) ==
    /\ pc = "idle"
    /\ pc' = "mkdir" /\ saving' = None /\ outcome' = "none" /\ acked' = None
    /\ UNCHANGED <<files, loaded>>

Begin(v) ==
    /\ pc = "idle"
    /\ pc' = "mkdir" /\ saving' = v /\ outcome' = "none" /\ acked' = None
    /\ UNCHANGED <<files, loaded>>

Step(from, to) ==
    pc = from /\ pc' = to /\ UNCHANGED <<saving, loaded, outcome, acked>>

MakeDirectory ==
    /\ Step("mkdir", "create")
    /\ directory' = IF directory = "absent" THEN "made" ELSE directory
    /\ UNCHANGED <<path, kept, tmp>>

CreateTmp ==
    /\ Step("create", "write")
    /\ tmp' = [data |-> Torn, synced |-> FALSE]
    /\ UNCHANGED <<path, kept, directory>>

WriteTmp ==
    /\ Step("write", "sync_tmp")
    /\ tmp' = [data |-> saving, synced |-> FALSE]
    /\ UNCHANGED <<path, kept, directory>>

\* Seeded bug: the temporary file is renamed without an fsync.
SyncTmpSkipped == Step("sync_tmp", "rename") /\ UNCHANGED files

SyncTmp ==
    /\ Step("sync_tmp", "rename")
    /\ tmp' = [tmp EXCEPT !.synced = TRUE]
    /\ UNCHANGED <<path, kept, directory>>

Rename ==
    /\ Step("rename", "sync_final")
    /\ path' = tmp /\ kept' = kept \cup {tmp} /\ tmp' = NoFile
    /\ UNCHANGED directory

SyncFinal ==
    /\ Step("sync_final", "sync_dir")
    /\ path' = [path EXCEPT !.synced = TRUE]
    /\ kept' = (kept \ {path}) \cup {path'}
    /\ UNCHANGED <<tmp, directory>>

Succeed ==
    /\ pc' = "idle" /\ saving' = None /\ outcome' = "ok" /\ acked' = saving
    /\ UNCHANGED loaded

\* Seeded bug: the directory is not fsynced.
SyncDirectorySkipped == pc = "sync_dir" /\ ~BareName /\ Succeed /\ UNCHANGED files

(* The parent of a bare name is "", which cannot be opened.                *)
SyncDirectory ==
    /\ pc = "sync_dir" /\ ~BareName
    /\ kept' = {path} /\ Succeed
    /\ UNCHANGED <<path, tmp, directory>>

\* Seeded bug: an I/O error is reported as success.
FailUnnoticed == pc \in SavePcs /\ "io" \in Faults /\ Succeed /\ UNCHANGED files

Fail ==
    /\ pc \in SavePcs
    /\ "io" \in Faults \/ (pc = "sync_dir" /\ BareName)
    /\ pc' = "idle" /\ saving' = None /\ outcome' = "error"
    /\ UNCHANGED <<files, loaded, acked>>

-----------------------------------------------------------------------------
GoDown ==
    /\ pc' = "down" /\ saving' = None /\ loaded' = None /\ outcome' = "none"
    /\ UNCHANGED acked

Crash == "crash" \in Faults /\ pc # "down" /\ GoDown /\ UNCHANGED files

(* What a file may be after a loss of power.                               *)
Remains(f) ==
    IF f = NoFile THEN {NoFile}
    ELSE {[data |-> d, synced |-> TRUE] :
            d \in IF f.synced THEN {f.data} ELSE {f.data, Torn}}

(* What is left at the temporary path does not matter: it is overwritten.  *)
PowerLoss ==
    /\ "power" \in Faults /\ GoDown
    /\ \/ /\ \E f \in kept : path' \in Remains(f)
          /\ directory' = IF directory = "made" THEN "lasting" ELSE directory
       \/ directory = "made" /\ directory' = "absent" /\ path' = NoFile
    /\ kept' = {path'} /\ tmp' = NoFile

WriteBack ==
    /\ path # NoFile
    /\ path' = [path EXCEPT !.synced = TRUE]
    /\ kept' = {path'}
    /\ UNCHANGED <<pc, saving, tmp, directory, loaded, outcome, acked>>

WriteBackDirectory ==
    /\ directory = "made" /\ directory' = "lasting"
    /\ UNCHANGED <<pc, saving, path, kept, tmp, loaded, outcome, acked>>

Next ==
    \/ Load \/ LoadUnseen \/ \E v \in Values : Begin(v)
    \/ MakeDirectory \/ CreateTmp \/ WriteTmp \/ SyncTmp
    \/ Rename \/ SyncFinal \/ SyncDirectory \/ Fail
    \/ Crash \/ PowerLoss \/ WriteBack \/ WriteBackDirectory

Spec == Init /\ [][Next]_vars

-----------------------------------------------------------------------------
TypeOK ==
    /\ pc \in {"down", "idle"} \cup SavePcs
    /\ saving \in Values \cup {None}
    /\ path \in File \cup {NoFile}
    /\ kept \subseteq File \cup {NoFile}
    /\ tmp \in File \cup {NoFile}
    /\ directory \in {"absent", "made", "lasting"}
    /\ loaded \in Values \cup {None}
    /\ outcome \in {"none", "ok", "error"}
    /\ acked \in Values \cup {None}

(* A start never finds a file that does not parse, whenever the process or *)
(* the power ended (DF-004, atomic replace).                               *)
NeverTorn ==
    /\ Contents(path) # Torn
    /\ \A f \in kept : \A r \in Remains(f) : Contents(r) # Torn

(* A save that meets no fault succeeds.                                    *)
HealthySaves == Faults = {} => outcome # "error"

(* The store implements AtomicStore (ORCH-002, DF-004): what the last      *)
(* successful save stored is what a start goes by, if the directory lasts  *)
(* and the path can be examined.                                           *)
Abstract == INSTANCE AtomicStore WITH
    Unseen <- "stat" \in Faults,
    status <- CASE pc = "down" -> "down"
                [] pc = "idle" -> "up"
                [] OTHER -> "saving",
    lasting <- directory = "lasting",
    possible <- {Contents(r) : r \in UNION {Remains(f) : f \in kept}}
                   \cup (IF directory = "lasting" THEN {} ELSE {Initial})

ImplementsAtomicStore == Abstract!Spec

(* What the last successful save stored is all that the path may hold, now *)
(* and after a loss of power, from the moment that its directory lasts.    *)
StoredIsDurable == Abstract!Durable
=============================================================================
