----------------------------- MODULE FileStore -----------------------------
(***************************************************************************)
(* The file of one task in internal/task/store.go and controlfile.go (the  *)
(* two stores write their files in the same way): Save, Load, LoadAll and  *)
(* Delete of several store instances - a daemon and a command line tool,   *)
(* or the ControlFileStores that the downloader makes for every call - on  *)
(* one directory, one system call per action.  s.mu admits one operation   *)
(* at a time per instance; between instances there is only the file        *)
(* system.  An instance can be killed and the machine can crash between    *)
(* any two calls.                                                          *)
(***************************************************************************)
EXTENDS Naturals, FiniteSets

CONSTANTS Stores,  \* store instances
          Values,  \* the contents written
          Inodes,  \* lock files (inodes); one more than stores is enough
          Absent,  \* no such file
          Torn,    \* an empty or half written file
          None     \* no inode, no result

ASSUME FileAssumption ==
    /\ Absent \notin Values /\ Torn \notin Values /\ Absent # Torn
    /\ None \notin Inodes \cup Values \cup {Absent, Torn}

Contents == Values \cup {Absent, Torn}

VARIABLES dst,       \* the file, as a reader finds it
          survivors, \* what may be found after a crash of the machine
          tmp,       \* the temp file of a Save; Absent when there is none
          synced,    \* the Saves whose temp file has been fsynced
          stale,     \* temp files left behind by killed instances
          lockPath,  \* the inode under the name <file>.lock
          lockFile,  \* the lock file an instance has open
          locked,    \* the instances that hold flock on their lock file
          pc,        \* the next call of an instance
          got        \* what its last Load or LoadAll returned

lockVars == <<lockPath, lockFile, locked>>
vars == <<dst, survivors, tmp, synced, stale, lockPath, lockFile, locked, pc, got>>

Steps == {"idle", "flock", "create", "write", "sync", "rename", "syncDir",
          "unlock", "rmLock", "sweep"}

Init ==
    /\ dst = Absent /\ survivors = {Absent}
    /\ tmp = [s \in Stores |-> Absent]
    /\ synced = {}
    /\ stale = FALSE
    /\ lockPath = None
    /\ lockFile = [s \in Stores |-> None]
    /\ locked = {}
    /\ pc = [s \in Stores |-> "idle"]
    /\ got = [s \in Stores |-> None]

-----------------------------------------------------------------------------
Step(s, from, to) == pc[s] = from /\ pc' = [pc EXCEPT ![s] = to]

\* os.OpenFile(lockPath, O_RDWR|O_CREATE).
OpenLock(s) ==
    /\ Step(s, "idle", "flock")
    /\ \E i \in Inodes :
          /\ IF lockPath = None THEN \A r \in Stores : lockFile[r] # i ELSE i = lockPath
          /\ lockPath' = i
          /\ lockFile' = [lockFile EXCEPT ![s] = i]
    /\ UNCHANGED <<dst, survivors, tmp, synced, stale, locked, got>>

\* flockFile: LOCK_EX|LOCK_NB, so a lock that is taken fails the Save; its
\* deferred calls then remove the lock file, whoever holds it.
Flock(s) ==
    /\ \/ /\ \A r \in locked : lockFile[r] # lockFile[s]
          /\ Step(s, "flock", "create")
          /\ locked' = locked \cup {s}
       \/ /\ \E r \in locked : lockFile[r] = lockFile[s]
          /\ Step(s, "flock", "rmLock")
          /\ UNCHANGED locked
    /\ UNCHANGED <<dst, survivors, tmp, synced, stale, lockPath, lockFile, got>>

\* os.CreateTemp: an empty file under a name of its own, or an error.
CreateTemp(s) ==
    /\ \/ Step(s, "create", "write") /\ tmp' = [tmp EXCEPT ![s] = Torn]
       \/ Step(s, "create", "unlock") /\ UNCHANGED tmp
    /\ UNCHANGED <<dst, survivors, synced, stale, lockVars, got>>

WriteTemp_InPlace(s, v) ==
    /\ Step(s, "write", "sync")
    /\ dst' = Torn /\ tmp' = [tmp EXCEPT ![s] = v]
    /\ UNCHANGED <<survivors, synced, stale, lockVars, got>>

\* tmp.Write: all of it, or an error after which the temp file is removed.
\* (A sweep may have unlinked the file; writing to it still succeeds.)
WriteTemp(s, v) ==
    /\ \/ /\ Step(s, "write", "sync")
          /\ tmp' = [tmp EXCEPT ![s] = IF tmp[s] = Absent THEN Absent ELSE v]
       \/ Step(s, "write", "unlock") /\ tmp' = [tmp EXCEPT ![s] = Absent]
    /\ UNCHANGED <<dst, survivors, synced, stale, lockVars, got>>

SyncTemp_Skipped(s) ==
    /\ Step(s, "sync", "rename")
    /\ UNCHANGED <<dst, survivors, tmp, synced, stale, lockVars, got>>

\* tmp.Sync and tmp.Close, with the same error path.
SyncTemp(s) ==
    /\ \/ Step(s, "sync", "rename") /\ synced' = synced \cup {s} /\ UNCHANGED tmp
       \/ /\ Step(s, "sync", "unlock") /\ UNCHANGED synced
          /\ tmp' = [tmp EXCEPT ![s] = Absent]
    /\ UNCHANGED <<dst, survivors, stale, lockVars, got>>

\* What of the temp file reaches the disk: all of it only when fsynced.
OnDisk(s) == IF s \in synced THEN {tmp[s]} ELSE {tmp[s], Torn}

\* os.Rename: replaces the file in one step; fails when the temp file is gone
\* and otherwise may fail, and then the temp file is removed.
Rename(s) ==
    /\ \/ /\ tmp[s] # Absent
          /\ Step(s, "rename", "syncDir")
          /\ dst' = tmp[s] /\ survivors' = survivors \cup OnDisk(s)
       \/ Step(s, "rename", "unlock") /\ UNCHANGED <<dst, survivors>>
    /\ tmp' = [tmp EXCEPT ![s] = Absent]
    /\ synced' = synced \ {s}
    /\ UNCHANGED <<stale, lockVars, got>>

\* fsync of the directory; its failure is not fatal.
SyncDir(s) ==
    /\ Step(s, "syncDir", "unlock")
    /\ survivors' \in {survivors, {dst}}
    /\ UNCHANGED <<dst, tmp, synced, stale, lockVars, got>>

\* The deferred unflockFile, then os.Remove(lockPath) and lockFile.Close().
Unflock(s) ==
    /\ Step(s, "unlock", "rmLock")
    /\ locked' = locked \ {s}
    /\ UNCHANGED <<dst, survivors, tmp, synced, stale, lockPath, lockFile, got>>

RemoveLock(s) ==
    /\ Step(s, "rmLock", "idle")
    /\ lockPath' = None
    /\ lockFile' = [lockFile EXCEPT ![s] = None]
    /\ UNCHANGED <<dst, survivors, tmp, synced, stale, locked, got>>

-----------------------------------------------------------------------------
\* Load: the file that was opened is the one that is read, also when it is
\* replaced meanwhile.  (Its flock fails while another Load reads the file;
\* the error changes nothing.)
Load(s) ==
    /\ pc[s] = "idle"
    /\ got' = [got EXCEPT ![s] = dst]
    /\ UNCHANGED <<dst, survivors, tmp, synced, stale, lockVars, pc>>

\* LoadAll, for this file: os.ReadDir, then every temp file in the listing is
\* removed and every task file read.  A temp file that a Save has at the
\* moment may be in the listing; one left behind by a killed instance is.
LoadAll(s) ==
    /\ Step(s, "idle", "sweep")
    /\ UNCHANGED <<dst, survivors, tmp, synced, stale, lockVars, got>>

SweepTemp(s) ==
    /\ pc[s] = "sweep"
    /\ \E r \in Stores :
          /\ tmp[r] # Absent
          /\ tmp' = [tmp EXCEPT ![r] = Absent]
          /\ synced' = synced \ {r}
    /\ UNCHANGED <<dst, survivors, stale, lockVars, pc, got>>

SweepEnds(s) ==
    /\ Step(s, "sweep", "idle")
    /\ stale' = FALSE
    /\ got' = [got EXCEPT ![s] = dst]
    /\ UNCHANGED <<dst, survivors, tmp, synced, lockVars>>

\* os.Remove of the file.  Nothing syncs the directory.
Delete(s) ==
    /\ pc[s] = "idle" /\ dst # Absent
    /\ dst' = Absent /\ survivors' = survivors \cup {Absent}
    /\ UNCHANGED <<tmp, synced, stale, lockVars, pc, got>>

-----------------------------------------------------------------------------
\* The process of s is killed: the kernel closes its files.
Kill(s) ==
    /\ pc[s] # "idle"
    /\ pc' = [pc EXCEPT ![s] = "idle"]
    /\ stale' = (stale \/ tmp[s] # Absent)
    /\ tmp' = [tmp EXCEPT ![s] = Absent]
    /\ synced' = synced \ {s}
    /\ lockFile' = [lockFile EXCEPT ![s] = None]
    /\ locked' = locked \ {s}
    /\ UNCHANGED <<dst, survivors, lockPath, got>>

\* The machine stops and comes up again.
Crash ==
    /\ dst' \in survivors /\ survivors' = {dst'}
    /\ stale' = (stale \/ \E s \in Stores : tmp[s] # Absent)
    /\ tmp' = [s \in Stores |-> Absent]
    /\ synced' = {}
    /\ lockFile' = [s \in Stores |-> None]
    /\ locked' = {}
    /\ pc' = [s \in Stores |-> "idle"]
    /\ got' = [s \in Stores |-> None]
    /\ UNCHANGED lockPath

SaveStep(s) ==
    \/ OpenLock(s) \/ Flock(s) \/ CreateTemp(s) \/ (\E v \in Values : WriteTemp(s, v))
    \/ SyncTemp(s) \/ Rename(s) \/ SyncDir(s) \/ Unflock(s) \/ RemoveLock(s)

ReadStep(s) == Load(s) \/ LoadAll(s) \/ SweepTemp(s) \/ SweepEnds(s)

Next ==
    \/ \E s \in Stores : SaveStep(s) \/ ReadStep(s) \/ Delete(s) \/ Kill(s)
    \/ Crash

Spec == Init /\ [][Next]_vars

-----------------------------------------------------------------------------
(* Correctness.                                                             *)

TypeOK ==
    /\ dst \in Contents /\ survivors \in SUBSET Contents
    /\ tmp \in [Stores -> Contents]
    /\ synced \subseteq Stores
    /\ stale \in BOOLEAN
    /\ lockPath \in Inodes \cup {None}
    /\ lockFile \in [Stores -> Inodes \cup {None}]
    /\ locked \subseteq Stores
    /\ pc \in [Stores -> Steps]
    /\ got \in [Stores -> Contents \cup {None}]

\* "a crash mid-write would leave a zero-length file and the task would be
\* lost on the next LoadAll" (comment in Save): no reader ever gets a torn
\* file, whatever fails, is killed or crashes, and whoever else saves.
NeverTorn == dst # Torn /\ Torn \notin survivors /\ \A s \in Stores : got[s] # Torn

\* The stores implement an atomic, crash-surviving file, lock or no lock.
File == INSTANCE AtomicFile WITH value <- dst

Atomic == File!Spec

=============================================================================
