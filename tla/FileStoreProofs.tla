-------------------------- MODULE FileStoreProofs --------------------------
(***************************************************************************)
(* The task file is never torn and is an atomic file, for any number of    *)
(* store instances and values.                                             *)
(***************************************************************************)
EXTENDS FileStore, TLAPS

\* A temp file is complete once written and on disk once it may be renamed,
\* unless a sweep has removed it.
TempSound ==
    \A s \in Stores :
        /\ pc[s] \in {"sync", "rename"} => tmp[s] # Torn
        /\ pc[s] = "rename" => s \in synced \/ tmp[s] = Absent

\* The inductive invariant.
IInv == TypeOK /\ NeverTorn /\ TempSound

LEMMA InitIInv == Init => IInv
    BY FileAssumption DEF Init, IInv, TypeOK, NeverTorn, TempSound, Contents, Steps

LEMMA SaveStepIInv ==
    ASSUME NEW s \in Stores, IInv, SaveStep(s)
    PROVE  IInv'
<1> USE FileAssumption DEF IInv, TypeOK, NeverTorn, TempSound, Contents, Steps, Step, lockVars
<1>1. CASE OpenLock(s)
    BY <1>1 DEF OpenLock
<1>2. CASE Flock(s)
    BY <1>2 DEF Flock
<1>3. CASE CreateTemp(s)
    BY <1>3 DEF CreateTemp
<1>4. ASSUME NEW v \in Values, WriteTemp(s, v) PROVE IInv'
    BY <1>4 DEF WriteTemp
<1>5. CASE SyncTemp(s)
    BY <1>5 DEF SyncTemp
<1>6. CASE Rename(s)
    BY <1>6 DEF Rename, OnDisk
<1>7. CASE SyncDir(s)
    BY <1>7 DEF SyncDir
<1>8. CASE Unflock(s)
    BY <1>8 DEF Unflock
<1>9. CASE RemoveLock(s)
    BY <1>9 DEF RemoveLock
<1> QED BY <1>1, <1>2, <1>3, <1>4, <1>5, <1>6, <1>7, <1>8, <1>9 DEF SaveStep

LEMMA OtherStepIInv ==
    ASSUME NEW s \in Stores, IInv, ReadStep(s) \/ Delete(s) \/ Kill(s)
    PROVE  IInv'
<1> USE FileAssumption DEF IInv, TypeOK, NeverTorn, TempSound, Contents, Steps, Step, lockVars
<1>1. CASE Load(s)
    BY <1>1 DEF Load
<1>2. CASE LoadAll(s)
    BY <1>2 DEF LoadAll
<1>3. CASE SweepTemp(s)
    BY <1>3 DEF SweepTemp
<1>4. CASE SweepEnds(s)
    BY <1>4 DEF SweepEnds
<1>5. CASE Delete(s)
    BY <1>5 DEF Delete
<1>6. CASE Kill(s)
    BY <1>6 DEF Kill
<1> QED BY <1>1, <1>2, <1>3, <1>4, <1>5, <1>6 DEF ReadStep

LEMMA NextIInv == ASSUME IInv, [Next]_vars PROVE IInv'
<1>1. CASE Crash
    BY <1>1, FileAssumption
    DEF Crash, IInv, TypeOK, NeverTorn, TempSound, Contents, Steps
<1>2. CASE UNCHANGED vars
    BY <1>2 DEF vars, IInv, TypeOK, NeverTorn, TempSound
<1> QED BY <1>1, <1>2, SaveStepIInv, OtherStepIInv DEF Next

THEOREM FileInvariant == Spec => []IInv
    BY InitIInv, NextIInv, PTL DEF Spec

\* No reader of the task file ever gets a torn one.
THEOREM FileNeverTorn == Spec => []NeverTorn
<1>1. IInv => NeverTorn
    BY DEF IInv
<1> QED BY <1>1, FileInvariant, PTL

-----------------------------------------------------------------------------
\* Every step on the directory is a step of the atomic file, or none at all.
LEMMA StepIsAtomic ==
    ASSUME IInv, [Next]_vars
    PROVE  [File!Next]_<<dst, survivors>>
<1> USE DEF File!Next, File!Write, File!Flush, File!Crash
<1>1. ASSUME NEW s \in Stores, Rename(s) PROVE [File!Next]_<<dst, survivors>>
    <2>1. CASE dst' = tmp[s] /\ survivors' = survivors \cup OnDisk(s)
               /\ tmp[s] # Absent /\ pc[s] = "rename"
        <3>1. tmp[s] \in Values /\ OnDisk(s) = {tmp[s]}
            BY <2>1, <1>1 DEF IInv, TypeOK, TempSound, Contents, OnDisk
        <3> QED BY <2>1, <3>1
    <2> QED BY <1>1, <2>1 DEF Rename, Step
<1>2. ASSUME NEW s \in Stores, SyncDir(s) PROVE [File!Next]_<<dst, survivors>>
    BY <1>2 DEF SyncDir
<1>3. ASSUME NEW s \in Stores, Delete(s) PROVE [File!Next]_<<dst, survivors>>
    BY <1>3 DEF Delete
<1>4. CASE Crash
    BY <1>4 DEF Crash
<1>5. ASSUME NEW s \in Stores, SaveStep(s), ~Rename(s), ~SyncDir(s)
      PROVE  UNCHANGED <<dst, survivors>>
    BY <1>5 DEF SaveStep, OpenLock, Flock, CreateTemp, WriteTemp, SyncTemp, Unflock, RemoveLock
<1>6. ASSUME NEW s \in Stores, ReadStep(s) \/ Kill(s)
      PROVE  UNCHANGED <<dst, survivors>>
    BY <1>6 DEF ReadStep, Load, LoadAll, SweepTemp, SweepEnds, Kill
<1>7. CASE UNCHANGED vars
    BY <1>7 DEF vars
<1> QED BY <1>1, <1>2, <1>3, <1>4, <1>5, <1>6, <1>7 DEF Next

\* The stores implement the atomic file of AtomicFile.
THEOREM FileAtomic == Spec => Atomic
<1>1. Init => File!Init
    BY DEF Init, File!Init
<1> QED BY <1>1, StepIsAtomic, FileInvariant, PTL DEF Spec, Atomic, File!Spec

=============================================================================
