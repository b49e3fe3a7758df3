--------------------------- MODULE TaskApiProofs ---------------------------
(***************************************************************************)
(* What clients were told is on disk, and what was removed is not, for any *)
(* number of tasks, request handlers, disk faults and restarts.            *)
(***************************************************************************)
EXTENDS TaskApi, FiniteSetTheorems, TLAPS

Ops == {"none", "other", "add", "addInvalid", "change", "saveSession", "delete",
        "pauseAll", "unpauseAll"}

Calls == [op : Ops, todo : SUBSET Tasks, task : Tasks \cup {None}, copy : Nat]

Statuses == {"none", "gone", "pending", "downloading", "paused", "failed"}

TypeOK ==
    /\ queue \subseteq Tasks
    /\ status \in [Tasks -> Statuses]
    /\ rev \in [Tasks -> Nat] /\ disk \in [Tasks -> Nat] /\ told \in [Tasks -> Nat]
    /\ call \in [Callers -> Calls]
    /\ deleted \subseteq Tasks /\ unsaved \subseteq Tasks /\ raced \subseteq Tasks

\* Caller c is going to save t, which has been in the queue.
Saves(c, t) ==
    /\ call[c].op \in Saving
    /\ t = call[c].task \/ (call[c].op = "saveSession" /\ t \in call[c].todo)

Deletes(c, t) == call[c].op = "delete" /\ t = call[c].task

Adds(c, t) == call[c].op \in {"add", "addInvalid"} /\ t \in call[c].todo

\* A task that has not been created is nowhere.
NewUntouched ==
    \A t \in Tasks : status[t] = "none" =>
        /\ told[t] = 0 /\ t \notin queue \cup deleted
        /\ \A c \in Callers : ~Saves(c, t) /\ ~Deletes(c, t)

\* What a caller is going to add is new, and nobody else has it.
AddsNew ==
    \A c \in Callers, t \in Tasks : Adds(c, t) =>
        status[t] = "none" /\ \A d \in Callers \ {c} : t \notin call[d].todo

\* The task in memory is as new as any answer about it, for as long as
\* somebody may save it, in the queue or not.
MemoryAhead ==
    \A t \in Tasks : t \in queue \/ (\E c \in Callers : Saves(c, t)) =>
        rev[t] > 0 /\ told[t] <= rev[t]

\* The copy a Save has taken stays as new as any answer, because no other
\* Save gets the lock.
CopySound ==
    \A c \in Callers : call[c].copy # 0 =>
        /\ call[c].op \in Saving /\ call[c].task # None
        /\ told[call[c].task] <= call[c].copy /\ call[c].copy <= rev[call[c].task]
        /\ \A d \in Callers \ {c} : call[d].copy = 0

\* A task that is being removed does not come back, and whoever may still
\* save it had it before.
RemovedForGood ==
    /\ \A c \in Callers : call[c].op = "delete" => call[c].task # None
    /\ \A t \in Tasks : t \in deleted \/ (\E c \in Callers : Deletes(c, t)) =>
          t \notin queue /\ status[t] # "none" /\ (Held(t) => t \in raced)

IInv ==
    /\ TypeOK /\ NewUntouched /\ AddsNew /\ MemoryAhead /\ CopySound
    /\ RemovedForGood /\ ToldIsDurable /\ RemovedLeavesNoFile

LEMMA InitIInv == Init => IInv
<1> SUFFICES ASSUME Init PROVE IInv
    OBVIOUS
<1>1. \A c \in Callers : call[c] \in {Idle, Elsewhere}
    BY DEF Init
<1>2. TypeOK
    BY <1>1, ApiAssumption DEF Init, TypeOK, Idle, Elsewhere, Calls, Ops, Statuses
<1>3. NewUntouched /\ AddsNew /\ MemoryAhead /\ CopySound /\ RemovedForGood
    BY <1>1, ApiAssumption DEF Init, Idle, Elsewhere, Saving, NewUntouched, AddsNew, MemoryAhead,
       CopySound, RemovedForGood, Saves, Deletes, Adds, Held
<1>4. ToldIsDurable /\ RemovedLeavesNoFile
    BY DEF Init, ToldIsDurable, RemovedLeavesNoFile
<1> QED BY <1>2, <1>3, <1>4 DEF IInv

-----------------------------------------------------------------------------
(* Steps that leave the callers and the disk alone.                         *)

\* The queue may lose tasks and revisions may grow.
LEMMA QuietIInv ==
    ASSUME IInv, UNCHANGED <<disk, call, ghosts>>,
           queue' \subseteq queue, status' \in [Tasks -> Statuses],
           \A t \in Tasks : status'[t] = "none" <=> status[t] = "none",
           rev' \in [Tasks -> Nat], \A t \in Tasks : rev[t] <= rev'[t]
    PROVE  IInv'
<1> USE DEF IInv, TypeOK, ghosts, Saves, Deletes, Adds, Held
<1>1. TypeOK'
    OBVIOUS
<1>2. NewUntouched' /\ AddsNew'
    BY DEF NewUntouched, AddsNew
<1>3. MemoryAhead'
    BY DEF MemoryAhead
<1>4. CopySound'
    <2> SUFFICES ASSUME NEW c \in Callers, call[c].copy # 0
                 PROVE  call[c].copy <= rev'[call[c].task]
        BY DEF CopySound
    <2>1. call[c].task \in Tasks /\ call[c].copy <= rev[call[c].task] /\ call[c].copy \in Nat
        BY DEF CopySound, Calls
    <2> QED BY <2>1
<1>5. RemovedForGood'
    BY DEF RemovedForGood
<1>6. ToldIsDurable' /\ RemovedLeavesNoFile'
    BY DEF ToldIsDurable, RemovedLeavesNoFile
<1> QED BY <1>1, <1>2, <1>3, <1>4, <1>5, <1>6

LEMMA TaskStepIInv ==
    ASSUME NEW t \in Tasks, IInv,
           \/ QueueStarts(t) \/ Finishes(t) \/ SetError(t)
           \/ \E h \in Handlers : pause(h, t) \/ unpause(h, t) \/ applyOptionsRefuses(h, t)
    PROVE  IInv'
<1> USE DEF IInv, TypeOK, SetStatus, Statuses, Pausable, Resumable
<1>1. CASE QueueStarts(t)
    BY <1>1, QuietIInv DEF QueueStarts
<1>2. CASE Finishes(t)
    BY <1>2, QuietIInv DEF Finishes
<1>3. CASE SetError(t)
    BY <1>3, QuietIInv DEF SetError
<1>4. CASE \E h \in Handlers : pause(h, t)
    BY <1>4, QuietIInv DEF pause
<1>5. CASE \E h \in Handlers : unpause(h, t)
    BY <1>5, QuietIInv DEF unpause
<1>6. CASE \E h \in Handlers : applyOptionsRefuses(h, t)
    BY <1>6, QuietIInv DEF applyOptionsRefuses
<1> QED BY <1>1, <1>2, <1>3, <1>4, <1>5, <1>6

LEMMA OtherQuietIInv ==
    ASSUME IInv,
           \/ \E h \in Handlers : purgeDownloadResult(h)
           \/ Stop \/ Shutdown \/ shutdown \/ Restart \/ UNCHANGED vars
    PROVE  IInv'
<1> USE DEF IInv, TypeOK, memory, vars
<1>1. CASE \E h \in Handlers : purgeDownloadResult(h)
    BY <1>1, QuietIInv DEF purgeDownloadResult, Statuses
<1>2. CASE Stop \/ Shutdown \/ shutdown \/ Restart \/ UNCHANGED vars
    BY <1>2, QuietIInv DEF Stop, Shutdown, shutdown, Closes, Restart
<1> QED BY <1>1, <1>2

-----------------------------------------------------------------------------
(* Requests.                                                                *)

\* A request that finds everything as it is and takes on tasks of the queue.
LEMMA BeginIInv ==
    ASSUME NEW c \in Callers, IInv, call[c] = Idle,
           NEW op \in {"change", "saveSession", "pauseAll", "unpauseAll"},
           NEW todo \in SUBSET queue, NEW task \in queue \cup {None},
           Begin(c, op, todo, task), UNCHANGED <<queue, status, disk, ghosts>>,
           rev' \in [Tasks -> Nat], \A t \in Tasks : rev[t] <= rev'[t]
    PROVE  IInv'
<1> USE ApiAssumption DEF IInv, TypeOK, Begin, Idle, ghosts
<1>1. TypeOK'
    BY DEF Calls, Ops
<1>2. NewUntouched'
    BY DEF NewUntouched, Saves, Deletes, Saving
<1>3. AddsNew'
    BY DEF AddsNew, Adds, NewUntouched
<1>4. MemoryAhead'
    BY DEF MemoryAhead, Saves, Saving
<1>5. CopySound'
    BY DEF CopySound, Calls
<1>6. RemovedForGood'
    BY DEF RemovedForGood, Deletes, Held, Saving
<1>7. ToldIsDurable' /\ RemovedLeavesNoFile'
    BY DEF ToldIsDurable, RemovedLeavesNoFile
<1> QED BY <1>1, <1>2, <1>3, <1>4, <1>5, <1>6, <1>7

\* One that takes on the whole queue.
LEMMA SameIInv ==
    ASSUME NEW c \in Callers, IInv, call[c] = Idle,
           NEW op \in {"saveSession", "pauseAll", "unpauseAll"},
           Begin(c, op, queue, None), UNCHANGED <<memory, disk, ghosts>>
    PROVE  IInv'
<1>1. rev' \in [Tasks -> Nat] /\ \A t \in Tasks : rev[t] <= rev'[t]
    BY DEF IInv, TypeOK, memory
<1> QED BY <1>1, BeginIInv DEF memory

LEMMA AddAllIInv ==
    ASSUME NEW h \in Handlers, NEW S \in SUBSET Tasks, NEW op \in {"add", "addInvalid"},
           IInv, AddAll(h, S, op)
    PROVE  IInv'
<1> USE ApiAssumption DEF IInv, TypeOK, AddAll, Begin, Request, Idle, ghosts, memory, Callers
<1>1. TypeOK'
    BY DEF Calls, Ops
<1>2. NewUntouched'
    BY DEF NewUntouched, Saves, Deletes, Saving
<1>3. AddsNew'
    BY DEF AddsNew, Adds
<1>4. MemoryAhead'
    BY DEF MemoryAhead, Saves, Saving
<1>5. CopySound'
    BY DEF CopySound
<1>6. RemovedForGood'
    BY DEF RemovedForGood, Deletes, Held, NewUntouched
<1>7. ToldIsDurable' /\ RemovedLeavesNoFile'
    BY DEF ToldIsDurable, RemovedLeavesNoFile
<1> QED BY <1>1, <1>2, <1>3, <1>4, <1>5, <1>6, <1>7

LEMMA TakeIInv ==
    ASSUME NEW h \in Handlers, NEW t \in queue, IInv, call[h] = Idle, Take(h, t)
    PROVE  IInv'
<1> USE ApiAssumption DEF IInv, TypeOK, Take, SetStatus, Begin, Idle, Callers
<1>1. TypeOK'
    BY DEF Calls, Ops, Statuses
<1>2. NewUntouched'
    BY DEF NewUntouched, Saves, Deletes, Saving
<1>3. AddsNew'
    BY DEF AddsNew, Adds, NewUntouched
<1>4. MemoryAhead'
    BY DEF MemoryAhead, Saves, Saving
<1>5. CopySound'
    BY DEF CopySound
<1>6. RemovedForGood'
    BY DEF RemovedForGood, Deletes, Held, Saving
<1>7. ToldIsDurable' /\ RemovedLeavesNoFile'
    BY DEF ToldIsDurable, RemovedLeavesNoFile
<1> QED BY <1>1, <1>2, <1>3, <1>4, <1>5, <1>6, <1>7

-----------------------------------------------------------------------------
(* What a request does next.                                                *)

LEMMA AddOneIInv ==
    ASSUME NEW h \in Handlers, NEW t \in Tasks, IInv, AddOne(h, t)
    PROVE  IInv'
<1> USE ApiAssumption DEF IInv, TypeOK, AddOne, GoOn, Begin, SetStatus, ghosts, Callers
<1>1. TypeOK'
    BY DEF Calls, Ops, Statuses
<1>2. NewUntouched'
    BY DEF NewUntouched, AddsNew, Adds, Saves, Deletes
<1>3. AddsNew'
    BY DEF AddsNew, Adds
<1>4. MemoryAhead'
    BY DEF MemoryAhead, Saves, NewUntouched, AddsNew, Adds
<1>5. CopySound'
    <2> SUFFICES ASSUME NEW c \in Callers, call'[c].copy # 0, c # h
                 PROVE  rev'[call[c].task] = rev[call[c].task]
        BY DEF CopySound
    <2>1. Saves(c, call[c].task) /\ call[c].task \in Tasks
        BY DEF CopySound, Saves, Calls
    <2>2. call[c].task # t
        BY <2>1 DEF NewUntouched, AddsNew, Adds
    <2> QED BY <2>1, <2>2
<1>6. RemovedForGood'
    BY DEF RemovedForGood, Held, Deletes, NewUntouched, AddsNew, Adds, Saving
<1>7. ToldIsDurable' /\ RemovedLeavesNoFile'
    BY DEF ToldIsDurable, RemovedLeavesNoFile
<1> QED BY <1>1, <1>2, <1>3, <1>4, <1>5, <1>6, <1>7

LEMMA AllNextIInv ==
    ASSUME NEW h \in Handlers, NEW t \in Tasks, IInv, AllNext(h, t)
    PROVE  IInv'
<1> USE ApiAssumption DEF IInv, TypeOK, AllNext, GoOn, Begin, Done, Idle, SetStatus, Pausable, Resumable,
                          ghosts, Callers
<1>1. TypeOK'
    BY DEF Calls, Ops, Statuses
<1>2. \A u \in Tasks : status'[u] = "none" <=> status[u] = "none"
    BY DEF Statuses
<1>3. NewUntouched'
    BY <1>2 DEF NewUntouched, Saves, Deletes, Saving
<1>4. AddsNew'
    BY <1>2 DEF AddsNew, Adds
<1>5. MemoryAhead'
    BY DEF MemoryAhead, Saves, Saving
<1>6. CopySound'
    BY DEF CopySound
<1>7. RemovedForGood'
    BY <1>2 DEF RemovedForGood, Deletes, Held, Saving
<1>8. ToldIsDurable' /\ RemovedLeavesNoFile'
    BY DEF ToldIsDurable, RemovedLeavesNoFile
<1> QED BY <1>1, <1>3, <1>4, <1>5, <1>6, <1>7, <1>8

\* The task is taken out of the queue before, and nobody saves meanwhile.
LEMMA DeleteIInv ==
    ASSUME NEW h \in Handlers, IInv, Delete(h)
    PROVE  IInv'
<1> USE ApiAssumption DEF IInv, TypeOK, Delete, Done, Idle, memory, Callers
<1>1. call[h].task \in Tasks
    BY DEF RemovedForGood, Calls
<1>2. TypeOK'
    BY <1>1 DEF Calls, Ops
<1>3. NewUntouched'
    BY <1>1 DEF NewUntouched, Saves, Deletes, Saving
<1>4. AddsNew'
    BY DEF AddsNew, Adds
<1>5. MemoryAhead'
    BY DEF MemoryAhead, Saves, Saving
<1>6. CopySound'
    BY DEF CopySound
<1>7. RemovedForGood'
    BY <1>1 DEF RemovedForGood, Deletes, Held, Saving
<1>8. ToldIsDurable' /\ RemovedLeavesNoFile'
    BY <1>1 DEF ToldIsDurable, RemovedLeavesNoFile
<1> QED BY <1>2, <1>3, <1>4, <1>5, <1>6, <1>7, <1>8

-----------------------------------------------------------------------------
(* Saving.                                                                  *)

LEMMA SaveNextIInv ==
    ASSUME NEW c \in Callers, NEW t \in Tasks, IInv, SaveNext(c, t)
    PROVE  IInv'
<1> USE ApiAssumption DEF IInv, TypeOK, SaveNext, GoOn, Begin, ghosts, memory
<1>1. TypeOK'
    BY DEF Calls, Ops
<1>2. NewUntouched'
    BY DEF NewUntouched, Saves, Deletes, Saving
<1>3. AddsNew'
    BY DEF AddsNew, Adds
<1>4. MemoryAhead'
    BY DEF MemoryAhead, Saves, Saving
<1>5. CopySound'
    BY DEF CopySound
<1>6. RemovedForGood'
    BY DEF RemovedForGood, Deletes, Held, Saving
<1>7. ToldIsDurable' /\ RemovedLeavesNoFile'
    BY DEF ToldIsDurable, RemovedLeavesNoFile
<1> QED BY <1>1, <1>2, <1>3, <1>4, <1>5, <1>6, <1>7

\* What the caller has to do stays, only the copy is new.
LEMMA SaveBeginsIInv ==
    ASSUME NEW c \in Callers, IInv, SaveBegins(c)
    PROVE  IInv'
<1> USE ApiAssumption DEF IInv, TypeOK, SaveBegins, Locked, ghosts, memory
<1> DEFINE t == call[c].task
<1>1. t \in Tasks /\ Saves(c, t)
    BY DEF Calls, Saves
<1>2. rev[t] \in Nat /\ rev[t] > 0 /\ told[t] <= rev[t]
    BY <1>1 DEF MemoryAhead
<1>3. /\ \A d \in Callers : /\ call'[d].op = call[d].op /\ call'[d].todo = call[d].todo
                            /\ call'[d].task = call[d].task
      /\ \A d \in Callers \ {c} : call'[d] = call[d]
      /\ call'[c].copy = rev[t]
    BY DEF Calls
<1>4. TypeOK'
    BY <1>2 DEF Calls
<1>5. NewUntouched' /\ AddsNew'
    BY <1>3 DEF NewUntouched, AddsNew, Adds, Saves, Deletes
<1>6. MemoryAhead'
    BY <1>3 DEF MemoryAhead, Saves
<1>7. CopySound'
    BY <1>1, <1>2, <1>3 DEF CopySound
<1>8. RemovedForGood'
    BY <1>3 DEF RemovedForGood, Deletes, Held
<1>9. ToldIsDurable' /\ RemovedLeavesNoFile'
    BY DEF ToldIsDurable, RemovedLeavesNoFile
<1> QED BY <1>4, <1>5, <1>6, <1>7, <1>8, <1>9

LEMMA SaveEndsIInv ==
    ASSUME NEW c \in Callers, IInv, SaveEnds(c)
    PROVE  IInv'
<1> USE ApiAssumption DEF IInv, TypeOK, SaveEnds, Done, GoOn, Begin, Idle, memory
<1> DEFINE t == call[c].task
           k == call[c].copy
<1>1. /\ t \in Tasks /\ k \in Nat /\ k # 0 /\ Saves(c, t) /\ Held(t)
      /\ told[t] <= k /\ k <= rev[t]
      /\ \A d \in Callers \ {c} : call[d].copy = 0
    BY DEF CopySound, Calls, Saves, Held
<1>2. told'[t] \in Nat /\ told'[t] <= k /\ told[t] <= told'[t]
      /\ \A u \in Tasks \ {t} : told'[u] = told[u]
    BY <1>1
<1>3. /\ call'[c].copy = 0 /\ call'[c].task = None
      /\ \A d \in Callers \ {c} : call'[d] = call[d]
      /\ \/ call'[c].op = call[c].op /\ call'[c].todo = call[c].todo
         \/ call'[c].op = "none" /\ call'[c].todo = {}
    <2>1. CASE call[c].todo = {}
        BY <2>1
    <2>2. CASE call[c].todo # {}
        BY <2>2
    <2> QED BY <2>1, <2>2
<1>4. TypeOK'
    BY <1>1, <1>2 DEF Calls, Ops
<1>5. NewUntouched'
    <2>1. status[t] # "none"
        BY <1>1 DEF NewUntouched
    <2> QED BY <1>1, <1>2, <1>3, <2>1 DEF NewUntouched, Saves, Deletes, Saving
<1>6. AddsNew'
    BY <1>3 DEF AddsNew, Adds
<1>7. MemoryAhead'
    BY <1>1, <1>2, <1>3 DEF MemoryAhead, Saves, Saving
<1>8. CopySound'
    BY <1>1, <1>3 DEF CopySound
<1>9. RemovedForGood'
    <2>1. \A u \in Tasks : Held(u)' => Held(u)
        BY <1>1, <1>3 DEF Held, Saving
    <2>2. \A u \in Tasks, d \in Callers : Deletes(d, u)' => Deletes(d, u)
        BY <1>3 DEF Deletes
    <2>3. \A d \in Callers : call'[d].op = "delete" => call'[d].task # None
        BY <1>1, <1>3 DEF RemovedForGood, CopySound, Saving
    <2> QED BY <2>1, <2>2, <2>3 DEF RemovedForGood
<1>10. ToldIsDurable'
    BY <1>1, <1>2 DEF ToldIsDurable
<1>11. RemovedLeavesNoFile'
    BY <1>1 DEF RemovedLeavesNoFile, RemovedForGood
<1> QED BY <1>4, <1>5, <1>6, <1>7, <1>8, <1>9, <1>10, <1>11

\* The process ends: callers and memory are gone, the disk stays.
LEMMA EndsIInv ==
    ASSUME IInv, Ends
    PROVE  IInv'
<1> USE ApiAssumption DEF IInv, TypeOK, Ends, Idle, Elsewhere, ghosts
<1>1. \A c \in Callers : call'[c] \in {Idle, Elsewhere}
    OBVIOUS
<1>2. TypeOK'
    BY <1>1 DEF Calls, Ops, Statuses
<1>3. NewUntouched' /\ AddsNew' /\ MemoryAhead' /\ CopySound'
    BY <1>1 DEF NewUntouched, AddsNew, Adds, MemoryAhead, CopySound, Saves, Deletes, Saving
<1>4. RemovedForGood'
    BY <1>1 DEF RemovedForGood, Deletes, Held, Saving
<1>5. ToldIsDurable' /\ RemovedLeavesNoFile'
    BY DEF ToldIsDurable, RemovedLeavesNoFile
<1> QED BY <1>2, <1>3, <1>4, <1>5

-----------------------------------------------------------------------------
LEMMA handleMethodIInv ==
    ASSUME NEW h \in Handlers, IInv,
           handleMethod(h) \/ \E t \in Tasks : createTask(h, t) \/ deleteTask(h, t)
    PROVE  IInv'
<1> USE DEF Callers
<1>1. ASSUME NEW S \in SUBSET Tasks, NEW op \in {"add", "addInvalid"}, addUri(h, S, op)
      PROVE  IInv'
    BY <1>1, AddAllIInv DEF addUri
<1>2. ASSUME NEW t \in Tasks, addTorrent(h, t) \/ addMetalink(h, t) \/ createTask(h, t)
      PROVE  IInv'
    BY <1>2, AddAllIInv DEF addTorrent, addMetalink, createTask
<1>3. ASSUME NEW t \in Tasks, remove(h, t) \/ removeDownloadResult(h, t) \/ deleteTask(h, t)
      PROVE  IInv'
    BY <1>3, TakeIInv DEF remove, removeDownloadResult, deleteTask, Request
<1>4. ASSUME NEW t \in Tasks, changeOption(h, t) \/ changeUri(h, t)
      PROVE  IInv'
    <2>1. rev' \in [Tasks -> Nat] /\ \A u \in Tasks : rev[u] <= rev'[u]
        BY <1>4 DEF changeOption, changeUri, IInv, TypeOK
    <2> QED BY <1>4, <2>1, BeginIInv DEF changeOption, changeUri, Request
<1>5. ASSUME NEW t \in Tasks, applyOptionsRefuses(h, t) \/ pause(h, t) \/ unpause(h, t)
      PROVE  IInv'
    BY <1>5, TaskStepIInv
<1>6. ASSUME NEW op \in {"pauseAll", "unpauseAll"}, forAll(h, op)
      PROVE  IInv'
    BY <1>6, SameIInv DEF forAll, Request
<1>7. CASE purgeDownloadResult(h)
    BY <1>7, OtherQuietIInv
<1>8. CASE saveSession(h)
    BY <1>8, SameIInv DEF saveSession, SaveAll, Request
<1> QED BY <1>1, <1>2, <1>3, <1>4, <1>5, <1>6, <1>7, <1>8 DEF handleMethod

LEMMA NextIInv == ASSUME IInv, [Next]_vars PROVE IInv'
<1>1. CASE autoSaveLoop
    BY <1>1, SameIInv DEF autoSaveLoop, SaveAll, Callers
<1>2. ASSUME NEW h \in Handlers, HandlerStep(h) PROVE IInv'
    BY <1>2, AddOneIInv, AllNextIInv, DeleteIInv DEF HandlerStep
<1>3. ASSUME NEW c \in Callers, SaveStep(c) PROVE IInv'
    BY <1>3, SaveNextIInv, SaveBeginsIInv, SaveEndsIInv DEF SaveStep
<1>4. CASE Exit \/ Crash
    BY <1>4, EndsIInv DEF Exit, Crash
<1> QED BY <1>1, <1>2, <1>3, <1>4, handleMethodIInv, TaskStepIInv, OtherQuietIInv DEF Next

THEOREM ApiInvariant == Spec => []IInv
    BY InitIInv, NextIInv, PTL DEF Spec

\* What an answer has confirmed (server.go:createTask, jsonrpc.go:addUri,
\* changeOption, changeUri) is on disk until the task's removal is confirmed
\* or the disk fails.
THEOREM ApiToldIsDurable == Spec => []ToldIsDurable
<1>1. IInv => ToldIsDurable
    BY DEF IInv
<1> QED BY <1>1, ApiInvariant, PTL

\* A removed task leaves a file only if somebody was about to save it or the
\* disk failed (server.go:deleteTask, jsonrpc.go:remove).
THEOREM ApiRemovedLeavesNoFile == Spec => []RemovedLeavesNoFile
<1>1. IInv => RemovedLeavesNoFile
    BY DEF IInv
<1> QED BY <1>1, ApiInvariant, PTL
=============================================================================
