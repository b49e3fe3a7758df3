------------------------------ MODULE TaskApi ------------------------------
(***************************************************************************)
(* The request handlers of internal/api/server.go and jsonrpc.go between   *)
(* the queue in memory and the task store on disk, the automatic save, and *)
(* runServe's shutdown (cmd/afd/main.go).                                  *)
(*                                                                         *)
(* A caller is the goroutine of a request or the autosave loop.  A queue   *)
(* operation is one step here: what happens between its critical sections  *)
(* is in TaskQueue, which tasks the queue starts and how downloads end in  *)
(* DownloadManager.  Save holds the store's lock from the copy of the task *)
(* it takes to the rename that puts it on disk (FileStore has the steps    *)
(* between).  The contents of a task are a revision number, raised by each *)
(* change of its options or URL; a torn copy of a task that is being       *)
(* changed is overwritten by the changer's own Save and not told apart.    *)
(***************************************************************************)
EXTENDS Integers, FiniteSets

CONSTANTS
    Tasks,        \* task IDs
    Handlers,     \* goroutines serving requests
    Autosave,     \* the goroutine of autoSaveLoop
    None,
    MaxRev,       \* bound: revisions of a task
    MaxFaults,    \* bound: failures of the disk
    MaxRestarts   \* bound: restarts of the process

Callers == Handlers \cup {Autosave}

ASSUME ApiAssumption ==
    /\ IsFiniteSet(Tasks)
    /\ Autosave \notin Handlers /\ None \notin Tasks
    /\ MaxRev \in Nat \ {0} /\ MaxFaults \in Nat /\ MaxRestarts \in Nat

VARIABLES
    queue,        \* the IDs in the queue's map
    status,       \* task.Status; "none": not created yet
    rev,          \* the task in memory
    disk,         \* the task's file, 0 when there is none
    call,         \* what each caller is doing
    process,      \* "up", "stopping" (Stop waits for the autosave loop),
                  \* "closing" (Shutdown: no new requests), "down"
    restarts, faults,
    \* what clients were told
    told,         \* the last revision of a task an answer has confirmed
    deleted,      \* tasks whose removal has been confirmed
    \* excuses
    unsaved,      \* tasks whose last Save or Delete failed: it is only logged
    raced         \* tasks another caller was about to save when they were removed

memory == <<queue, status, rev>>
ghosts == <<told, deleted, unsaved, raced>>
vars == <<memory, disk, call, process, restarts, faults, ghosts>>

\* op: the request; todo: the tasks it still has to go through; task: the
\* one it is saving or deleting; copy: the revision Save has taken under the
\* lock, 0 without it.
Idle == [op |-> "none", todo |-> {}, task |-> None, copy |-> 0]

Saving == {"add", "addInvalid", "change", "saveSession"}

\* A goroutine that is not given any of these requests.
Elsewhere == [op |-> "other", todo |-> {}, task |-> None, copy |-> 0]

\* runServe: an empty queue.  Nothing is loaded from the store.  IDs that are
\* "gone" were used by an earlier process.
Init ==
    /\ queue = {} /\ status \in [Tasks -> {"none", "gone"}] /\ rev = [t \in Tasks |-> 0]
    /\ disk = [t \in Tasks |-> 0]
    /\ call \in [Callers -> {Idle, Elsewhere}]
    /\ process = "up" /\ restarts \in 0..MaxRestarts /\ faults \in 0..MaxFaults
    /\ told = [t \in Tasks |-> 0] /\ deleted = {} /\ unsaved = {} /\ raced = {}

----------------------------------------------------------------------------
(* Helpers.                                                                *)

SetStatus(t, s) == status' = [status EXCEPT ![t] = s]

\* A request arrives.  Once the server is closing it is the next call of a
\* multicall that came before.
Request(h) == call[h] = Idle /\ process # "down"

Begin(c, op, todo, task) ==
    call' = [call EXCEPT ![c] = [op |-> op, todo |-> todo, task |-> task, copy |-> 0]]

Done(c) == call' = [call EXCEPT ![c] = Idle]

\* The next task of a request that goes through several.
GoOn(c, todo, task) == Begin(c, call[c].op, todo, task)

Held(t) == \E c \in Callers : call[c].op \in Saving /\ (t \in call[c].todo \/ t = call[c].task)

----------------------------------------------------------------------------
(* Adding tasks: each goes into the queue and is then saved.               *)

AddAll(h, S, op) ==
    /\ Request(h)
    /\ \A t \in S : status[t] = "none" /\ \A c \in Callers : t \notin call[c].todo
    /\ Begin(h, op, S, None)
    /\ UNCHANGED <<memory, disk, process, restarts, faults, ghosts>>

\* With an invalid URI among them the call fails, and the tasks of the URIs
\* before it stay.
addUri(h, S, op) == S # {} /\ AddAll(h, S, op)

createTask(h, t) == AddAll(h, {t}, "add")

addTorrent(h, t) == AddAll(h, {t}, "add")

addMetalink(h, t) == AddAll(h, {t}, "add")

AddOne(h, t) ==
    /\ call[h].op \in {"add", "addInvalid"} /\ call[h].task = None /\ t \in call[h].todo
    /\ queue' = queue \cup {t}
    /\ SetStatus(t, "pending")
    /\ rev' = [rev EXCEPT ![t] = 1]
    /\ GoOn(h, call[h].todo \ {t}, t)
    /\ UNCHANGED <<disk, process, restarts, faults, ghosts>>

----------------------------------------------------------------------------
(* remove, removeDownloadResult, deleteTask: the queue, then the file.     *)

Take(h, t) ==
    /\ queue' = queue \ {t}
    /\ SetStatus(t, "gone")
    /\ raced' = IF Held(t) THEN raced \cup {t} ELSE raced
    /\ Begin(h, "delete", {}, t)
    /\ UNCHANGED <<rev, disk, process, restarts, faults, told, deleted, unsaved>>

remove(h, t) == Request(h) /\ t \in queue /\ Take(h, t)

deleteTask(h, t) == Request(h) /\ t \in queue /\ Take(h, t)

removeDownloadResult(h, t) == Request(h) /\ t \in queue /\ status[t] = "failed" /\ Take(h, t)

Locked == \E c \in Callers : call[c].copy # 0

Delete_Forgotten(h) ==
    /\ call[h].op = "delete" /\ ~Locked
    /\ deleted' = deleted \cup {call[h].task}
    /\ Done(h)
    /\ UNCHANGED <<memory, disk, process, restarts, faults, told, unsaved, raced>>

\* The answer does not depend on whether the file could be deleted.
Delete(h) ==
    /\ call[h].op = "delete" /\ ~Locked
    /\ \/ disk' = [disk EXCEPT ![call[h].task] = 0] /\ UNCHANGED <<faults, unsaved>>
       \/ /\ faults < MaxFaults /\ faults' = faults + 1
          /\ unsaved' = unsaved \cup {call[h].task} /\ UNCHANGED disk
    /\ deleted' = deleted \cup {call[h].task}
    /\ Done(h)
    /\ UNCHANGED <<memory, process, restarts, told, raced>>

\* purgeDownloadResult: the files stay.
purgeDownloadResult(h) ==
    /\ Request(h)
    /\ \E t \in queue : status[t] = "failed"
    /\ queue' = {t \in queue : status[t] # "failed"}
    /\ status' = [t \in Tasks |-> IF status[t] = "failed" THEN "gone" ELSE status[t]]
    /\ UNCHANGED <<rev, disk, call, process, restarts, faults, ghosts>>

----------------------------------------------------------------------------
(* Changing a task.                                                        *)

changeOption(h, t) ==
    /\ Request(h) /\ t \in queue /\ rev[t] < MaxRev
    /\ rev' = [rev EXCEPT ![t] = @ + 1]
    /\ Begin(h, "change", {}, t)
    /\ UNCHANGED <<queue, status, disk, process, restarts, faults, ghosts>>

\* applyOptions refuses the priority when it has set the other options: the
\* call fails, and the task is neither as it was nor saved.
applyOptionsRefuses(h, t) ==
    /\ Request(h) /\ t \in queue /\ rev[t] < MaxRev
    /\ rev' = [rev EXCEPT ![t] = @ + 1]
    /\ UNCHANGED <<queue, status, disk, call, process, restarts, faults, ghosts>>

\* The first of the new URIs, if any, becomes the task's URL, whether or not
\* the old one is to be deleted; the task is saved in any case.
changeUri(h, t) ==
    /\ Request(h) /\ t \in queue
    /\ \/ rev[t] < MaxRev /\ rev' = [rev EXCEPT ![t] = @ + 1]
       \/ UNCHANGED rev
    /\ Begin(h, "change", {}, t)
    /\ UNCHANGED <<queue, status, disk, process, restarts, faults, ghosts>>

----------------------------------------------------------------------------
(* pause, unpause and the calls for all tasks: nothing is saved.           *)

Pausable(t) == t \in queue /\ status[t] = "downloading"
Resumable(t) == t \in queue /\ status[t] = "paused"

pause(h, t) ==
    /\ Request(h) /\ Pausable(t)
    /\ SetStatus(t, "paused")
    /\ UNCHANGED <<queue, rev, disk, call, process, restarts, faults, ghosts>>

unpause(h, t) ==
    /\ Request(h) /\ Resumable(t)
    /\ SetStatus(t, "pending")
    /\ UNCHANGED <<queue, rev, disk, call, process, restarts, faults, ghosts>>

\* The tasks listed now are paused or resumed one by one, each as it is then.
forAll(h, op) ==
    /\ Request(h) /\ op \in {"pauseAll", "unpauseAll"} /\ queue # {}
    /\ Begin(h, op, queue, None)
    /\ UNCHANGED <<memory, disk, process, restarts, faults, ghosts>>

\* REST tries pending tasks too, and Pause refuses them.
AllNext(h, t) ==
    /\ call[h].op \in {"pauseAll", "unpauseAll"} /\ t \in call[h].todo
    /\ \/ call[h].op = "pauseAll" /\ Pausable(t) /\ SetStatus(t, "paused")
       \/ call[h].op = "unpauseAll" /\ Resumable(t) /\ SetStatus(t, "pending")
       \/ /\ ~(call[h].op = "pauseAll" /\ Pausable(t))
          /\ ~(call[h].op = "unpauseAll" /\ Resumable(t))
          /\ UNCHANGED status
    /\ IF call[h].todo = {t} THEN Done(h) ELSE GoOn(h, call[h].todo \ {t}, None)
    /\ UNCHANGED <<queue, rev, disk, process, restarts, faults, ghosts>>

----------------------------------------------------------------------------
(* saveSession, of a request or of the autosave loop's tick.               *)

SaveAll(c) ==
    /\ queue # {}
    /\ Begin(c, "saveSession", queue, None)
    /\ UNCHANGED <<memory, disk, process, restarts, faults, ghosts>>

saveSession(h) == Request(h) /\ SaveAll(h)

\* The ticker fires; once stopCh is closed the loop ends.
autoSaveLoop == process = "up" /\ call[Autosave] = Idle /\ SaveAll(Autosave)

SaveNext(c, t) ==
    /\ call[c].op = "saveSession" /\ call[c].task = None /\ t \in call[c].todo
    /\ GoOn(c, call[c].todo \ {t}, t)
    /\ UNCHANGED <<memory, disk, process, restarts, faults, ghosts>>

----------------------------------------------------------------------------
(* Save, for all of them (persistTask, TaskStore.Save).                    *)

SaveBegins_Unlocked(c) ==
    /\ call[c].op \in Saving /\ call[c].task # None /\ call[c].copy = 0
    /\ call' = [call EXCEPT ![c].copy = rev[call[c].task]]
    /\ UNCHANGED <<memory, disk, process, restarts, faults, ghosts>>

SaveBegins(c) ==
    /\ call[c].op \in Saving /\ call[c].task # None
    /\ ~Locked
    /\ call' = [call EXCEPT ![c].copy = rev[call[c].task]]
    /\ UNCHANGED <<memory, disk, process, restarts, faults, ghosts>>

\* A failure is logged and the call goes on as if the task were saved.
SaveEnds(c) ==
    LET t == call[c].task IN
    /\ call[c].copy # 0
    /\ \/ /\ disk' = [disk EXCEPT ![t] = call[c].copy]
          /\ unsaved' = unsaved \ {t}
          /\ UNCHANGED faults
       \/ /\ faults < MaxFaults /\ faults' = faults + 1
          /\ unsaved' = unsaved \cup {t}
          /\ UNCHANGED disk
    /\ told' = IF call[c].op \in {"add", "change"} /\ told[t] < call[c].copy
               THEN [told EXCEPT ![t] = call[c].copy] ELSE told
    /\ IF call[c].todo = {} THEN Done(c) ELSE GoOn(c, call[c].todo, None)
    /\ UNCHANGED <<memory, process, restarts, deleted, raced>>

----------------------------------------------------------------------------
(* The queue and the downloads behind it.                                  *)

QueueStarts(t) ==
    /\ process # "down" /\ t \in queue /\ status[t] = "pending"
    /\ SetStatus(t, "downloading")
    /\ UNCHANGED <<queue, rev, disk, call, process, restarts, faults, ghosts>>

\* CompleteTask and FailTask take the task out of the queue.
Finishes(t) ==
    /\ process # "down" /\ t \in queue /\ status[t] = "downloading"
    /\ queue' = queue \ {t}
    /\ SetStatus(t, "gone")
    /\ UNCHANGED <<rev, disk, call, process, restarts, faults, ghosts>>

\* The manager's SetError leaves it there.
SetError(t) ==
    /\ process # "down" /\ t \in queue /\ status[t] = "downloading"
    /\ SetStatus(t, "failed")
    /\ UNCHANGED <<queue, rev, disk, call, process, restarts, faults, ghosts>>

----------------------------------------------------------------------------
(* Shutdown.                                                               *)

\* SIGTERM: Stop closes stopCh and waits for the autosave loop.
Stop ==
    /\ process = "up"
    /\ process' = "stopping"
    /\ UNCHANGED <<memory, disk, call, restarts, faults, ghosts>>

Closes ==
    /\ process' = "closing"
    /\ UNCHANGED <<memory, disk, call, restarts, faults, ghosts>>

\* Then http.Server.Shutdown.
Shutdown == process = "stopping" /\ call[Autosave] \in {Idle, Elsewhere} /\ Closes

\* aria2.shutdown and forceShutdown: a goroutine calls Shutdown without Stop.
shutdown == process \in {"up", "stopping"} /\ Closes

\* ListenAndServe returns as soon as Shutdown is called, and runServe with
\* it: the process ends, whatever its handlers are doing.
Ends ==
    /\ process' = "down"
    /\ queue' = {} /\ rev' = [t \in Tasks |-> 0]
    /\ status' = [t \in Tasks |-> IF status[t] = "none" THEN "none" ELSE "gone"]
    /\ call' = [c \in Callers |-> IF call[c] = Elsewhere THEN Elsewhere ELSE Idle]
    /\ UNCHANGED <<disk, restarts, faults, ghosts>>

Exit == process = "closing" /\ Ends

Crash == process # "down" /\ Ends

Restart ==
    /\ process = "down" /\ restarts < MaxRestarts
    /\ process' = "up"
    /\ restarts' = restarts + 1
    /\ UNCHANGED <<memory, disk, call, faults, ghosts>>

----------------------------------------------------------------------------
handleMethod(h) ==
    \/ \E S \in SUBSET Tasks, op \in {"add", "addInvalid"} : addUri(h, S, op)
    \/ \E t \in Tasks : addTorrent(h, t) \/ addMetalink(h, t) \/ remove(h, t)
                        \/ removeDownloadResult(h, t) \/ changeOption(h, t)
                        \/ applyOptionsRefuses(h, t) \/ changeUri(h, t)
                        \/ pause(h, t) \/ unpause(h, t)
    \/ \E op \in {"pauseAll", "unpauseAll"} : forAll(h, op)
    \/ purgeDownloadResult(h) \/ saveSession(h)

HandlerStep(h) ==
    \/ \E t \in Tasks : AddOne(h, t) \/ AllNext(h, t)
    \/ Delete(h)

SaveStep(c) == (\E t \in Tasks : SaveNext(c, t)) \/ SaveBegins(c) \/ SaveEnds(c)

Next ==
    \/ \E h \in Handlers : handleMethod(h) \/ HandlerStep(h)
                          \/ \E t \in Tasks : createTask(h, t) \/ deleteTask(h, t)
    \/ autoSaveLoop
    \/ \E c \in Callers : SaveStep(c)
    \/ \E t \in Tasks : QueueStarts(t) \/ Finishes(t) \/ SetError(t)
    \/ Stop \/ Shutdown \/ shutdown \/ Exit \/ Crash \/ Restart

Spec == Init /\ [][Next]_vars

----------------------------------------------------------------------------
(* Properties.                                                             *)

\* What a client has been told of a task (server.go:createTask,
\* jsonrpc.go:addUri, changeOption, changeUri) is on disk, in this or a later
\* revision, whatever saves at the same time and whenever the process ends,
\* until the task's removal is confirmed or the disk fails.
ToldIsDurable == \A t \in Tasks : t \in unsaved \/ t \in deleted \/ disk[t] >= told[t]

\* A removed task leaves no file (server.go:deleteTask, jsonrpc.go:remove)
\* unless another request or the autosave loop was about to save it when it
\* was taken out of the queue, or the file could not be deleted.
RemovedLeavesNoFile ==
    \A t \in deleted : disk[t] = 0 \/ t \in raced \cup unsaved
=============================================================================
