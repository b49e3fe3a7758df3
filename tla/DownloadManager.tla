-------------------------- MODULE DownloadManager --------------------------
(***************************************************************************)
(* internal/downloader/manager.go composed with the task queue, wired the  *)
(* way main.go's runServe does it: q.OnTaskStart = m.StartDownload, and    *)
(* the API reaches the downloads through the queue only.                   *)
(*                                                                         *)
(* A download goroutine is a member of Downloads, the goroutine that       *)
(* watches its speed a member of Monitors; both report to the queue, so    *)
(* together they are the queue's Workers.  An id is used again only when   *)
(* nothing refers to its previous run.                                     *)
(***************************************************************************)
EXTENDS TaskQueue

CONSTANTS Downloads,  \* ids of download goroutines (and their activeDownload)
          Monitors,   \* ids of monitor goroutines; {} when MinSpeed = 0
          Deaf,       \* tasks whose transfer blocks in reads that neither a
                      \* deadline nor the context ends: FTP and SFTP
          None        \* no task, no download

ASSUME ManagerAssumption ==
    /\ Workers = Downloads \cup Monitors
    /\ Downloads \cap Monitors = {} /\ Handlers \cap Workers = {}
    /\ Deaf \subseteq Tasks /\ None \notin Tasks \cup Downloads

VARIABLES active,     \* m.active: the registered download of a task
          wtask,      \* the task a download goroutine works for
          wpc,        \* where it is
          cancelled,  \* the downloads whose context has been cancelled
          watched,    \* the download a monitor was started for
          victim,     \* the download it found too slow
          mpc,        \* where the monitor is
          stop        \* how far DownloadManager.Stop is

mgrVars == <<active, wtask, wpc, cancelled, watched, victim, mpc, stop>>
allVars == <<vars, mgrVars>>

WorkerSteps  == {"free", "create", "download", "verify", "fail", "complete", "exit"}
MonitorSteps == {"off", "watch", "wait", "delete", "fail"}
StopSteps    == {"no", "closed", "waiting", "returned"}

MInit ==
    /\ Init
    /\ active = [t \in Tasks |-> None]
    /\ wtask = [w \in Downloads |-> None]
    /\ wpc = [w \in Downloads |-> "free"]
    /\ cancelled = {}
    /\ watched = [m \in Monitors |-> None]
    /\ victim = [m \in Monitors |-> None]
    /\ mpc = [m \in Monitors |-> "off"]
    /\ stop = "no"

-----------------------------------------------------------------------------
(* Starting.                                                                *)

\* The id of a finished run nobody refers to any more.
Fresh(w) ==
    /\ wpc[w] = "free"
    /\ \A t \in Tasks : active[t] # w
    /\ \A m \in Monitors : mpc[m] # "off" => w \notin {watched[m], victim[m]}

Registered_Never(t) == FALSE

\* "Download already active".
Registered(t) == active[t] # None

Accepting_Always == TRUE

\* stopCh is still open.
Accepting == stop = "no"

\* StartDownload, called as OnTaskStart: refused while the manager stops and
\* while the task still has a registered download.
StartDownload(c, t) ==
    /\ OnTaskStart(c, t)
    /\ \/ /\ ~Accepting \/ Registered(t)
          /\ UNCHANGED mgrVars
       \/ /\ Accepting /\ ~Registered(t)
          /\ \E w \in Downloads :
                /\ Fresh(w)
                /\ active' = [active EXCEPT ![t] = w]
                /\ wtask' = [wtask EXCEPT ![w] = t]
                /\ wpc' = [wpc EXCEPT ![w] = "create"]
                /\ cancelled' = cancelled \ {w}
          /\ UNCHANGED <<watched, victim, mpc, stop>>

-----------------------------------------------------------------------------
(* The download goroutine.                                                  *)

WorkerAt(w, step) == wpc[w] = step /\ pc[w] = "idle"
WorkerGoto(w, step) == wpc' = [wpc EXCEPT ![w] = step]

\* Nothing but the worker's own step changes.
OnlyWorker == UNCHANGED <<vars, active, wtask, cancelled, watched, victim, mpc, stop>>

\* t.SetError: whatever the task's status is by now, it becomes Failed.
SetError(w) ==
    /\ SetStatus(wtask[w], "failed")
    /\ UNCHANGED <<tasks, priority, pq, activeCount, maxConcurrent, pc, arg>>
    /\ WorkerGoto(w, "fail")
    /\ UNCHANGED <<active, wtask, cancelled, watched, victim, mpc, stop>>

\* NewDownloaderFromURL succeeds: the monitor is started, if there is one.
CreateOK(w) ==
    /\ WorkerAt(w, "create")
    /\ WorkerGoto(w, "download")
    /\ \/ Monitors = {} /\ UNCHANGED <<watched, mpc>>
       \/ \E m \in Monitors :
             /\ mpc[m] = "off" /\ pc[m] = "idle"
             /\ watched' = [watched EXCEPT ![m] = w]
             /\ mpc' = [mpc EXCEPT ![m] = "watch"]
    /\ UNCHANGED <<vars, active, wtask, cancelled, victim, stop>>

CreateFails(w) == WorkerAt(w, "create") /\ SetError(w)

\* d.Download returns nil.
DownloadOK(w) == WorkerAt(w, "download") /\ WorkerGoto(w, "verify") /\ OnlyWorker

\* d.Download returns an error and the context is still alive.
DownloadFails(w) == WorkerAt(w, "download") /\ w \notin cancelled /\ SetError(w)

\* d.Download returns because its context is cancelled: nothing is reported.
\* The transfer of a Deaf task looks at the context between its reads only.
DownloadCancelled(w) ==
    WorkerAt(w, "download") /\ w \in cancelled /\ WorkerGoto(w, "exit") /\ OnlyWorker

\* VerifyDownload (when CheckIntegrity is on) and post-processing.
VerifyOK(w) == WorkerAt(w, "verify") /\ WorkerGoto(w, "complete") /\ OnlyWorker

VerifyFails(w) == WorkerAt(w, "verify") /\ SetError(w)

Report_Nobody(w, t, s) == UNCHANGED vars

\* failTask and the final CompleteTask.  The queue ignores the report of a
\* task that is not running; if it takes it, tryStartNext follows and w comes
\* back to its own code once pc[w] is "idle" again.
Report(w, t, s) ==
    \/ ~MayFinish(t) /\ UNCHANGED vars
    \/ Finish(w, t, s)

Reports(w) ==
    /\ \/ WorkerAt(w, "fail") /\ Report(w, wtask[w], "failed")
       \/ WorkerAt(w, "complete") /\ Report(w, wtask[w], "done")
    /\ WorkerGoto(w, "exit")
    /\ UNCHANGED <<active, wtask, cancelled, watched, victim, mpc, stop>>

Unregister_Forgotten(t) == active

\* delete(m.active, t.ID): whichever download is registered now.
Unregister(t) == [active EXCEPT ![t] = None]

\* The deferred calls: delete(m.active, t.ID), close(done), cancel, wg.Done.
Exit(w) ==
    /\ WorkerAt(w, "exit")
    /\ active' = Unregister(wtask[w])
    /\ WorkerGoto(w, "free")
    /\ cancelled' = cancelled \cup {w}
    /\ UNCHANGED <<vars, wtask, watched, victim, mpc, stop>>

WorkerStep(w) ==
    \/ CreateOK(w) \/ CreateFails(w)
    \/ DownloadOK(w) \/ DownloadFails(w) \/ DownloadCancelled(w)
    \/ VerifyOK(w) \/ VerifyFails(w)
    \/ Reports(w) \/ Exit(w)

-----------------------------------------------------------------------------
(* The monitor goroutine, when a minimum speed is configured.               *)

Ended(w) == wpc[w] = "free"

\* The task of the download a monitor was started for.
MonitoredTask(m) == wtask[watched[m]]

MonitorAt(m, step) == mpc[m] = step /\ pc[m] = "idle"
MonitorGoto(m, step) == mpc' = [mpc EXCEPT ![m] = step]

\* A tick finds the registered download of the task too slow for too long and
\* cancels it.  A run that has just been registered is in its grace period,
\* which no monitor of an ended run outlives.
MonitorTick(m) ==
    /\ MonitorAt(m, "watch") /\ ~Ended(watched[m])
    /\ Registered(MonitoredTask(m))
    /\ victim' = [victim EXCEPT ![m] = active[MonitoredTask(m)]]
    /\ cancelled' = cancelled \cup {active[MonitoredTask(m)]}
    /\ MonitorGoto(m, "wait")
    /\ UNCHANGED <<vars, active, wtask, wpc, watched, stop>>

\* <-activeDl.done
MonitorDone(m) ==
    /\ MonitorAt(m, "wait") /\ Ended(victim[m])
    /\ MonitorGoto(m, "delete")
    /\ UNCHANGED <<vars, active, wtask, wpc, cancelled, watched, victim, stop>>

\* delete(m.active, t.ID) once more.
MonitorDelete(m) ==
    /\ MonitorAt(m, "delete")
    /\ active' = Unregister(MonitoredTask(m))
    /\ MonitorGoto(m, "fail")
    /\ UNCHANGED <<vars, wtask, wpc, cancelled, watched, victim, stop>>

MonitorFails(m) ==
    /\ MonitorAt(m, "fail")
    /\ Report(m, MonitoredTask(m), "failed")
    /\ MonitorGoto(m, "watch")
    /\ UNCHANGED <<active, wtask, wpc, cancelled, watched, victim, stop>>

\* progressCtx is done: the run has ended or its context has been cancelled.
MonitorEnds(m) ==
    /\ MonitorAt(m, "watch") /\ watched[m] \in cancelled
    /\ MonitorGoto(m, "off")
    /\ watched' = [watched EXCEPT ![m] = None]
    /\ victim' = [victim EXCEPT ![m] = None]
    /\ UNCHANGED <<vars, active, wtask, wpc, cancelled, stop>>

MonitorStep(m) ==
    \/ MonitorTick(m) \/ MonitorDone(m) \/ MonitorDelete(m)
    \/ MonitorFails(m) \/ MonitorEnds(m)

-----------------------------------------------------------------------------
(* Shutdown.                                                                *)

CloseStopCh ==
    /\ stop = "no" /\ stop' = "closed"
    /\ UNCHANGED <<vars, active, wtask, wpc, cancelled, watched, victim, mpc>>

ToCancel_None == {}

\* Stop cancels the downloads that are registered.
ToCancel == {active[t] : t \in Tasks} \ {None}

CancelAll ==
    /\ stop = "closed" /\ stop' = "waiting"
    /\ cancelled' = cancelled \cup ToCancel
    /\ UNCHANGED <<vars, active, wtask, wpc, watched, victim, mpc>>

\* m.wg.Wait() returns.
StopReturns ==
    /\ stop = "waiting" /\ stop' = "returned"
    /\ \A w \in Downloads : Ended(w)
    /\ \A m \in Monitors : MonitorAt(m, "off")
    /\ UNCHANGED <<vars, active, wtask, wpc, cancelled, watched, victim, mpc>>

Stop == CloseStopCh \/ CancelAll \/ StopReturns

-----------------------------------------------------------------------------
\* A queue operation's next critical section; its callbacks start downloads.
CallerStep(c) ==
    \/ (TryStartNext(c) \/ StartTask(c) \/ Cancel(c)) /\ UNCHANGED mgrVars
    \/ \E t \in Tasks : StartDownload(c, t)

\* A handler purges failed tasks.
PurgeStep(c) ==
    /\ \/ "Purge" \in ClientOps /\ PurgeStopped(c)
       \/ "RemoveStopped" \in ClientOps /\ \E t \in Tasks : RemoveStopped(c, t)
    /\ UNCHANGED mgrVars

MNext ==
    \/ \E c \in Handlers : ClientStep(c) /\ UNCHANGED mgrVars
    \/ \E c \in Handlers : PurgeStep(c)
    \/ \E c \in Callers : CallerStep(c)
    \/ \E w \in Downloads : WorkerStep(w)
    \/ \E m \in Monitors : MonitorStep(m)
    \/ Stop

MSpec == MInit /\ [][MNext]_allVars

\* The transfer of w hears of a cancelled context only between two reads, and
\* the server may never answer the one it is in.
IsDeaf(w) == wtask[w] \in Deaf

\* Goroutines that are not blocked run on.  A transfer need not end by
\* itself, only when its context is cancelled, and one that is deaf to that
\* not even then.
RunsOn ==
    /\ \A c \in Callers : WF_allVars(CallerStep(c))
    /\ \A w \in Downloads :
          /\ WF_allVars(CreateOK(w) \/ CreateFails(w))
          /\ WF_allVars(~IsDeaf(w) /\ DownloadCancelled(w))
          /\ WF_allVars(VerifyOK(w) \/ VerifyFails(w) \/ Reports(w) \/ Exit(w))
    /\ \A m \in Monitors :
          WF_allVars(MonitorDone(m) \/ MonitorDelete(m) \/ MonitorFails(m) \/ MonitorEnds(m))
    /\ WF_allVars(CancelAll \/ StopReturns)

StopSpec == MSpec /\ RunsOn

\* Every transfer ends, with or without success.
TransferEnds == \A w \in Downloads : WF_allVars(DownloadOK(w) \/ DownloadFails(w) \/ DownloadCancelled(w))

-----------------------------------------------------------------------------
(* Correctness.                                                             *)

MTypeOK ==
    /\ TypeOK
    /\ active \in [Tasks -> Downloads \cup {None}]
    /\ wtask \in [Downloads -> Tasks \cup {None}]
    /\ wpc \in [Downloads -> WorkerSteps]
    /\ cancelled \subseteq Downloads
    /\ watched \in [Monitors -> Downloads \cup {None}]
    /\ victim \in [Monitors -> Downloads \cup {None}]
    /\ mpc \in [Monitors -> MonitorSteps]
    /\ stop \in StopSteps

\* A download that runs is the one registered for its task.  So two goroutines
\* never write the file of one task, whatever the clients do with Pause, Resume
\* and Remove while an old run is still going on: "Download already active"
\* keeps a second run out until the first has ended.  And Stop, which cancels
\* what is registered, reaches all of them.  (Without monitors: MonitorDelete
\* can unregister a newer run of a resumed task.)
RunningIsRegistered == \A w \in Downloads : ~Ended(w) => active[wtask[w]] = w

\* Every slot held by a task of the queue is counted also when downloads of
\* paused, resumed and removed tasks report late.
LateReportsCounted == RunningCounted /\ OvershootBounded

\* The callers between "this task shall run" and the end of OnTaskStart.
Starting(t) == {c \in Callers : pc[c] \in {"startTask", "onTaskStart"} /\ t \in arg[c]}

\* The downloads that work for a task.
Runs(t) == {w \in Downloads : ~Ended(w) /\ wtask[w] = t}

\* A task that is done or has failed is not taken up again, although heap
\* items, callers and download goroutines that still refer to it go on.  No
\* request and no free slot starts it anew, and only a caller that had decided
\* to start it before lets a download begin.  What such latecomers still do to
\* the status: startTask, which asks no questions, sets a failed task to
\* Downloading, and a download that works for the task fails it once more.
FinishedStaysFinished ==
    [][\A t \in Tasks : status[t] \in {"done", "failed"} =>
          /\ Starting(t)' \subseteq Starting(t)
          /\ Runs(t)' \subseteq Runs(t) \/ Starting(t) # {}
          /\ \/ status'[t] = status[t]
             \/ status'[t] = "failed" /\ Runs(t) # {}
             \/ status[t] = "failed" /\ status'[t] = "downloading" /\ Starting(t) # {}]_allVars

\* Stop returns: every goroutine it waits for has been told to end, even one
\* that a concurrent request started while stopCh was being closed.  Nothing
\* but the transfer of a deaf task that stays in its read for ever keeps Stop
\* waiting for ever.
StopTerminates ==
    \/ (stop # "no") ~> (stop = "returned")
    \/ \E w \in Downloads : <>[](WorkerAt(w, "download") /\ w \in cancelled /\ IsDeaf(w))

\* After Stop has returned no download runs, now or later, although the queue
\* goes on handing out tasks.
StoppedForGood == stop = "returned" => \A w \in Downloads : Ended(w)

\* While clients do not pause downloads and the manager is not stopped, a task
\* that is Downloading is brought to an end if transfers come to an end: its
\* goroutine or, after a verdict of too low a speed, the monitor reports to
\* the queue, or it is removed.
DownloadingEnds ==
    TransferEnds => \A t \in Tasks : t \in Running /\ stop = "no" ~> t \notin Running \/ stop # "no"

=============================================================================
