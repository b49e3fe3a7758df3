-------------------------- MODULE DownloadSession --------------------------
(***************************************************************************)
(* One HTTP download around its transfer: Download and doDownload of       *)
(* internal/downloader/downloader.go with the control file that makes it   *)
(* resumable, the probe request, the decision to skip, resume or restart,  *)
(* the fallback to one connection and the retries of the whole download.   *)
(*                                                                         *)
(* The transfer itself is PieceDownload's subject; here its workers        *)
(* fetch units of missing blocks in any order.  The control file is        *)
(* replaced in one step (FileStore shows that).  The context may be        *)
(* cancelled, and the process killed and started again, between any two    *)
(* steps, also after it has returned: the same command given once more.    *)
(* The server knows the size of the file, which is not empty.              *)
(***************************************************************************)
EXTENDS Integers, FiniteSets

CONSTANTS NumBlocks, BlockLen, PieceBlocks,  \* layout: units per block, blocks per piece
          Configs,     \* the set of configurations to start with
          MaxRetries,  \* RetryConfig.MaxRetries
          MaxRestarts, \* bound on kills and new runs
          MaxTotal,    \* bound on totalDownloaded, which counts repeated reads too
          Faults,      \* what goes wrong; "cut": a body without length that ends early
          None         \* no control file

\* HEAD announces ranges and GET serves them; neither; GET serves them
\* unannounced; HEAD announces them and GET ignores them; now so, now so.
Servers == {"ranges", "plain", "silent", "liar", "mixed"}

Config == [ctl : BOOLEAN,          \* a control file path is set
           prealloc : BOOLEAN,     \* PreallocateSpace
           conditional : BOOLEAN,  \* ConditionalGet
           server : Servers]

ASSUME SessionAssumption ==
    /\ NumBlocks \in Nat \ {0} /\ BlockLen \in Nat \ {0} /\ PieceBlocks \in Nat \ {0}
    /\ Configs \subseteq Config
    /\ MaxRetries \in Nat /\ MaxRestarts \in Nat /\ MaxTotal \in Nat
    /\ Faults \subseteq {"timeout", "error", "cut"}

FileSize == NumBlocks * BlockLen
Units == 0..(FileSize - 1)
Blocks == 0..(NumBlocks - 1)
UnitsOf(b) == (b * BlockLen)..((b + 1) * BlockLen - 1)
Absent == -1

VARIABLES conf,       \* the configuration
          flen, good, \* the output file: its size and the units that hold their data
          ctl,        \* the control file on disk
          cf,         \* d.controlFile
          total,      \* d.totalDownloaded
          have,       \* the complete blocks of d.pieceMgr
          part,       \* the units of a block that the current attempt has read
          pos,        \* the offset of a download with one connection
          lm,         \* d.lastModified / d.etag are known
          ticking,    \* periodicSaveProgress runs
          pc, attempt, restarts,
          ended,      \* how the download ended: "no", "skip", "failed", or by "pieces"
                      \* or one "stream"
          ctxDone,    \* the context is cancelled
          cut,        \* history of this run: it ended without an error and without all data
          counted,    \* history of the file: pieces were taken for complete by count;
          emptied,    \*   it was emptied while a bitmap named blocks of it;
          scattered   \*   several connections wrote into it, or it was preallocated

disk == <<flen, good, ctl>>
mem  == <<cf, total, have, part, pos, lm>>
run  == <<ticking, pc, attempt, ended>>
hist == <<counted, emptied, scattered>>
rest == <<ctxDone, cut, hist, restarts>>
vars == <<conf, disk, mem, run, rest>>

Max(a, b) == IF a >= b THEN a ELSE b
Goto(from, to) == pc = from /\ pc' = to

\* A new process: nothing in memory.
Fresh ==
    /\ cf' = None /\ total' = 0 /\ have' = {} /\ part' = [b \in Blocks |-> 0]
    /\ pos' = 0 /\ lm' = FALSE /\ ticking' = FALSE /\ pc' = "load" /\ attempt' = 0
    /\ ended' = "no" /\ ctxDone' = FALSE /\ cut' = FALSE

Init ==
    /\ conf \in Configs
    /\ flen = Absent /\ good = {} /\ ctl = None
    /\ cf = None /\ total = 0 /\ have = {} /\ part = [b \in Blocks |-> 0]
    /\ pos = 0 /\ lm = FALSE /\ ticking = FALSE /\ pc = "load" /\ attempt = 0
    /\ ended = "no" /\ ctxDone = FALSE /\ cut = FALSE
    /\ counted = FALSE /\ emptied = FALSE /\ scattered = FALSE /\ restarts = 0

-----------------------------------------------------------------------------
(* Progress on disk.                                                        *)

\* The record SaveProgress writes.  The old bitmaps stay if the piece manager
\* has none to offer.
Saved ==
    [completed |-> total,
     bits |-> IF have # {} \/ cf = None THEN have ELSE cf.bits,
     lm |-> IF conf.conditional THEN lm ELSE cf # None /\ cf.lm]

\* SaveProgress: nothing without a control file path.
Save ==
    IF conf.ctl THEN cf' = Saved /\ ctl' = Saved ELSE UNCHANGED <<cf, ctl>>

\* LoadProgress: what is on disk replaces what is in memory.
LoadProgress ==
    /\ Goto("load", "probe") /\ ~ticking
    /\ IF conf.ctl /\ ctl # None
       THEN cf' = ctl /\ lm' = ctl.lm
       ELSE UNCHANGED <<cf, lm>>
    /\ UNCHANGED <<conf, disk, total, have, part, pos, ticking, attempt, ended, rest>>

\* The ticker of periodicSaveProgress.
Tick ==
    /\ ticking /\ conf.ctl /\ Save /\ ctl' # ctl
    /\ UNCHANGED <<conf, flen, good, total, have, part, pos, lm, run, rest>>

\* The ticker's goroutine sees that doDownload has returned, but a save that
\* is under way is finished first.  The backoff before the next attempt, of a
\* second or more, outlasts it.
TickerEnds ==
    /\ ticking /\ pc \in {"load", "returned"}
    /\ ticking' = FALSE
    /\ UNCHANGED <<conf, disk, mem, pc, attempt, ended, rest>>

-----------------------------------------------------------------------------
(* The end of doDownload and DoWithRetryWithLogger.                          *)

\* The caller gives up.  What the network still does in time for this is done
\* before it.
Cancel ==
    /\ ~ctxDone /\ ctxDone' = TRUE
    /\ UNCHANGED <<conf, disk, mem, run, cut, hist, restarts>>

\* What a request or a body can fail with.
Errors == (Faults \ {"cut"}) \cup (IF ctxDone THEN {"error"} ELSE {})

\* Another attempt after this error?
Retries(err) == err = "timeout" /\ attempt < MaxRetries /\ ~ctxDone

\* doDownload returns err: only a timeout is retried.
Fails(err) ==
    /\ \/ Retries(err) /\ pc' = "load" /\ attempt' = attempt + 1 /\ UNCHANGED ended
       \/ ~Retries(err) /\ pc' = "returned" /\ ended' = "failed" /\ UNCHANGED attempt
    /\ UNCHANGED ticking

Succeeds(how) ==
    /\ pc' = "returned" /\ ended' = how
    /\ UNCHANGED <<attempt, ticking>>

-----------------------------------------------------------------------------
(* The probe and the decision.                                              *)

\* Whether HEAD announces ranges.
Announced == conf.server \in {"ranges", "liar", "mixed"}
MayBeSilent == conf.server \in {"plain", "silent", "mixed"}

\* GET answers with the range asked for, or with the whole file or 416.
ServesRange == conf.server \in {"ranges", "silent", "mixed"}
IgnoresRange == conf.server \in {"plain", "liar", "mixed"}

ProbeFails ==
    /\ pc = "probe" /\ \E err \in Errors : Fails(err)
    /\ UNCHANGED <<conf, disk, mem, rest>>

\* The size is known, and whether there are ranges.
Probed(ranges, whole) ==
    /\ pc = "probe" /\ ~ctxDone /\ lm' = TRUE
    /\ \/ ranges /\ pc' = "decide"
       \/ whole /\ pc' = "decideSingle"
    /\ UNCHANGED <<conf, disk, cf, total, have, part, pos>>
    /\ UNCHANGED <<ticking, attempt, ended, rest>>

Probe == Probed(Announced, MayBeSilent)

\* HEAD fails on the network, or with a status below 400 that is not 200: a GET
\* of the first byte shows what GET does with a range.
ProbeViaGet == Probed(ServesRange, IgnoresRange)

\* 304: any local file will do; without one the probe is repeated.
NotModified ==
    /\ pc = "probe" /\ ~ctxDone /\ conf.conditional /\ lm
    /\ \/ /\ flen > 0
          /\ total' = flen
          /\ IF conf.ctl THEN ctl' = [Saved EXCEPT !.completed = flen] /\ cf' = ctl'
                         ELSE UNCHANGED <<cf, ctl>>
          /\ Succeeds("skip") /\ UNCHANGED lm
       \/ /\ flen <= 0
          /\ lm' = FALSE
          /\ UNCHANGED <<total, cf, ctl, ticking, pc, attempt, ended>>
    /\ UNCHANGED <<conf, flen, good, have, part, pos, rest>>

Completed == IF cf = None THEN 0 ELSE cf.completed

\* "file already fully downloaded": by the control file's count and the size,
\* or by the size alone when there is no count.
FullyDownloaded == flen = FileSize /\ (Completed >= FileSize \/ Completed = 0)

Skip ==
    /\ pc \in {"decide", "decideSingle"} /\ FullyDownloaded
    /\ total' = FileSize
    /\ IF conf.ctl /\ Completed > 0
       THEN ctl' = [Saved EXCEPT !.completed = FileSize] /\ cf' = ctl'
       ELSE UNCHANGED <<cf, ctl>>
    /\ Succeeds("skip")
    /\ UNCHANGED <<conf, flen, good, have, part, pos, lm, rest>>

ToSingle ==
    /\ Goto("decideSingle", "single") /\ ~FullyDownloaded
    /\ UNCHANGED <<conf, disk, mem, ticking, attempt, ended, rest>>

PieceEnd(b) == (b \div PieceBlocks + 1) * PieceBlocks * BlockLen

\* The pieces that a count without bitmaps is taken to cover.
CountedBlocks(n) == {b \in Blocks : PieceEnd(b) <= n}

\* A new piece manager, restored from bitmaps or else from the count.
Resume ==
    LET n == IF Completed >= FileSize THEN 0 ELSE Completed IN
    /\ Goto("decide", "open") /\ ~FullyDownloaded
    /\ part' = [b \in Blocks |-> 0]
    /\ \/ /\ n = 0
          /\ have' = {} /\ UNCHANGED <<total, counted>>
       \/ /\ n > 0 /\ cf.bits # {}
          /\ have' = cf.bits /\ UNCHANGED counted
          /\ total' = Cardinality(cf.bits) * BlockLen
       \/ /\ n > 0 /\ cf.bits = {}
          /\ have' = CountedBlocks(n)
          /\ counted' = (counted \/ have' # {})
          /\ total' = total + Cardinality(have') * BlockLen
    /\ UNCHANGED <<conf, disk, cf, pos, lm, ticking, attempt, ended>>
    /\ UNCHANGED <<ctxDone, cut, emptied, scattered, restarts>>

-----------------------------------------------------------------------------
(* The transfer over several connections.                                   *)

OpenFile ==
    /\ Goto("open", "pieces")
    /\ flen' = IF conf.prealloc THEN FileSize ELSE Max(flen, 0)
    /\ ticking' = TRUE /\ scattered' = (scattered \/ conf.prealloc)
    /\ UNCHANGED <<conf, good, ctl, mem, attempt, ended>>
    /\ UNCHANGED <<ctxDone, cut, counted, emptied, restarts>>

\* A worker reads and writes the next unit of a block, then counts it.
ReadUnit(b) ==
    LET u == b * BlockLen + part[b] IN
    /\ pc = "pieces" /\ ~ctxDone /\ ServesRange /\ b \notin have /\ part[b] < BlockLen
    /\ total < MaxTotal
    /\ good' = good \cup {u} /\ flen' = Max(flen, u + 1)
    /\ total' = total + 1
    /\ part' = [part EXCEPT ![b] = @ + 1]
    /\ scattered' = TRUE
    /\ UNCHANGED <<conf, ctl, cf, have, pos, lm, run>>
    /\ UNCHANGED <<ctxDone, cut, counted, emptied, restarts>>

\* CompleteBlock after the last unit.
CompleteBlock(b) ==
    /\ pc = "pieces" /\ b \notin have /\ part[b] = BlockLen
    /\ have' = have \cup {b}
    /\ UNCHANGED <<conf, disk, cf, total, part, pos, lm, run, rest>>

\* An attempt at a block fails and is repeated by this or another source.
BlockFails(b) ==
    /\ pc = "pieces" /\ ~ctxDone /\ Faults # {} /\ part[b] \in 1..(BlockLen - 1)
    /\ part' = [part EXCEPT ![b] = 0]
    /\ UNCHANGED <<conf, disk, cf, total, have, pos, lm, run, rest>>

TransferFails ==
    /\ pc = "pieces" /\ Save
    /\ \E err \in Errors : Fails(err)
    /\ UNCHANGED <<conf, flen, good, total, have, part, pos, lm, rest>>

\* errRangeNotSupported: progress is saved before it is thrown away.
RangeDropped ==
    /\ Goto("pieces", "fallback") /\ ~ctxDone /\ IgnoresRange /\ have # Blocks /\ Save
    /\ UNCHANGED <<conf, flen, good, total, have, part, pos, lm>>
    /\ UNCHANGED <<ticking, attempt, ended, rest>>

\* d.controlFile without progress; the file on disk keeps its own.
WithoutProgress ==
    IF cf = None THEN None ELSE [completed |-> 0, bits |-> {}, lm |-> cf.lm]

HasBits(r) == r # None /\ r.bits # {}

\* The output file is emptied, to a size of n.  The piece manager and the
\* records keep the bits that they have.
Empties(n) ==
    /\ flen' = n /\ good' = {}
    /\ emptied' = (emptied \/ have # {} \/ HasBits(cf') \/ HasBits(ctl))
    /\ UNCHANGED <<ctxDone, cut, counted, scattered, restarts>>

Fallback ==
    /\ Goto("fallback", "single")
    /\ cf' = WithoutProgress /\ total' = 0 /\ Empties(0)
    /\ UNCHANGED <<conf, ctl, have, part, pos, lm, ticking, attempt, ended>>

\* No worker has reported an error: there is nothing left to fetch, or all of
\* them have seen the cancelled context before they took a piece.
TransferDone ==
    /\ Goto("pieces", "delete") /\ Save
    /\ have = Blocks \/ (ctxDone /\ \A b \in Blocks \ have : part[b] = 0)
    /\ ended' = "pieces" /\ cut' = (have # Blocks)
    /\ UNCHANGED <<conf, flen, good, total, have, part, pos, lm>>
    /\ UNCHANGED <<ticking, attempt, ctxDone, hist, restarts>>

\* The control file goes, unless its validators are wanted next time.
Delete ==
    /\ Goto("delete", "closing")
    /\ ctl' = IF conf.conditional THEN ctl ELSE None
    /\ UNCHANGED <<conf, flen, good, mem, ticking, attempt, ended, rest>>

Return ==
    /\ pc = "closing" /\ Succeeds(ended)
    /\ UNCHANGED <<conf, disk, mem, rest>>

-----------------------------------------------------------------------------
(* singleThreadDownload and singleThreadResume.                              *)

ResumeAt_OffByOne ==
    IF Completed > 0 THEN (IF Completed < FileSize THEN Completed + 1 ELSE 0)
    ELSE IF flen > 0 /\ flen < FileSize THEN flen + 1 ELSE 0

\* Where to resume: the control file's count, or without one the file's size.
\* (The test for a file that is already complete repeats Skip's; it cannot
\* hold here.)
ResumeAt ==
    IF Completed > 0 THEN (IF Completed < FileSize THEN Completed ELSE 0)
    ELSE IF flen > 0 /\ flen < FileSize THEN flen ELSE 0

SingleFails ==
    /\ pc = "single" /\ \E err \in Errors : Fails(err)
    /\ UNCHANGED <<conf, disk, mem, rest>>

\* GET of the whole file; totalDownloaded goes on from where it was.
SingleStart ==
    /\ Goto("single", "body") /\ ~ctxDone /\ ResumeAt = 0
    /\ UNCHANGED <<conf, ctl, cf, total, have, part, lm, attempt, ended>>
    /\ Empties(0) /\ pos' = 0 /\ ticking' = TRUE

\* 206 for the rest of the file.
ResumePartial ==
    /\ Goto("single", "body") /\ ~ctxDone /\ ServesRange /\ ResumeAt > 0
    /\ pos' = ResumeAt /\ total' = ResumeAt /\ flen' = Max(flen, 0)
    /\ ticking' = TRUE
    /\ UNCHANGED <<conf, good, ctl, cf, have, part, lm, attempt, ended, rest>>

\* 200: the whole file after all.
ResumeWhole ==
    /\ Goto("single", "whole") /\ ~ctxDone /\ IgnoresRange /\ ResumeAt > 0
    /\ cf' = WithoutProgress /\ total' = 0 /\ Empties(0)
    /\ pos' = 0 /\ ticking' = TRUE
    /\ UNCHANGED <<conf, ctl, have, part, lm, attempt, ended>>

\* 416: the file is removed, which must not fail, and everything starts anew.
ResumeRefused ==
    /\ pc = "single" /\ ~ctxDone /\ IgnoresRange /\ ResumeAt > 0
    /\ \/ /\ flen # Absent
          /\ cf' = WithoutProgress /\ total' = 0 /\ Empties(Absent)
          /\ UNCHANGED <<pc, ticking, attempt, ended>>
       \/ /\ flen = Absent /\ Fails("error")
          /\ UNCHANGED <<flen, good, cf, total, rest>>
    /\ UNCHANGED <<conf, ctl, have, part, pos, lm>>

ReadBody ==
    /\ pc \in {"body", "whole"} /\ ~ctxDone /\ pos < FileSize /\ total < MaxTotal
    /\ good' = good \cup {pos} /\ flen' = Max(flen, pos + 1)
    /\ total' = total + 1 /\ pos' = pos + 1
    /\ UNCHANGED <<conf, ctl, cf, have, part, lm, run, rest>>

\* A failed read saves the progress, a failed write does not.
BodyFails ==
    /\ pc \in {"body", "whole"}
    /\ Save \/ UNCHANGED <<cf, ctl>>
    /\ \E err \in Errors : Fails(err)
    /\ UNCHANGED <<conf, flen, good, total, have, part, pos, lm, rest>>

\* io.EOF; how much has been read is not compared with the size.
BodyEnds ==
    /\ pos = FileSize \/ "cut" \in Faults
    /\ ~ctxDone /\ Save
    /\ \/ Goto("body", "delete")
       \/ Goto("whole", "closing")   \* this path keeps the control file
    /\ ended' = "stream" /\ cut' = (pos < FileSize)
    /\ UNCHANGED <<conf, flen, good, total, have, part, pos, lm>>
    /\ UNCHANGED <<ticking, attempt, ctxDone, hist, restarts>>

-----------------------------------------------------------------------------
\* Killed, or given again after it has returned.
Restart ==
    /\ restarts < MaxRestarts /\ restarts' = restarts + 1
    /\ Fresh
    /\ UNCHANGED <<conf, disk, hist>>

SessionStep ==
    \/ LoadProgress \/ ProbeFails \/ Probe \/ ProbeViaGet \/ NotModified \/ Skip \/ ToSingle \/ Resume
    \/ OpenFile \/ TransferFails \/ RangeDropped \/ Fallback \/ TransferDone
    \/ \E b \in Blocks : ReadUnit(b) \/ CompleteBlock(b) \/ BlockFails(b)
    \/ Delete \/ Return
    \/ SingleFails \/ SingleStart
    \/ ResumePartial \/ ResumeWhole \/ ResumeRefused
    \/ ReadBody \/ BodyFails \/ BodyEnds

Next == SessionStep \/ Cancel \/ Tick \/ TickerEnds \/ Restart

Spec == Init /\ [][Next]_vars

-----------------------------------------------------------------------------
(* Correctness.                                                             *)

\* Resume adds the counted pieces to what has been read.
Count == 0..(MaxTotal + FileSize)
Progress == [completed : Count, bits : SUBSET Blocks, lm : BOOLEAN]

TypeOK ==
    /\ conf \in Config
    /\ flen \in Absent..FileSize /\ good \subseteq Units
    /\ ctl \in Progress \cup {None} /\ cf \in Progress \cup {None}
    /\ total \in Count
    /\ have \subseteq Blocks /\ part \in [Blocks -> 0..BlockLen] /\ pos \in 0..FileSize
    /\ lm \in BOOLEAN /\ ticking \in BOOLEAN
    /\ pc \in {"load", "probe", "decide", "decideSingle", "open", "pieces", "fallback",
               "single", "body", "whole", "delete", "closing", "returned"}
    /\ attempt \in 0..MaxRetries /\ restarts \in 0..MaxRestarts
    /\ ended \in {"no", "skip", "pieces", "stream", "failed"}
    /\ {ctxDone, cut, counted, emptied, scattered} \subseteq BOOLEAN

IsWritten(b) == UnitsOf(b) \subseteq good

\* No run over one connection has emptied the file under bits that a run over
\* several had left.  Servers that announce and serve ranges, or do not serve
\* them, make no such bits or no such run.
Kept == conf.server \in {"silent", "mixed"} => ~emptied

\* All connections wrote at the end of what was there.
OneConnection == ~scattered /\ conf.server # "mixed" /\ (counted => ~ServesRange)

\* The block bitmaps in the control file, and the blocks a resumed download
\* takes from them, name only blocks whose data is in the output file, with
\* saves, failures, retries, cancellations and kills at any moment - until a
\* count alone has been taken for pieces (CountedBlocks), which repeated reads
\* can falsify, or the file was emptied under them.
BitsWritten ==
    ~counted /\ Kept =>
    /\ \A b \in have : IsWritten(b)
    /\ ctl # None => \A b \in ctl.bits : IsWritten(b)

\* A download over several connections that was not cut short by a cancelled
\* context leaves a complete file, on the same condition.
PiecesComplete == ended = "pieces" /\ ~cut /\ ~counted /\ Kept => good = Units

\* With one connection the count and the file's size are enough: success, by
\* reading to the end or by "already fully downloaded", means a complete file,
\* however often the download was cancelled, killed, resumed or begun again.
\* A server that ignores ranges sends everything again, so that there the end
\* of the body is enough.
SequentialComplete ==
    /\ ended = "stream" /\ ~cut /\ (OneConnection \/ ~ServesRange) => good = Units
    /\ ended = "skip" /\ ~conf.conditional /\ OneConnection => good = Units

=============================================================================
