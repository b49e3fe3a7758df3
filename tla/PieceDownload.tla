--------------------------- MODULE PieceDownload ---------------------------
(***************************************************************************)
(* One multi-connection transfer: the worker loop of doDownload,           *)
(* downloadPiece and downloadRange of internal/downloader/downloader.go on *)
(* the pieces and block bitmaps of internal/downloader/chunk.go.           *)
(*                                                                         *)
(* Offsets are counted in units.  A unit is in written once its data is at *)
(* its place in the file; the server's data is right, so what could go     *)
(* wrong is which blocks are called complete.  A goroutine's step is the   *)
(* code between two reads of the network or of shared state; the locks of  *)
(* the piece and of the manager are held for less than that.               *)
(***************************************************************************)
EXTENDS Integers, FiniteSets

CONSTANTS Conns,        \* the workers (MaxConnections of them)
          FileSize, PieceLength, BlockLength, MinSteal,  \* in units
          ReadSizes,    \* how many units one Body.Read may return
          Urls,         \* number of sources: the URL and its mirrors
          MaxRetries,   \* retries for each source
          Adaptive,     \* cfg.Adaptive
          Resumes,      \* block bitmaps are restored from a control file
          Cancels,      \* the caller's context may be cancelled
          Faults,       \* what the network and the servers do wrong
          NoOne         \* no owner

ASSUME PieceAssumption ==
    /\ IsFiniteSet(Conns) /\ Conns # {}
    /\ FileSize \in Nat \ {0} /\ PieceLength \in Nat \ {0}
    /\ BlockLength \in Nat \ {0} /\ MinSteal \in Nat \ {0}
    /\ ReadSizes \subseteq Nat \ {0}
    /\ Urls \in Nat \ {0} /\ MaxRetries \in Nat
    /\ Adaptive \in BOOLEAN /\ Resumes \in BOOLEAN /\ Cancels \in BOOLEAN
    /\ Faults \subseteq {"timeout", "error", "noRange", "short", "shortRange"}
    /\ NoOne \notin Conns

-----------------------------------------------------------------------------
(* The layout of the file (SplitFileIntoPieces, NewPiece, BitfieldMan).      *)

\* Division that rounds up.
CeilDiv(a, b) == (a + b - 1) \div b

Pieces == 0..(CeilDiv(FileSize, PieceLength) - 1)
PieceStart(p) == p * PieceLength
PieceLen(p) == IF PieceStart(p) + PieceLength > FileSize
               THEN FileSize - PieceStart(p) ELSE PieceLength
PieceEnd(p) == PieceStart(p) + PieceLen(p) - 1

NumBlocks(p) == CeilDiv(PieceLen(p), BlockLength)
Blocks(p) == 0..(NumBlocks(p) - 1)
BlockStart(p, i) == PieceStart(p) + i * BlockLength
BlockLen(p, i) == IF i = NumBlocks(p) - 1 /\ PieceLen(p) % BlockLength # 0
                  THEN PieceLen(p) % BlockLength ELSE BlockLength
Units(p, i) == BlockStart(p, i)..(BlockStart(p, i) + BlockLen(p, i) - 1)

BlockIndexForOffset(p, offset) ==
    LET i == (offset - PieceStart(p)) \div BlockLength
    IN  IF i >= NumBlocks(p) THEN NumBlocks(p) - 1 ELSE i

-----------------------------------------------------------------------------
VARIABLES have,      \* the completed blocks of a piece
          used,      \* the blocks with their use bit set
          status,    \* piece.status
          owner,     \* piece.ownerCUID
          written,   \* the units whose data is in the file
          cancelled, \* workerCtx is done
          dlErr,     \* downloadErr: "none", "noRange" or "other"
          result,    \* what doDownload returns
          pc, piece, blk, from, off, last, url, retry  \* a worker's own state

shared == <<have, used, status, owner, written, cancelled, dlErr, result>>
local  == <<pc, piece, blk, from, off, last, url, retry>>
vars   == <<shared, local>>

Step(w, a, b) == pc[w] = a /\ pc' = [pc EXCEPT ![w] = b]

Complete(p) == have[p] = Blocks(p)

\* The bitmaps of piece p after the bits of blocks S have been changed.
SetBit(p, S) == have[p] \cup S
SetUseBit(p, S) == used[p] \cup S
UnsetUseBit(p, S) == used[p] \ S

\* The workers start on fresh pieces or on those restored from the bitmaps of
\* a control file, whose blocks were in the file when it was saved.
Init ==
    /\ have \in IF Resumes
                THEN {h \in [Pieces -> SUBSET UNION {Blocks(p) : p \in Pieces}] :
                         \A p \in Pieces : h[p] \subseteq Blocks(p)}
                ELSE {[p \in Pieces |-> {}]}
    /\ written = UNION {UNION {Units(p, i) : i \in have[p]} : p \in Pieces}
    /\ used = [p \in Pieces |-> {}]
    /\ status = [p \in Pieces |-> IF Complete(p) THEN "complete" ELSE "idle"]
    /\ owner = [p \in Pieces |-> NoOne]
    /\ cancelled = FALSE /\ dlErr = "none" /\ result = "none"
    /\ pc = [w \in Conns |-> "top"]
    /\ piece = [w \in Conns |-> 0] /\ blk = [w \in Conns |-> 0]
    /\ from = [w \in Conns |-> 0] /\ off = [w \in Conns |-> 0] /\ last = [w \in Conns |-> 0]
    /\ url = [w \in Conns |-> 1] /\ retry = [w \in Conns |-> 0]

-----------------------------------------------------------------------------
(* The top of the worker's loop.                                            *)

\* The worker sees workerCtx.Done() and returns.  This is no error.
Leaves(w) ==
    /\ cancelled /\ pc[w] \in {"top", "throttled"}
    /\ pc' = [pc EXCEPT ![w] = "done"]
    /\ UNCHANGED <<shared, piece, blk, from, off, last, url, retry>>

GoesOn(w) ==
    /\ ~cancelled /\ Step(w, "top", "get")
    /\ UNCHANGED <<shared, piece, blk, from, off, last, url, retry>>

Idle_OrActive == {p \in Pieces : status[p] # "complete"}

Idle == {p \in Pieces : status[p] = "idle"}

\* GetPieceForDownload; inorder, geom and random each pick an idle piece.  A
\* worker that finds none tries to steal.
GetPieceForDownload(w) ==
    /\ \/ /\ Step(w, "get", "sem")
          /\ \E p \in Idle :
                /\ status' = [status EXCEPT ![p] = "active"]
                /\ owner' = [owner EXCEPT ![p] = w]
                /\ piece' = [piece EXCEPT ![w] = p]
       \/ Idle = {} /\ Step(w, "get", "steal") /\ UNCHANGED <<status, owner, piece>>
    /\ UNCHANGED <<have, used, written, cancelled, dlErr, result, blk, from, off, last, url, retry>>

Missing(p) == Blocks(p) \ have[p]
Remaining(p) == Cardinality(UNION {Units(p, i) : i \in Missing(p)})
StealStart(p) ==
    (CHOOSE i \in Missing(p) : \A j \in Missing(p) : i <= j) + Cardinality(Missing(p)) \div 2
StealLength(p) == PieceLen(p) - StealStart(p) * BlockLength

\* StealableRange goes on to release use bits when enough is missing, whether
\* or not the range turns out long enough.
Visited(p) == Remaining(p) >= MinSteal
Stealable(p) == Visited(p) /\ StealLength(p) >= MinSteal
Released(p) == {i \in Missing(p) : i >= StealStart(p)}

\* TryStealPiece: the first active piece of somebody else that can be stolen
\* from; with none the worker is finished.
TryStealPiece(w) ==
    LET others == {p \in Pieces : status[p] = "active" /\ owner[p] # w}
        able   == {p \in others : Stealable(p)}
        seen   == {p \in others : Visited(p) /\ \A q \in able : p <= q}
    IN  /\ used' = [p \in Pieces |-> IF p \in seen THEN UnsetUseBit(p, Released(p)) ELSE used[p]]
        /\ \/ able = {} /\ Step(w, "steal", "done") /\ UNCHANGED <<piece, from, last>>
           \/ \E p \in able :
                 /\ \A q \in able : p <= q
                 /\ Step(w, "steal", "rangeSem")
                 /\ piece' = [piece EXCEPT ![w] = p]
                 /\ from' = [from EXCEPT ![w] = BlockStart(p, StealStart(p))]
                 /\ last' = [last EXCEPT ![w] = PieceEnd(p)]
        /\ UNCHANGED <<have, status, owner, written, cancelled, dlErr, result, blk, off, url, retry>>

-----------------------------------------------------------------------------
(* The semaphore: it has a place for every worker, but in adaptive mode a    *)
(* worker that finds more than the current thread count in it, which is at   *)
(* least one, leaves it again.                                               *)

InSemaphore(w) ==
    pc[w] \in {"sem", "rangeSem", "attempt", "request", "body", "range", "rangeBody"}

\* A worker puts its piece back in two lock sections, SetStatus(PieceIdle) and
\* SetOwner(0), to wait for its throttle timer or to end.  Between them another
\* worker can take the piece, which then loses its owner.
PutBack(w) ==
    /\ Step(w, "yield", "yielded") \/ Step(w, "putBack", "disown")
    /\ status' = [status EXCEPT ![piece[w]] = "idle"]
    /\ UNCHANGED <<have, used, owner, written, cancelled, dlErr, result>>
    /\ UNCHANGED <<piece, blk, from, off, last, url, retry>>

Disown(w) ==
    /\ Step(w, "yielded", "throttled") \/ Step(w, "disown", "done")
    /\ owner' = [owner EXCEPT ![piece[w]] = NoOne]
    /\ UNCHANGED <<have, used, status, written, cancelled, dlErr, result>>
    /\ UNCHANGED <<piece, blk, from, off, last, url, retry>>

\* GetEndOffset: up to the end of the file unless the next piece is active.
EndOffset(p) ==
    IF p + 1 \in Pieces /\ status[p + 1] = "active" THEN PieceEnd(p) ELSE FileSize - 1

\* The end of a piece's range is taken now, a stolen range has its own.
PieceAdmitted(w) ==
    /\ Step(w, "sem", "attempt")
    /\ last' = [last EXCEPT ![w] = EndOffset(piece[w])]

RangeAdmitted(w) == Step(w, "rangeSem", "range") /\ UNCHANGED last

Admitted(w) ==
    /\ PieceAdmitted(w) \/ RangeAdmitted(w)
    /\ url' = [url EXCEPT ![w] = 1] /\ retry' = [retry EXCEPT ![w] = 0]
    /\ UNCHANGED <<shared, piece, blk, from, off>>

\* Refused by the thread count, or workerCtx is done: a piece is put back.
Refused(w) ==
    /\ \/ /\ Adaptive /\ \E v \in Conns \ {w} : InSemaphore(v)
          /\ Step(w, "sem", "yield") \/ Step(w, "rangeSem", "throttled")
       \/ cancelled /\ (Step(w, "sem", "putBack") \/ Step(w, "rangeSem", "done"))
    /\ UNCHANGED <<shared, piece, blk, from, off, last, url, retry>>

Unthrottled(w) ==
    /\ Step(w, "throttled", "top")
    /\ UNCHANGED <<shared, piece, blk, from, off, last, url, retry>>

-----------------------------------------------------------------------------
(* What an attempt's error leads to.                                         *)

InRange(w) == pc[w] \in {"range", "rangeBody"}

\* A piece of one's own has to be put back.
Ends(w) == pc' = [pc EXCEPT ![w] = IF InRange(w) THEN "done" ELSE "putBack"]

GiveUp_Silent(w, err) == Ends(w) /\ UNCHANGED <<status, owner, url, retry, cancelled, dlErr>>

\* The first error is kept, the other workers are cancelled, the worker ends.
GiveUp(w, err) ==
    /\ Ends(w)
    /\ dlErr' = IF dlErr = "none" THEN err ELSE dlErr
    /\ cancelled' = TRUE
    /\ UNCHANGED <<status, owner, url, retry>>

AttemptAgain(w, u, r) ==
    /\ pc' = [pc EXCEPT ![w] = IF InRange(w) THEN "range" ELSE "attempt"]
    /\ url' = [url EXCEPT ![w] = u] /\ retry' = [retry EXCEPT ![w] = r]
    /\ UNCHANGED <<status, owner, cancelled, dlErr>>

\* Only a timeout is retried; everything else is a permanent error for this
\* source (IsPermanentError).
Retries(w, err) == err = "timeout" /\ retry[w] < MaxRetries

\* The loops of downloadPiece and downloadRange.
Fail(w, err) ==
    \/ cancelled /\ GiveUp(w, "other")
    \/ /\ Retries(w, err) /\ ~cancelled
       /\ AttemptAgain(w, url[w], retry[w] + 1)
    \/ /\ ~Retries(w, err) /\ ~cancelled
       /\ \/ url[w] < Urls /\ AttemptAgain(w, url[w] + 1, 0)
          \/ url[w] = Urls /\ GiveUp(w, IF err = "noRange" THEN err ELSE "other")

\* How a request or a read can end in an error.
Errors == (Faults \cap {"timeout", "error", "noRange"}) \cup IF cancelled THEN {"cancelled"} ELSE {}

-----------------------------------------------------------------------------
(* downloadPieceOnceFromURL.                                                 *)

FirstUnused_SkipsFirst(p, h, u) ==
    {i \in Blocks(p) \ (h \cup u \cup {0}) : \A j \in Blocks(p) \ (h \cup u \cup {0}) : i <= j}

\* The first block that is neither complete nor in use, given the bitmaps.
FirstUnused(p, h, u) ==
    {i \in Blocks(p) \ (h \cup u) : \A j \in Blocks(p) \ (h \cup u) : i <= j}

PieceDone(w) ==
    /\ Complete(piece[w]) /\ Step(w, "attempt", "top")
    /\ status' = [status EXCEPT ![piece[w]] = "complete"]
    /\ UNCHANGED <<have, used, owner, written, cancelled, dlErr, result>>
    /\ UNCHANGED <<piece, blk, from, off, last, url, retry>>

AttemptCancelled_Never(w) == FALSE

\* ctx.Done() at the top of the attempt, while waiting and in the backoff.
AttemptCancelled(w) ==
    /\ pc[w] = "attempt" /\ cancelled /\ GiveUp(w, "other")
    /\ UNCHANGED <<have, used, written, result, piece, blk, from, off, last>>

\* NextUnusedBlock; when every missing block is in use the worker waits.
NextUnusedBlock(w) ==
    /\ ~cancelled /\ ~Complete(piece[w]) /\ Step(w, "attempt", "request")
    /\ \E i \in FirstUnused(piece[w], have[piece[w]], used[piece[w]]) :
          /\ used' = [used EXCEPT ![piece[w]] = SetUseBit(piece[w], {i})]
          /\ blk' = [blk EXCEPT ![w] = i]
          /\ off' = [off EXCEPT ![w] = BlockStart(piece[w], i)]
    /\ UNCHANGED <<have, status, owner, written, cancelled, dlErr, result>>
    /\ UNCHANGED <<piece, from, last, url, retry>>

\* piece.CancelBlock of the current block.
CancelBlock(w) == used' = [used EXCEPT ![piece[w]] = UnsetUseBit(piece[w], {blk[w]})]

\* A 206 response is read; anything else releases the block and fails.
Request(w) ==
    \/ Step(w, "request", "body") /\ UNCHANGED <<shared, piece, blk, from, off, last, url, retry>>
    \/ /\ pc[w] = "request"
       /\ \E err \in Errors : Fail(w, err)
       /\ CancelBlock(w)
       /\ UNCHANGED <<have, written, result, piece, blk, from, off, last>>

\* The response goes on with block next only from where it has got to.
Continues(next, o) == next = o

\* CompleteBlock, IsComplete and NextUnusedBlock after the last byte of a
\* block.  A block that does not follow on keeps its use bit.
BlockEnds(w, o) ==
    LET p == piece[w]
        h == SetBit(p, {blk[w]})
        u == UnsetUseBit(p, {blk[w]})
    IN  /\ have' = [have EXCEPT ![p] = h]
        /\ \/ /\ h = Blocks(p)
              /\ status' = [status EXCEPT ![p] = "complete"]
              /\ used' = [used EXCEPT ![p] = u]
              /\ pc' = [pc EXCEPT ![w] = "top"] /\ UNCHANGED blk
           \/ /\ h # Blocks(p) /\ FirstUnused(p, h, u) = {}
              /\ used' = [used EXCEPT ![p] = u]
              /\ pc' = [pc EXCEPT ![w] = "attempt"] /\ UNCHANGED <<status, blk>>
           \/ /\ h # Blocks(p)
              /\ \E i \in FirstUnused(p, h, u) :
                    /\ used' = [used EXCEPT ![p] = u \cup {i}]
                    /\ IF Continues(BlockStart(p, i), o)
                       THEN blk' = [blk EXCEPT ![w] = i] /\ UNCHANGED pc
                       ELSE pc' = [pc EXCEPT ![w] = "attempt"] /\ UNCHANGED blk
              /\ UNCHANGED status

BlockFull_Early(p, i, o) == o >= BlockStart(p, i) + BlockLen(p, i) - 1

\* The data has reached the end of the block.
BlockFull(p, i, o) == o >= BlockStart(p, i) + BlockLen(p, i)

\* Body.Read returns n units, which are written at once.
Read(w, n) ==
    LET o == off[w] + n IN
    /\ pc[w] = "body" /\ o - 1 <= last[w]
    /\ written' = written \cup off[w]..(o - 1)
    /\ off' = [off EXCEPT ![w] = o]
    /\ IF BlockFull(piece[w], blk[w], o)
       THEN BlockEnds(w, o)
       ELSE UNCHANGED <<have, used, status, pc, blk>>
    /\ UNCHANGED <<owner, cancelled, dlErr, result, piece, from, last, url, retry>>

\* A read, the rate limiter or the speed check fails: the block is released.
ReadFails(w) ==
    /\ pc[w] = "body"
    /\ \E err \in Errors \ {"noRange"} : Fail(w, err)
    /\ CancelBlock(w)
    /\ UNCHANGED <<have, written, result, piece, blk, from, off, last>>

\* "short read": the response ends inside the block; its use bit stays.
ShortRead(w) ==
    /\ pc[w] = "body" /\ "short" \in Faults
    /\ Fail(w, "error")
    /\ UNCHANGED <<have, used, written, result, piece, blk, from, off, last>>

-----------------------------------------------------------------------------
(* downloadRangeOnceFromURL: a stolen range, without use bits.               *)

RangeRequest(w) ==
    \/ /\ Step(w, "range", "rangeBody")
       /\ off' = [off EXCEPT ![w] = from[w]]
       /\ UNCHANGED <<shared, piece, blk, from, last, url, retry>>
    \/ /\ pc[w] = "range"
       /\ \E err \in Errors : Fail(w, err)
       /\ UNCHANGED <<have, used, written, result, piece, blk, from, off, last>>

RangeRead(w, n) ==
    /\ pc[w] = "rangeBody" /\ off[w] + n - 1 <= last[w]
    /\ written' = written \cup off[w]..(off[w] + n - 1)
    /\ off' = [off EXCEPT ![w] = @ + n]
    /\ UNCHANGED <<have, used, status, owner, cancelled, dlErr, result>>
    /\ UNCHANGED <<pc, piece, blk, from, last, url, retry>>

RangeFails(w) ==
    /\ pc[w] = "rangeBody"
    /\ \E err \in Errors \ {"noRange"} : Fail(w, err)
    /\ UNCHANGED <<have, used, written, result, piece, blk, from, off, last>>

\* The blocks of the range that the data received reaches into.
Covered(w) ==
    IF off[w] = from[w] THEN {}
    ELSE BlockIndexForOffset(piece[w], from[w])..BlockIndexForOffset(piece[w], off[w] - 1)

\* io.EOF: mark the blocks; a piece that is still incomplete is an error.
RangeEOF(w) ==
    LET p == piece[w]
        h == SetBit(p, Covered(w))
    IN  /\ pc[w] = "rangeBody" /\ (off[w] > last[w] \/ "shortRange" \in Faults)
        /\ have' = [have EXCEPT ![p] = h]
        /\ used' = [used EXCEPT ![p] = UnsetUseBit(p, Covered(w))]
        /\ \/ /\ h = Blocks(p)
              /\ status' = [status EXCEPT ![p] = "complete"]
              /\ pc' = [pc EXCEPT ![w] = "top"]
              /\ UNCHANGED <<owner, cancelled, dlErr, url, retry>>
           \/ h # Blocks(p) /\ Fail(w, "error")
        /\ UNCHANGED <<written, result, piece, blk, from, off, last>>

-----------------------------------------------------------------------------
\* wg.Wait() returns and doDownload looks at downloadErr only.
Returns ==
    /\ result = "none" /\ \A w \in Conns : pc[w] = "done"
    /\ result' = IF dlErr = "none" THEN "ok"
                 ELSE IF dlErr = "noRange" THEN "fallback" ELSE "failed"
    /\ UNCHANGED <<have, used, status, owner, written, cancelled, dlErr, local>>

\* The caller cancels the context.
Cancel ==
    /\ Cancels /\ ~cancelled /\ result = "none"
    /\ cancelled' = TRUE
    /\ UNCHANGED <<have, used, status, owner, written, dlErr, result, local>>

OwnStep(w) ==
    \/ Leaves(w) \/ GoesOn(w) \/ GetPieceForDownload(w) \/ TryStealPiece(w)
    \/ Admitted(w) \/ Refused(w) \/ Unthrottled(w) \/ PutBack(w) \/ Disown(w)
    \/ PieceDone(w) \/ AttemptCancelled(w) \/ NextUnusedBlock(w)
    \/ Request(w) \/ RangeRequest(w)

\* What the body of a response does.
BodyFails(w) == ReadFails(w) \/ RangeFails(w)

BodyStep(w) ==
    \/ (\E n \in ReadSizes : Read(w, n) \/ RangeRead(w, n))
    \/ BodyFails(w) \/ ShortRead(w) \/ RangeEOF(w)

Next == (\E w \in Conns : OwnStep(w) \/ BodyStep(w)) \/ Returns \/ Cancel

Spec == Init /\ [][Next]_vars

\* A worker that can go on does, and a request is answered or fails: the client
\* has timeouts for dialling, TLS and the header of the response.  A body has
\* none, so it may stall for ever, unless its context is cancelled.  Workers
\* that keep refusing each other in adaptive mode wait on timers of their own,
\* so one of them gets in at last.
Fairness ==
    /\ \A w \in Conns :
          WF_vars(OwnStep(w)) /\ SF_vars(Admitted(w)) /\ WF_vars(cancelled /\ BodyFails(w))
    /\ WF_vars(Returns)

FairSpec == Spec /\ Fairness

-----------------------------------------------------------------------------
(* Correctness.                                                             *)

TypeOK ==
    /\ have \in [Pieces -> SUBSET Nat] /\ used \in [Pieces -> SUBSET Nat]
    /\ \A p \in Pieces : have[p] \subseteq Blocks(p) /\ used[p] \subseteq Blocks(p)
    /\ status \in [Pieces -> {"idle", "active", "complete"}]
    /\ owner \in [Pieces -> Conns \cup {NoOne}]
    /\ written \subseteq 0..(FileSize - 1)
    /\ cancelled \in BOOLEAN
    /\ dlErr \in {"none", "noRange", "other"}
    /\ result \in {"none", "ok", "fallback", "failed"}
    /\ pc \in [Conns -> {"top", "get", "steal", "sem", "yield", "yielded",
                         "putBack", "disown", "throttled", "attempt", "request", "body",
                         "rangeSem", "range", "rangeBody", "done"}]
    /\ piece \in [Conns -> Pieces]
    /\ blk \in [Conns -> Nat]
    /\ from \in [Conns -> 0..FileSize] /\ off \in [Conns -> 0..FileSize]
    /\ last \in [Conns -> 0..(FileSize - 1)]
    /\ url \in [Conns -> 1..Urls] /\ retry \in [Conns -> 0..MaxRetries]

\* A block is called complete only when all its bytes are in the file, with
\* owners and stealers writing the same blocks, reads that cross block and
\* piece boundaries, failed attempts and restored bitmaps: what the control
\* file says can be resumed from is there ("P0 data corruption" otherwise).
\* Only a stolen range that ends early ("shortRange") can break it: its last
\* block is marked by the offset reached.
CompleteIsWritten == \A p \in Pieces : \A i \in have[p] : Units(p, i) \subseteq written

\* doDownload reports success only with every piece complete, although it
\* asks for no more than the absence of errors (when nobody cancels it).
SuccessMeansComplete == result = "ok" /\ ~cancelled => \A p \in Pieces : Complete(p)

\* The worker has a piece that no other worker may be given.
Holding(w) == pc[w] \in {"sem", "yield", "putBack", "attempt", "request", "body"}

\* No two workers have been given the same piece, an active piece is with a
\* worker (nobody else would ever take it up) and one that is marked complete
\* has all its blocks - with pieces that are taken while the worker that puts
\* them back has yet to clear their owner, stealing and failures included.
OneWorkerPerPiece ==
    /\ \A v, w \in Conns : Holding(v) /\ Holding(w) /\ piece[v] = piece[w] => v = w
    /\ \A p \in Pieces : status[p] = "active" => \E w \in Conns : Holding(w) /\ piece[w] = p
    /\ \A p \in Pieces : status[p] = "complete" => Complete(p)

\* A missing block whose use bit is set although no worker is at it.
Leaked ==
    \E p \in Pieces : \E i \in used[p] \ have[p] :
        \A w \in Conns : ~(pc[w] \in {"request", "body"} /\ piece[w] = p /\ blk[w] = i)

\* A transfer that never returns is waiting for a leaked block or reads a body
\* that never ends: retries, stealing, throttling, put-backs and failures of
\* other workers never hang it.
OnlyLeaksAndStallsHang ==
    \/ <>(result # "none")
    \/ <>[]Leaked
    \/ \E w \in Conns : <>[](pc[w] \in {"body", "rangeBody"})

\* Once its context is cancelled the transfer returns, whatever its workers
\* are waiting for: DownloadManager.Stop waits for this.
CancelledReturns == cancelled ~> result # "none"
=============================================================================
