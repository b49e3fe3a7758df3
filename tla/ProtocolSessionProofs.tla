------------------------ MODULE ProtocolSessionProofs ------------------------
(***************************************************************************)
(* What holds of a download session of every kind, for every layout of the *)
(* file, every kind of server and every number of retries and restarts.    *)
(***************************************************************************)
EXTENDS ProtocolSession, FiniteSetTheorems, TLAPS

Record(r) == r # None => r.completed \in Nat /\ r.bits \subseteq Blocks

Types ==
    /\ conf \in Configs /\ proto \in Protocols
    /\ flen \in Int /\ flen >= Absent /\ good \subseteq Nat
    /\ total \in Nat /\ pos \in Nat /\ at \in Nat
    /\ have \subseteq Blocks /\ part \in [Blocks -> 0..BlockLen]
    /\ Record(cf) /\ Record(ctl)
    /\ HTTP => good \subseteq Units
    /\ ended # "no" => pc \in {"delete", "closing", "returned", "checked", "renamed"}

\* The ways that the servers lead through doDownload.
Ways ==
    /\ conf.server = "ranges" => pc \notin {"decideSingle", "single", "body", "whole", "fallback"}
    /\ pc \in {"fallback", "whole"} => IgnoresRange

-----------------------------------------------------------------------------
(* HTTP: what the bitmaps say.                                              *)

NoBlocks(r) == r # None => r.bits = {}

\* Nothing has been written over several connections.
Untouched == ~ServesRange \/ ~scattered

\* Blocks get into the bitmaps by that or by a count, which without ranges
\* leaves the last one out.
BitsOfServer ==
    /\ Untouched /\ ~counted => have = {} /\ NoBlocks(cf) /\ NoBlocks(ctl)
    /\ Untouched /\ pc \in {"open", "pieces"} => \A b \in Blocks : part[b] = 0
    /\ ~ServesRange =>
          /\ (NumBlocks - 1) \notin have
          /\ cf # None => (NumBlocks - 1) \notin cf.bits
          /\ ctl # None => (NumBlocks - 1) \notin ctl.bits

WrittenBits(r) == r # None => \A b \in r.bits : IsWritten(b)

\* What the current attempt has read of a block.
PartOf(b) == (b * BlockLen)..(b * BlockLen + part[b] - 1)

\* The bitmaps, in memory, in the control file and in the record it was loaded
\* to.
RangesWritten ==
    ~counted /\ Kept /\ ~displaced /\ pc # "renamed" =>
        /\ \A b \in have : IsWritten(b)
        /\ WrittenBits(cf) /\ WrittenBits(ctl)
        /\ pc \in {"open", "pieces"} => \A b \in Blocks : PartOf(b) \subseteq good

-----------------------------------------------------------------------------
(* HTTP: what the counts say.                                               *)

\* The file has no gaps, and one connection writes into it or at its end.
Contiguous ==
    OneConnection /\ ~displaced =>
        /\ good = 0..(flen - 1)
        /\ pc \in {"body", "whole"} => pos <= flen

Counted(r) == r # None => r.completed <= Max(flen, 0)

\* No count exceeds the file that a server without announced ranges resumes.
CountsSound ==
    conf.server = "silent" /\ OneConnection /\ ~displaced /\ pc # "renamed" =>
        /\ total <= Max(flen, 0) /\ Counted(cf) /\ Counted(ctl)
        /\ flen <= FileSize
        /\ pc = "body" => total <= pos
        /\ pc \in {"probe", "decideSingle", "single"} => ~ticking
        /\ pc = "single" => ~FullyDownloaded

Whole == OneConnection \/ ~ServesRange

BodyRead ==
    Whole /\ pc \in {"body", "whole"} /\ ~displaced =>
        pos <= FileSize /\ 0..(pos - 1) \subseteq good

\* The whole file is there at the end.
EndWritten ==
    /\ ~displaced =>
          /\ ended = "pieces" /\ ~cut /\ ~counted /\ Kept => good = Units
          /\ ended = "stream" /\ ~cut /\ Whole => good = Units
          /\ ended = "skip" /\ ~conf.conditional /\ OneConnection => good = Units
    /\ ended = "verified" => good = Units

\* No control file is left beside an output that was renamed.
RenamedApart == pc = "renamed" => ~ticking /\ (displaced \/ ctl = None) /\ flen = Absent /\ good = {}

HTTPInv ==
    HTTP => /\ Ways /\ BitsOfServer /\ RangesWritten
            /\ Contiguous /\ CountsSound /\ BodyRead /\ EndWritten /\ RenamedApart

-----------------------------------------------------------------------------
(* The other protocols.                                                     *)

\* The local file is a beginning of the remote one; what is asked for, and
\* written, is its continuation.
StreamInv ==
    proto \in Streams =>
        /\ Is("webdav") /\ pc = "request" => at = 0
        /\ ~displaced =>
              /\ flen <= FileSize /\ good = 0..(flen - 1)
              /\ pc = "request" => at = WriteOffset(flen) /\ pos = flen
              /\ pc = "stream" => at = flen /\ pos = flen
              /\ ended = "skip" \/ (ended = "stream" /\ ~cut) => flen = FileSize

TorrentInv ==
    Is("torrent") /\ (pc \in {"move", "seed"} \/ ended = "moved") =>
        \A b \in selected \ data : IsWritten(b)

IInv == Types /\ HTTPInv /\ StreamInv /\ TorrentInv

\* A step of an HTTP session, and the moves after it has returned.
HTTPStep ==
    /\ HTTP /\ (SessionStep \/ Cancel \/ Tick \/ TickerEnds)
    /\ UNCHANGED <<proto, at, selected, data, displaced>>

BitsFrom(S) ==
    \/ S = {} \/ S = have
    \/ cf # None /\ S = cf.bits
    \/ ctl # None /\ S = ctl.bits

CountFrom(n) ==
    \/ n = 0 \/ n = total
    \/ n = flen /\ flen > 0
    \/ cf # None /\ n = cf.completed
    \/ ctl # None /\ n = ctl.completed

-----------------------------------------------------------------------------
(* The layout of the file.                                                  *)

LEMMA Sizes ==
    /\ NumBlocks \in Nat \ {0} /\ BlockLen \in Nat \ {0} /\ PieceBlocks \in Nat \ {0}
    /\ FileSize \in Nat \ {0}
<1>1. NumBlocks \in Nat \ {0} /\ BlockLen \in Nat \ {0} /\ PieceBlocks \in Nat \ {0}
    BY SessionAssumption
<1>2. \A a, b \in Nat \ {0} : a * b \in Nat \ {0}
    BY SMT
<1> QED BY <1>1, <1>2 DEF FileSize

LEMMA Mult ==
    ASSUME NEW m \in Nat, NEW n \in Nat, NEW b \in Nat, m <= n
    PROVE  m * b <= n * b /\ m * b \in Nat /\ n * b \in Nat
BY SMT

LEMMA DivRest ==
    ASSUME NEW a \in Nat, NEW b \in Nat \ {0}
    PROVE  a \div b \in Nat /\ (a \div b) * b <= a /\ a < (a \div b) * b + b
<1>1. a % b \in 0..(b - 1) /\ a = b * (a \div b) + (a % b)
    BY SMT
<1>2. a \div b \in Nat
    BY SMT
<1>3. b * (a \div b) = (a \div b) * b /\ (a \div b) * b \in Nat
    BY <1>2, SMT
<1> DEFINE q == (a \div b) * b
           r == a % b
<1> HIDE DEF q, r
<1>4. r \in 0..(b - 1) /\ a = q + r /\ q \in Nat
    BY <1>1, <1>3 DEF q, r
<1>5. q <= a /\ a < q + b
    BY <1>4
<1> QED BY <1>2, <1>5 DEF q

\* A block lies inside the file.
LEMMA BlockInFile ==
    ASSUME NEW b \in Blocks
    PROVE  /\ b \in Nat /\ b * BlockLen \in Nat
           /\ UnitsOf(b) = (b * BlockLen)..(b * BlockLen + BlockLen - 1)
           /\ b * BlockLen + BlockLen <= FileSize
<1>1. b \in Nat /\ b + 1 <= NumBlocks /\ NumBlocks \in Nat /\ BlockLen \in Nat
    BY Sizes DEF Blocks
<1>2. (b + 1) * BlockLen <= NumBlocks * BlockLen /\ b * BlockLen \in Nat
    BY <1>1, Mult
<1>3. (b + 1) * BlockLen = b * BlockLen + BlockLen
    BY <1>1, SMT
<1>4. UnitsOf(b) = (b * BlockLen)..(b * BlockLen + BlockLen - 1)
    <2> DEFINE s == b * BlockLen
               e == (b + 1) * BlockLen
    <2>1. UnitsOf(b) = s..(e - 1)
        BY DEF UnitsOf
    <2>2. e = s + BlockLen /\ s \in Nat /\ BlockLen \in Nat
        BY <1>1, <1>2, <1>3
    <2> HIDE DEF s, e
    <2>3. UnitsOf(b) = s..(s + BlockLen - 1)
        BY <2>1, <2>2
    <2> QED BY <2>3 DEF s
<1> QED BY <1>1, <1>2, <1>3, <1>4 DEF FileSize

LEMMA UnitsInFile ==
    ASSUME NEW b \in Blocks
    PROVE  UnitsOf(b) \subseteq Units
<1> DEFINE s == b * BlockLen
<1>1. s \in Nat /\ UnitsOf(b) = s..(s + BlockLen - 1) /\ s + BlockLen <= FileSize
    BY BlockInFile
<1> HIDE DEF s
<1> QED BY <1>1, Sizes DEF Units

\* Every unit belongs to a block.
LEMMA BlocksCoverFile ==
    ASSUME NEW S, \A b \in Blocks : UnitsOf(b) \subseteq S
    PROVE  Units \subseteq S
<1> SUFFICES ASSUME NEW u \in Units PROVE u \in S
    OBVIOUS
<1> DEFINE b == u \div BlockLen
<1>1. u \in Nat /\ u < NumBlocks * BlockLen /\ NumBlocks \in Nat /\ BlockLen \in Nat \ {0}
    BY Sizes DEF Units, FileSize
<1>2. b \in Nat /\ b * BlockLen <= u /\ u < b * BlockLen + BlockLen
    BY <1>1, DivRest
<1> HIDE DEF b
<1>3. b \in Blocks
    <2>1. NumBlocks <= b => NumBlocks * BlockLen <= b * BlockLen /\ b * BlockLen \in Nat
        BY <1>1, <1>2, Mult
    <2>2. NumBlocks * BlockLen \in Nat
        BY <1>1, SMT
    <2>3. ~(NumBlocks <= b)
        BY <1>1, <1>2, <2>1, <2>2
    <2> QED BY <1>1, <1>2, <2>3 DEF Blocks
<1>4. u \in UnitsOf(b)
    <2> DEFINE s == b * BlockLen
    <2>1. UnitsOf(b) = s..(s + BlockLen - 1) /\ s \in Nat /\ s <= u /\ u < s + BlockLen
        BY <1>2, <1>3, BlockInFile
    <2> HIDE DEF s
    <2> QED BY <1>1, <2>1
<1> QED BY <1>3, <1>4

\* The last block is not covered by a count that is less than the size.
LEMMA LastNotCounted ==
    ASSUME NEW n \in Nat, n < FileSize
    PROVE  (NumBlocks - 1) \notin CountedBlocks(n)
<1> DEFINE l == NumBlocks - 1
           q == l \div PieceBlocks
<1>1. l \in Nat /\ l + 1 = NumBlocks /\ PieceBlocks \in Nat \ {0} /\ BlockLen \in Nat
    BY Sizes
<1>2. q \in Nat /\ q * PieceBlocks \in Nat /\ l < q * PieceBlocks + PieceBlocks
    <2>1. q \in Nat /\ l < q * PieceBlocks + PieceBlocks
        BY <1>1, DivRest
    <2> HIDE DEF q
    <2> QED BY <1>1, <2>1, Mult
<1>3. (q + 1) * PieceBlocks = q * PieceBlocks + PieceBlocks
    <2> HIDE DEF q
    <2> QED BY <1>1, <1>2, SMT
<1>4. NumBlocks <= (q + 1) * PieceBlocks /\ (q + 1) * PieceBlocks \in Nat /\ NumBlocks \in Nat
    <2> HIDE DEF q
    <2> DEFINE m == (q + 1) * PieceBlocks
               k == q * PieceBlocks
    <2> HIDE DEF m, k, l
    <2>1. m = k + PieceBlocks /\ k \in Nat /\ l < k + PieceBlocks
        BY <1>2, <1>3 DEF m, k
    <2>2. NumBlocks <= m /\ m \in Nat
        BY <1>1, <2>1
    <2> QED BY <2>2, Sizes DEF m
<1>5. NumBlocks * BlockLen <= ((q + 1) * PieceBlocks) * BlockLen
    <2> HIDE DEF q
    <2> QED BY <1>1, <1>4, Mult
<1>6. FileSize <= PieceEnd(l)
    BY <1>5 DEF FileSize, PieceEnd
<1>7. PieceEnd(l) \in Nat /\ FileSize \in Nat
    <2> HIDE DEF q, l
    <2>1. ((q + 1) * PieceBlocks) * BlockLen \in Nat
        BY <1>1, <1>4, Mult
    <2> QED BY <2>1, Sizes DEF PieceEnd, q
<1>8. ~(PieceEnd(l) <= n)
    <2> HIDE DEF l
    <2> QED BY <1>6, <1>7
<1> QED BY <1>8 DEF CountedBlocks

-----------------------------------------------------------------------------
(* The record of the progress.                                              *)

\* What a step of a session does with the record in memory and on disk.
LEMMA RecordMoves ==
    ASSUME HTTPStep
    PROVE  \/ UNCHANGED <<cf, ctl>>
           \/ cf' = Saved /\ ctl' = Saved
           \/ cf' = ctl /\ UNCHANGED ctl
           \/ cf' = WithoutProgress /\ UNCHANGED ctl
           \/ UNCHANGED cf /\ ctl' = None
           \/ flen > 0 /\ ctl' = [Saved EXCEPT !.completed = flen] /\ cf' = ctl'
<1>1. ASSUME Save PROVE UNCHANGED <<cf, ctl>> \/ (cf' = Saved /\ ctl' = Saved)
    BY <1>1 DEF Save
<1>2. CASE Tick \/ TransferFails \/ RangeDropped \/ TransferDone \/ BodyEnds
    BY <1>1, <1>2 DEF Tick, TransferFails, RangeDropped, TransferDone, BodyEnds
<1>3. CASE BodyFails
    BY <1>1, <1>3 DEF BodyFails
<1>4. CASE LoadProgress \/ Fallback \/ ResumeWhole \/ ResumeRefused
    BY <1>4 DEF LoadProgress, Fallback, ResumeWhole, ResumeRefused, disk
<1>5. CASE Delete
    BY <1>5 DEF Delete, mem
<1>6. CASE NotModified
    BY <1>6 DEF NotModified
<1>7. CASE Skip
    <2>1. flen = FileSize /\ FileSize > 0
        BY <1>7, Sizes DEF Skip, FullyDownloaded
    <2> QED BY <1>7, <2>1 DEF Skip
<1>8. CASE Cancel \/ TickerEnds \/ ProbeFails \/ Probe \/ ProbeViaGet \/ ToSingle \/ Resume \/ OpenFile
    BY <1>8 DEF Cancel, TickerEnds, ProbeFails, Probe, ProbeViaGet, Probed, ToSingle, Resume, OpenFile, disk, mem
<1>9. CASE \E b \in Blocks : ReadUnit(b) \/ CompleteBlock(b) \/ BlockFails(b)
    BY <1>9 DEF ReadUnit, CompleteBlock, BlockFails, disk
<1>10. CASE Return \/ SingleFails \/ SingleStart \/ ResumePartial \/ ReadBody
    BY <1>10 DEF Return, SingleFails, SingleStart, ResumePartial, ReadBody, disk, mem
<1> QED BY <1>2, <1>3, <1>4, <1>5, <1>6, <1>7, <1>8, <1>9, <1>10 DEF HTTPStep, SessionStep

\* So where its bits and its count come from.
LEMMA RecordOrigins ==
    ASSUME HTTPStep
    PROVE  /\ cf' # None => BitsFrom(cf'.bits) /\ CountFrom(cf'.completed)
           /\ ctl' # None => BitsFrom(ctl'.bits) /\ CountFrom(ctl'.completed)
<1>1. BitsFrom(Saved.bits) /\ CountFrom(Saved.completed)
    BY DEF Saved, BitsFrom, CountFrom
<1>2. CASE UNCHANGED <<cf, ctl>>
    BY <1>2 DEF BitsFrom, CountFrom
<1>3. CASE cf' = Saved /\ ctl' = Saved
    BY <1>1, <1>3
<1>4. CASE cf' = ctl /\ UNCHANGED ctl
    BY <1>4 DEF BitsFrom, CountFrom
<1>5. CASE cf' = WithoutProgress /\ UNCHANGED ctl
    <2>1. ctl' # None => BitsFrom(ctl'.bits) /\ CountFrom(ctl'.completed)
        BY <1>5 DEF BitsFrom, CountFrom
    <2>2. CASE cf = None
        BY <1>5, <2>1, <2>2 DEF WithoutProgress
    <2>3. CASE cf # None
        <3>1. cf'.completed = 0 /\ cf'.bits = {}
            BY <1>5, <2>3 DEF WithoutProgress
        <3> QED BY <2>1, <3>1 DEF BitsFrom, CountFrom
    <2> QED BY <2>2, <2>3
<1>6. CASE UNCHANGED cf /\ ctl' = None
    BY <1>6 DEF BitsFrom, CountFrom
<1>7. CASE flen > 0 /\ ctl' = [Saved EXCEPT !.completed = flen] /\ cf' = ctl'
    <2>1. ctl'.bits = Saved.bits /\ ctl'.completed = flen
        BY <1>7 DEF Saved
    <2> QED BY <1>1, <1>7, <2>1 DEF CountFrom
<1> QED BY <1>2, <1>3, <1>4, <1>5, <1>6, <1>7, RecordMoves

-----------------------------------------------------------------------------
(* The types and the ways of the servers.                                   *)

LEMMA BitsAreBlocks ==
    ASSUME Types, NEW S, BitsFrom(S)
    PROVE  S \subseteq Blocks
BY DEF Types, Record, BitsFrom

LEMMA CountsAreNumbers ==
    ASSUME Types, NEW n, CountFrom(n)
    PROVE  n \in Nat
BY DEF Types, Record, CountFrom

LEMMA RecordsKept ==
    ASSUME Types, HTTPStep
    PROVE  Record(cf)' /\ Record(ctl)'
BY RecordOrigins, BitsAreBlocks, CountsAreNumbers DEF Record

\* The length of the file never gets below Absent.
LEMMA MaxOf ==
    ASSUME NEW m \in Int, NEW n \in Int
    PROVE  Max(m, n) \in {m, n} /\ Max(m, n) >= m /\ Max(m, n) >= n
BY DEF Max

\* The unit a worker reads next is one of its block.
LEMMA NextUnit ==
    ASSUME Types, NEW b \in Blocks, part[b] < BlockLen
    PROVE  /\ b * BlockLen + part[b] \in Units
           /\ b * BlockLen \in Nat /\ part[b] \in Nat
<1> DEFINE s == b * BlockLen
<1>1. s \in Nat /\ s + BlockLen <= FileSize /\ BlockLen \in Nat /\ FileSize \in Nat
    BY BlockInFile, Sizes
<1>2. part[b] \in Nat
    BY Sizes DEF Types
<1> HIDE DEF s
<1>3. s + part[b] \in 0..(FileSize - 1)
    BY <1>1, <1>2
<1> QED BY <1>1, <1>2, <1>3 DEF Units, s

\* The blocks that a new piece manager is given.
LEMMA ResumedBlocks ==
    ASSUME Types, Resume
    PROVE  \/ BitsFrom(have')
           \/ \E n \in Nat : n < FileSize /\ have' = CountedBlocks(n)
                             /\ counted' = (counted \/ have' # {})
<1>0. Completed \in Nat
    BY DEF Completed, Types, Record
<1> DEFINE n == IF Completed >= FileSize THEN 0 ELSE Completed
<1>1. n \in Nat /\ n < FileSize
    BY <1>0, Sizes
<1>2. n > 0 => cf # None
    BY Sizes DEF Completed
<1>3. CASE n = 0 /\ have' = {}
    BY <1>3 DEF BitsFrom
<1>4. CASE n > 0 /\ have' = cf.bits
    BY <1>2, <1>4 DEF BitsFrom
<1>5. CASE have' = CountedBlocks(n) /\ counted' = (counted \/ have' # {})
    BY <1>1, <1>5
<1> QED BY <1>3, <1>4, <1>5 DEF Resume

LEMMA ResumedTotal ==
    ASSUME Types, Resume, have' \subseteq Blocks
    PROVE  total' \in Nat
<1>1. IsFiniteSet(Blocks)
    BY Sizes, FS_Interval DEF Blocks
<1>2. ASSUME NEW S, S \subseteq Blocks PROVE Cardinality(S) * BlockLen \in Nat
    <2>1. Cardinality(S) \in Nat
        BY <1>1, <1>2, FS_Subset, FS_CardinalityType
    <2> QED BY <2>1, Sizes, Mult
<1>3. total \in Nat /\ (total' = total \/ total' = Cardinality(have') * BlockLen
                        \/ total' = total + Cardinality(have') * BlockLen)
    BY DEF Resume, Types
<1>4. Cardinality(have') * BlockLen \in Nat
    BY <1>2
<1> DEFINE c == Cardinality(have') * BlockLen
<1> HIDE DEF c
<1>5. c \in Nat /\ (total' = total \/ total' = c \/ total' = total + c)
    BY <1>3, <1>4 DEF c
<1> QED BY <1>3, <1>5

LEMMA TypesKept ==
    ASSUME Types, HTTPStep
    PROVE  Types'
<1>0. /\ Record(cf)' /\ Record(ctl)' /\ HTTP /\ HTTP' /\ proto' = proto /\ at' = at
      /\ FileSize \in Nat \ {0} /\ BlockLen \in Nat \ {0} /\ Units \subseteq Nat
    BY RecordsKept, Sizes DEF HTTPStep, HTTP, Units
<1> USE DEF Absent
<1>1. CASE LoadProgress \/ Tick \/ Cancel \/ TickerEnds \/ Delete
    BY <1>0, <1>1 DEF LoadProgress, Tick, Cancel, TickerEnds, Delete, disk, mem, run, Goto, Types
<1>2. CASE ProbeFails \/ Probe \/ ProbeViaGet \/ ToSingle \/ TransferFails \/ SingleFails \/ BodyFails
    BY <1>0, <1>2 DEF ProbeFails, Probe, ProbeViaGet, Probed, ToSingle, TransferFails, SingleFails, BodyFails, Fails,
                      disk, mem, Goto, Types
<1>3. CASE NotModified \/ Skip
    BY <1>0, <1>3 DEF NotModified, Skip, Succeeds, Types
<1>4. CASE RangeDropped \/ TransferDone \/ BodyEnds \/ Return
    BY <1>0, <1>4 DEF RangeDropped, TransferDone, BodyEnds, Return, Succeeds, disk, mem, Goto, Types
<1>5. CASE Resume
    <2>1. have' \subseteq Blocks
        BY <1>5, ResumedBlocks, BitsAreBlocks DEF CountedBlocks
    <2>2. total' \in Nat /\ part' \in [Blocks -> 0..BlockLen]
        BY <1>0, <1>5, <2>1, ResumedTotal DEF Resume
    <2> QED BY <1>0, <1>5, <2>1, <2>2 DEF Resume, disk, Goto, Types
<1>6. CASE OpenFile
    BY <1>0, <1>6, MaxOf DEF OpenFile, mem, Goto, Types
<1>7. ASSUME NEW b \in Blocks, ReadUnit(b) PROVE Types'
    <2> DEFINE u == b * BlockLen + part[b]
    <2>1. u \in Units /\ u \in Nat
        BY <1>0, <1>7, NextUnit DEF ReadUnit
    <2>2. /\ good' = good \cup {u} /\ flen' = Max(flen, u + 1) /\ total' = total + 1
          /\ UNCHANGED <<conf, have, pos, pc, ended>>
        BY <1>7 DEF ReadUnit, run
    <2>3. part' \in [Blocks -> 0..BlockLen]
        <3>1. part[b] + 1 \in 0..BlockLen
            BY <1>0, <1>7 DEF ReadUnit, Types
        <3>2. part' = [part EXCEPT ![b] = part[b] + 1]
            BY <1>7 DEF ReadUnit
        <3> QED BY <3>1, <3>2 DEF Types
    <2> HIDE DEF u
    <2>4. flen' \in Int /\ flen' >= Absent
        BY <2>1, <2>2, MaxOf DEF Types
    <2> QED BY <1>0, <2>1, <2>2, <2>3, <2>4 DEF Types
<1>8. ASSUME NEW b \in Blocks, CompleteBlock(b) \/ BlockFails(b) PROVE Types'
    <2>1. /\ UNCHANGED <<conf, flen, good, total, pos, pc, ended>>
          /\ \/ have' = have \cup {b} /\ part' = part
             \/ have' = have /\ part' = [part EXCEPT ![b] = 0]
        BY <1>8 DEF CompleteBlock, BlockFails, disk, run
    <2>2. part' \in [Blocks -> 0..BlockLen]
        <3>1. 0 \in 0..BlockLen
            BY <1>0
        <3> QED BY <2>1, <3>1 DEF Types
    <2>3. have' \subseteq Blocks
        BY <2>1 DEF Types
    <2> QED BY <1>0, <2>1, <2>2, <2>3 DEF Types
<1>9. CASE Fallback \/ SingleStart \/ ResumeWhole
    BY <1>0, <1>9 DEF Fallback, SingleStart, ResumeWhole, Empties, Goto, Types
<1>10. CASE ResumePartial
    <2>1. ResumeAt \in Nat
        BY DEF ResumeAt, Completed, Types, Record
    <2> QED BY <1>0, <1>10, <2>1, MaxOf DEF ResumePartial, Goto, Types
<1>11. CASE ResumeRefused
    <2>1. CASE Empties(Absent) /\ total' = 0 /\ UNCHANGED <<pc, ended>>
        BY <1>0, <1>11, <2>1 DEF ResumeRefused, Empties, Types
    <2>2. CASE Fails("error") /\ UNCHANGED <<flen, good, total>>
        BY <1>0, <1>11, <2>2 DEF ResumeRefused, Fails, Types
    <2> QED BY <1>11, <2>1, <2>2 DEF ResumeRefused
<1>12. CASE ReadBody
    <2>1. pos \in Units /\ pos \in Nat
        BY <1>0, <1>12 DEF ReadBody, Units, Types
    <2>2. flen' \in Int /\ flen' >= Absent
        BY <1>12, <2>1, MaxOf DEF ReadBody, Types
    <2> QED BY <1>0, <1>12, <2>1, <2>2 DEF ReadBody, run, Types
<1> QED BY <1>1, <1>2, <1>3, <1>4, <1>5, <1>6, <1>7, <1>8, <1>9, <1>10, <1>11, <1>12
        DEF HTTPStep, SessionStep

\* The configuration is fixed, and what has happened to the file stays true.
LEMMA Histories ==
    ASSUME HTTPStep
    PROVE  /\ conf' = conf /\ displaced' = displaced
           /\ counted => counted'
           /\ emptied => emptied'
           /\ scattered => scattered'
<1> USE DEF rest, hist
<1>0. displaced' = displaced
    BY DEF HTTPStep
<1>1. CASE conf' = conf /\ UNCHANGED <<counted, emptied, scattered>>
    BY <1>0, <1>1, Zenon
<1>2. CASE LoadProgress \/ Tick \/ Cancel \/ TickerEnds \/ Delete \/ ProbeFails \/ Probe \/ ProbeViaGet \/ ToSingle
    BY <1>1, <1>2 DEF LoadProgress, Tick, Cancel, TickerEnds, Delete, ProbeFails, Probe, ProbeViaGet,
                      Probed, ToSingle
<1>3. CASE NotModified \/ Skip \/ TransferFails \/ RangeDropped \/ TransferDone \/ Return
    BY <1>1, <1>3 DEF NotModified, Skip, TransferFails, RangeDropped, TransferDone, Return
<1>4. CASE \E b \in Blocks : CompleteBlock(b) \/ BlockFails(b)
    BY <1>1, <1>4 DEF CompleteBlock, BlockFails
<1>5. CASE ReadBody \/ BodyFails \/ BodyEnds \/ SingleFails \/ ResumePartial
    BY <1>1, <1>5 DEF ReadBody, BodyFails, BodyEnds, SingleFails, ResumePartial
<1>6. CASE \E b \in Blocks : ReadUnit(b)
    <2>1. conf' = conf /\ UNCHANGED <<counted, emptied>> /\ scattered'
        BY <1>6, Zenon DEF ReadUnit
    <2> QED BY <1>0, <2>1, Zenon
<1>7. CASE OpenFile
    <2>1. conf' = conf /\ UNCHANGED <<counted, emptied>>
        BY <1>7 DEF OpenFile
    <2>2. scattered' = (scattered \/ conf.prealloc)
        BY <1>7, Zenon DEF OpenFile
    <2> QED BY <1>0, <2>1, <2>2, Zenon
<1>8. CASE Resume
    <2>1. conf' = conf /\ UNCHANGED <<emptied, scattered>>
        BY <1>8 DEF Resume
    <2>2. CASE UNCHANGED counted
        BY <1>1, <2>1, <2>2
    <2>3. CASE counted' = (counted \/ have' # {})
        BY <1>0, <2>1, <2>3, Zenon
    <2> QED BY <1>8, <2>2, <2>3 DEF Resume
<1>9. ASSUME conf' = conf, NEW n, Empties(n)
      PROVE  /\ counted => counted'
             /\ emptied => emptied'
             /\ scattered => scattered'
    <2>1. /\ UNCHANGED <<counted, scattered>>
          /\ emptied' = (emptied \/ have # {} \/ HasBits(cf') \/ HasBits(ctl))
        BY <1>9, Zenon DEF Empties
    <2> QED BY <2>1, Zenon
<1>10. CASE Fallback \/ SingleStart \/ ResumeWhole
    BY <1>0, <1>9, <1>10 DEF Fallback, SingleStart, ResumeWhole
<1>11. CASE ResumeRefused
    <2>1. conf' = conf /\ (Empties(Absent) \/ UNCHANGED <<counted, emptied, scattered>>)
        BY <1>11 DEF ResumeRefused
    <2> QED BY <1>0, <1>1, <1>9, <2>1
<1> QED BY <1>2, <1>3, <1>4, <1>5, <1>6, <1>7, <1>8, <1>10, <1>11 DEF HTTPStep, SessionStep

LEMMA SameConditions ==
    ASSUME UNCHANGED <<conf, hist>>
    PROVE  /\ ServesRange' = ServesRange /\ IgnoresRange' = IgnoresRange
           /\ Kept' <=> Kept
           /\ OneConnection' <=> OneConnection
           /\ Untouched' <=> Untouched
           /\ Whole' <=> Whole
<1>1. conf' = conf /\ counted' = counted /\ emptied' = emptied /\ scattered' = scattered
    BY DEF hist
<1>2. ServesRange' = ServesRange /\ IgnoresRange' = IgnoresRange
    BY <1>1 DEF ServesRange, IgnoresRange
<1>3. Kept' <=> Kept
    BY <1>1, Zenon DEF Kept
<1>4. (OneConnection' <=> OneConnection) /\ (Untouched' <=> Untouched)
    BY <1>1, <1>2, Zenon DEF OneConnection, Untouched
<1> QED BY <1>2, <1>3, <1>4, Zenon DEF Whole

LEMMA Conditions ==
    ASSUME HTTPStep
    PROVE  /\ ServesRange' = ServesRange /\ IgnoresRange' = IgnoresRange
           /\ Kept' => Kept
           /\ OneConnection' => OneConnection
           /\ Untouched' => Untouched
           /\ Whole' => Whole
<1>1. ServesRange' = ServesRange /\ IgnoresRange' = IgnoresRange
    BY Histories DEF ServesRange, IgnoresRange
<1>2. Kept' => Kept
    BY Histories, Zenon DEF Kept
<1>3. (OneConnection' => OneConnection) /\ (Untouched' => Untouched)
    BY <1>1, Histories, Zenon DEF OneConnection, Untouched
<1> QED BY <1>1, <1>2, <1>3, Zenon DEF Whole

\* A step goes the way of its server.
LEMMA WaysKept ==
    ASSUME Types, Ways, HTTPStep
    PROVE  Ways'
<1>0. conf' = conf /\ IgnoresRange' = IgnoresRange
    BY Histories, Conditions
<1>1. CASE LoadProgress \/ Tick \/ Cancel \/ TickerEnds \/ Delete \/ ProbeFails \/ TransferFails \/ SingleFails
    BY <1>0, <1>1 DEF LoadProgress, Tick, Cancel, TickerEnds, Delete, ProbeFails, TransferFails, SingleFails,
                      Fails, run, Goto, Ways
<1>2. CASE Probe \/ ProbeViaGet
    BY <1>0, <1>2 DEF Probe, ProbeViaGet, Probed, Ways, Announced, MayBeSilent, ServesRange, IgnoresRange
<1>3. CASE NotModified \/ Skip \/ TransferDone \/ BodyEnds \/ Return
    BY <1>0, <1>3 DEF NotModified, Skip, TransferDone, BodyEnds, Return, Succeeds, Goto, Ways
<1>4. CASE ToSingle \/ BodyFails \/ Resume \/ OpenFile
    BY <1>0, <1>4 DEF ToSingle, BodyFails, Resume, OpenFile, Fails, Goto, Ways
<1>5. CASE RangeDropped
    <2>1. conf.server # "ranges" /\ IgnoresRange /\ pc' = "fallback"
        BY <1>5 DEF RangeDropped, Goto, IgnoresRange
    <2> QED BY <1>0, <2>1 DEF Ways
<1>6. CASE \E b \in Blocks : ReadUnit(b) \/ CompleteBlock(b) \/ BlockFails(b)
    BY <1>0, <1>6 DEF ReadUnit, CompleteBlock, BlockFails, run, Ways
<1>7. CASE Fallback \/ SingleStart \/ ResumePartial \/ ReadBody
    BY <1>0, <1>7 DEF Fallback, SingleStart, ResumePartial, ReadBody, Goto, run, Ways
<1>8. CASE ResumeWhole \/ ResumeRefused
    BY <1>0, <1>8 DEF ResumeWhole, ResumeRefused, Fails, Goto, Ways
<1> QED BY <1>1, <1>2, <1>3, <1>4, <1>5, <1>6, <1>7, <1>8 DEF HTTPStep, SessionStep

-----------------------------------------------------------------------------
(* The bitmaps of an HTTP session.                                          *)

\* Where the blocks of the piece manager come from.
LEMMA HaveOrigins ==
    ASSUME Types, HTTPStep
    PROVE  \/ BitsFrom(have')
           \/ \E n \in Nat : n < FileSize /\ have' = CountedBlocks(n)
                             /\ counted' = (counted \/ have' # {})
           \/ \E b \in Blocks : CompleteBlock(b)
<1>1. CASE UNCHANGED have
    BY <1>1 DEF BitsFrom
<1>2. CASE LoadProgress \/ Tick \/ Cancel \/ TickerEnds \/ Delete \/ ProbeFails \/ Probe \/ ProbeViaGet \/ ToSingle
    BY <1>1, <1>2 DEF LoadProgress, Tick, Cancel, TickerEnds, Delete, ProbeFails, Probe, ProbeViaGet,
                      Probed, ToSingle, mem
<1>3. CASE NotModified \/ Skip \/ OpenFile \/ TransferFails \/ RangeDropped \/ Fallback \/ TransferDone
    BY <1>1, <1>3 DEF NotModified, Skip, OpenFile, TransferFails, RangeDropped, Fallback, TransferDone, mem
<1>4. CASE Return \/ SingleFails \/ SingleStart \/ ResumePartial \/ ResumeWhole \/ ResumeRefused
    BY <1>1, <1>4 DEF Return, SingleFails, SingleStart, ResumePartial, ResumeWhole, ResumeRefused, mem
<1>5. CASE ReadBody \/ BodyFails \/ BodyEnds
    BY <1>1, <1>5 DEF ReadBody, BodyFails, BodyEnds
<1>6. CASE \E b \in Blocks : ReadUnit(b) \/ BlockFails(b)
    BY <1>1, <1>6 DEF ReadUnit, BlockFails
<1> QED BY <1>2, <1>3, <1>4, <1>5, <1>6, ResumedBlocks DEF HTTPStep, SessionStep

\* What has been read of the blocks is forgotten when a transfer begins.
LEMMA PartMoves ==
    ASSUME HTTPStep, pc' \in {"open", "pieces"}
    PROVE  \/ part' = [b \in Blocks |-> 0] /\ UNCHANGED good
           \/ /\ pc \in {"open", "pieces"}
              /\ \/ UNCHANGED part
                 \/ \E b \in Blocks : ReadUnit(b) \/ BlockFails(b)
<1>1. CASE LoadProgress \/ Delete \/ ProbeFails \/ Probe \/ ProbeViaGet \/ ToSingle \/ NotModified \/ Skip
    BY <1>1 DEF LoadProgress, Delete, ProbeFails, Probe, ProbeViaGet, Probed, ToSingle, NotModified, Skip, Fails, Succeeds, Goto
<1>2. CASE Tick \/ Cancel \/ TickerEnds \/ OpenFile
    BY <1>2 DEF Tick, Cancel, TickerEnds, OpenFile, Goto, run, mem
<1>3. CASE TransferFails \/ RangeDropped \/ Fallback \/ TransferDone \/ Return \/ SingleFails
    BY <1>3 DEF TransferFails, RangeDropped, Fallback, TransferDone, Return, SingleFails, Fails, Succeeds, Goto
<1>4. CASE SingleStart \/ ResumePartial \/ ResumeWhole \/ ResumeRefused
    BY <1>4 DEF SingleStart, ResumePartial, ResumeWhole, ResumeRefused, Fails, Goto
<1>5. CASE ReadBody \/ BodyFails \/ BodyEnds
    BY <1>5 DEF ReadBody, BodyFails, BodyEnds, Fails, Goto, run
<1>6. CASE Resume
    BY <1>6 DEF Resume, disk
<1>7. CASE \E b \in Blocks : ReadUnit(b) \/ CompleteBlock(b) \/ BlockFails(b)
    <2>1. pc \in {"open", "pieces"}
        BY <1>7 DEF ReadUnit, CompleteBlock, BlockFails
    <2>2. ASSUME NEW b \in Blocks, CompleteBlock(b) PROVE UNCHANGED part
        BY <2>2 DEF CompleteBlock
    <2> QED BY <1>7, <2>1, <2>2
<1> QED BY <1>1, <1>2, <1>3, <1>4, <1>5, <1>6, <1>7 DEF HTTPStep, SessionStep

\* Data is thrown away only where a download with one connection starts anew,
\* and if there were bits, that is on record.
LEMMA GoodMoves ==
    ASSUME HTTPStep
    PROVE  \/ good \subseteq good'
           \/ /\ pc \in {"fallback", "single"} /\ pc' \notin {"open", "pieces"}
              /\ have' = have
              /\ emptied' \/ (have = {} /\ NoBlocks(cf)' /\ NoBlocks(ctl)')
<1>1. CASE UNCHANGED good
    BY <1>1
<1>2. CASE LoadProgress \/ Tick \/ Cancel \/ TickerEnds \/ Delete \/ ProbeFails \/ Probe \/ ProbeViaGet \/ ToSingle
    BY <1>1, <1>2 DEF LoadProgress, Tick, Cancel, TickerEnds, Delete, ProbeFails, Probe, ProbeViaGet,
                      Probed, ToSingle, disk
<1>3. CASE Resume \/ NotModified \/ Skip \/ OpenFile \/ TransferFails \/ RangeDropped \/ TransferDone \/ Return
    BY <1>1, <1>3 DEF Resume, NotModified, Skip, OpenFile, TransferFails, RangeDropped, TransferDone,
                      Return, disk
<1>4. CASE \E b \in Blocks : ReadUnit(b) \/ CompleteBlock(b) \/ BlockFails(b)
    <2>1. ASSUME NEW b \in Blocks, ReadUnit(b) PROVE good \subseteq good'
        BY <2>1 DEF ReadUnit
    <2>2. ASSUME NEW b \in Blocks, CompleteBlock(b) \/ BlockFails(b) PROVE UNCHANGED good
        BY <2>2 DEF CompleteBlock, BlockFails, disk
    <2> QED BY <1>1, <1>4, <2>1, <2>2
<1>5. CASE ReadBody \/ BodyFails \/ BodyEnds \/ SingleFails \/ ResumePartial
    BY <1>1, <1>5 DEF ReadBody, BodyFails, BodyEnds, SingleFails, ResumePartial, disk
<1>6. ASSUME NEW n, Empties(n), UNCHANGED ctl
      PROVE  emptied' \/ (have = {} /\ NoBlocks(cf)' /\ NoBlocks(ctl)')
    <2>1. emptied' = (emptied \/ have # {} \/ HasBits(cf') \/ HasBits(ctl))
        BY <1>6, Zenon DEF Empties
    <2>2. emptied' \/ (have = {} /\ ~HasBits(cf') /\ ~HasBits(ctl))
        BY <2>1, Zenon
    <2> QED BY <1>6, <2>2 DEF HasBits, NoBlocks
<1>7. CASE Fallback \/ SingleStart \/ ResumeWhole
    BY <1>6, <1>7 DEF Fallback, SingleStart, ResumeWhole, Goto
<1>8. CASE ResumeRefused
    <2>1. CASE Empties(Absent) /\ UNCHANGED pc
        BY <1>6, <1>8, <2>1 DEF ResumeRefused
    <2>2. CASE UNCHANGED good
        BY <2>2
    <2> QED BY <1>8, <2>1, <2>2 DEF ResumeRefused
<1> QED BY <1>2, <1>3, <1>4, <1>5, <1>7, <1>8 DEF HTTPStep, SessionStep

\* A download whose output has been renamed does nothing more.
LEMMA NotRenamed ==
    ASSUME RenamedApart, HTTPStep
    PROVE  \/ pc # "renamed" /\ pc' # "renamed"
           \/ UNCHANGED <<pc, ticking, ctl, flen, good, displaced>>
<1>1. CASE Tick \/ TickerEnds
    BY <1>1 DEF RenamedApart, Tick, TickerEnds, run
<1>0. CASE Cancel
    BY <1>0 DEF Cancel, disk, run, HTTPStep
<1>2. CASE LoadProgress \/ ProbeFails \/ Probe \/ ProbeViaGet \/ NotModified \/ Skip \/ ToSingle \/ Resume \/ OpenFile
    BY <1>2 DEF LoadProgress, ProbeFails, Probe, ProbeViaGet, Probed, NotModified, Skip, ToSingle, Resume, OpenFile,
                Fails, Succeeds, Goto
<1>3. CASE TransferFails \/ RangeDropped \/ Fallback \/ TransferDone \/ Delete \/ Return
    BY <1>3 DEF TransferFails, RangeDropped, Fallback, TransferDone, Delete, Return, Fails, Succeeds, Goto
<1>4. CASE SingleFails \/ SingleStart \/ ResumePartial \/ ResumeWhole \/ ResumeRefused
    BY <1>4 DEF SingleFails, SingleStart, ResumePartial, ResumeWhole, ResumeRefused, Fails, Goto
<1>5. CASE ReadBody \/ BodyFails \/ BodyEnds
    BY <1>5 DEF ReadBody, BodyFails, BodyEnds, Fails, Goto, run
<1>6. CASE \E b \in Blocks : ReadUnit(b) \/ CompleteBlock(b) \/ BlockFails(b)
    BY <1>6 DEF ReadUnit, CompleteBlock, BlockFails, run
<1> QED BY <1>0, <1>1, <1>2, <1>3, <1>4, <1>5, <1>6 DEF HTTPStep, SessionStep

\* Without writing over several connections no block is completed.
LEMMA OnlyTouchedComplete ==
    ASSUME Types, BitsOfServer, NEW b \in Blocks, CompleteBlock(b)
    PROVE  ~Untouched
<1>1. part[b] = BlockLen /\ pc = "pieces"
    BY DEF CompleteBlock
<1>2. part[b] # 0
    BY <1>1, Sizes
<1> QED BY <1>1, <1>2 DEF BitsOfServer

LEMMA BitsOfServerKept ==
    ASSUME Types, BitsOfServer, HTTPStep
    PROVE  BitsOfServer'
<1>0. ServesRange' = ServesRange /\ NumBlocks - 1 \in Int
    BY Conditions, Sizes
<1>1. ASSUME Untouched', ~counted'
      PROVE  have' = {} /\ NoBlocks(cf)' /\ NoBlocks(ctl)'
    <2>1. Untouched /\ ~counted
        BY <1>1, Histories, Conditions, Zenon
    <2>2. \A S : BitsFrom(S) => S = {}
        BY <2>1 DEF BitsOfServer, NoBlocks, BitsFrom
    <2>3. NoBlocks(cf)' /\ NoBlocks(ctl)'
        BY <2>2, RecordOrigins DEF NoBlocks
    <2>4. have' = {}
        <3>1. CASE BitsFrom(have')
            BY <2>2, <3>1
        <3>2. CASE counted' = (counted \/ have' # {})
            BY <1>1, <3>2, Zenon
        <3>3. ~(\E b \in Blocks : CompleteBlock(b))
            BY <2>1, OnlyTouchedComplete
        <3> QED BY <3>1, <3>2, <3>3, HaveOrigins
    <2> QED BY <2>3, <2>4
<1>2. ASSUME ~ServesRange
      PROVE  /\ (NumBlocks - 1) \notin have'
             /\ cf' # None => (NumBlocks - 1) \notin cf'.bits
             /\ ctl' # None => (NumBlocks - 1) \notin ctl'.bits
    <2>1. \A S : BitsFrom(S) => (NumBlocks - 1) \notin S
        BY <1>2 DEF BitsOfServer, BitsFrom
    <2>2. ~(\E b \in Blocks : CompleteBlock(b))
        BY <1>2, OnlyTouchedComplete DEF Untouched
    <2>3. (NumBlocks - 1) \notin have'
        BY <2>1, <2>2, HaveOrigins, LastNotCounted
    <2> QED BY <2>1, <2>3, RecordOrigins
<1>3. ASSUME Untouched', pc' \in {"open", "pieces"}, NEW b \in Blocks
      PROVE  part'[b] = 0
    <2>1. Untouched
        BY <1>3, Conditions
    <2>2. ASSUME NEW c \in Blocks, ReadUnit(c) PROVE FALSE
        <3>1. ServesRange /\ scattered'
            BY <2>2, Zenon DEF ReadUnit
        <3> QED BY <1>0, <1>3, <3>1, Zenon DEF Untouched
    <2>3. ASSUME NEW c \in Blocks, BlockFails(c), part[b] = 0 PROVE part'[b] = 0
        BY <2>3 DEF BlockFails, Types
    <2> QED BY <1>3, <2>1, <2>2, <2>3, PartMoves DEF BitsOfServer
<1> QED BY <1>0, <1>1, <1>2, <1>3 DEF BitsOfServer

\* Where data is thrown away, no bits are left, or that is on record.
LEMMA EmptiesNoBits ==
    ASSUME Types, Ways, BitsOfServer, HTTPStep, ~counted', Kept', ~(good \subseteq good')
    PROVE  /\ pc' \notin {"open", "pieces"}
           /\ have' = {} /\ NoBlocks(cf)' /\ NoBlocks(ctl)'
<1>1. /\ pc \in {"fallback", "single"} /\ pc' \notin {"open", "pieces"} /\ have' = have
      /\ emptied' \/ (have = {} /\ NoBlocks(cf)' /\ NoBlocks(ctl)')
    BY GoodMoves
<1>2. conf.server # "ranges" /\ conf.server \in Servers /\ conf' = conf
    <2>1. conf \in Config
        BY SessionAssumption DEF Types
    <2> QED BY <1>1, <2>1, Histories DEF Ways, Config
<1>3. CASE conf.server \in {"silent", "mixed"}
    <2>1. ~emptied'
        BY <1>2, <1>3, Zenon DEF Kept
    <2> QED BY <1>1, <2>1, Zenon
<1>4. CASE ~ServesRange
    <2>1. Untouched /\ ~counted
        BY <1>4, Histories, Zenon DEF Untouched
    <2>2. \A S : BitsFrom(S) => S = {}
        BY <2>1 DEF BitsOfServer, NoBlocks, BitsFrom
    <2>3. have = {}
        BY <2>1 DEF BitsOfServer
    <2>4. NoBlocks(cf)' /\ NoBlocks(ctl)'
        BY <2>2, RecordOrigins DEF NoBlocks
    <2> QED BY <1>1, <2>3, <2>4
<1> QED BY <1>2, <1>3, <1>4 DEF ServesRange, Servers

\* A block is marked when its last unit has been read.
LEMMA RangesWrittenKept ==
    ASSUME Types, Ways, BitsOfServer, RangesWritten, RenamedApart, HTTPStep
    PROVE  RangesWritten'
<1>1. SUFFICES ASSUME ~counted', Kept', ~displaced, pc' # "renamed", good \subseteq good'
               PROVE  /\ \A b \in have' : IsWritten(b)'
                      /\ WrittenBits(cf)' /\ WrittenBits(ctl)'
                      /\ pc' \in {"open", "pieces"} => \A b \in Blocks : PartOf(b)' \subseteq good'
    <2>1. displaced' = displaced
        BY Histories
    <2>2. ASSUME ~counted', Kept', ~(good \subseteq good')
          PROVE  /\ pc' \notin {"open", "pieces"}
                 /\ have' = {} /\ WrittenBits(cf)' /\ WrittenBits(ctl)'
        BY <2>2, EmptiesNoBits DEF NoBlocks, WrittenBits
    <2> QED BY <2>1, <2>2 DEF RangesWritten
<1>2. ~counted /\ Kept /\ pc # "renamed"
    BY <1>1, Histories, Conditions, NotRenamed
<1>3. good \subseteq good'
    BY <1>1
<1>4. \A b : IsWritten(b) => IsWritten(b)'
    BY <1>3 DEF IsWritten
<1>5. \A S : BitsFrom(S) => \A b \in S : IsWritten(b)
    BY <1>1, <1>2 DEF RangesWritten, WrittenBits, BitsFrom
<1>6. WrittenBits(cf)' /\ WrittenBits(ctl)'
    BY <1>4, <1>5, RecordOrigins DEF WrittenBits
<1>7. \A b \in have' : IsWritten(b)'
    <2>1. CASE BitsFrom(have')
        BY <1>4, <1>5, <2>1
    <2>2. CASE counted' = (counted \/ have' # {})
        <3>1. have' = {}
            BY <1>1, <2>2, Zenon
        <3> QED BY <3>1
    <2>3. ASSUME NEW c \in Blocks, CompleteBlock(c) PROVE \A b \in have' : IsWritten(b)'
        <3>1. pc = "pieces" /\ have' = have \cup {c} /\ part[c] = BlockLen
            BY <2>3 DEF CompleteBlock
        <3>2. UnitsOf(c) = PartOf(c)
            BY <3>1, BlockInFile DEF PartOf
        <3>3. IsWritten(c)
            BY <1>1, <1>2, <3>1, <3>2 DEF RangesWritten, IsWritten
        <3>4. \A b \in have : IsWritten(b)
            BY <1>5 DEF BitsFrom
        <3> QED BY <1>4, <3>1, <3>3, <3>4
    <2> QED BY <1>1, <1>2, <2>1, <2>2, <2>3, HaveOrigins
<1>8. ASSUME pc' \in {"open", "pieces"}, NEW b \in Blocks PROVE PartOf(b)' \subseteq good'
    <2>0. b * BlockLen \in Nat
        BY BlockInFile
    <2> DEFINE s == b * BlockLen
    <2>1. PartOf(b) = s..(s + part[b] - 1) /\ PartOf(b)' = s..(s + part'[b] - 1)
        BY DEF PartOf
    <2>2. s \in Nat
        BY <2>0
    <2> HIDE DEF s
    <2>3. CASE part'[b] = 0
        BY <2>1, <2>2, <2>3
    <2>4. CASE pc \in {"open", "pieces"} /\ part'[b] = part[b]
        <3>1. PartOf(b) \subseteq good
            BY <1>1, <1>2, <2>4 DEF RangesWritten
        <3> QED BY <1>3, <2>1, <2>4, <3>1
    <2>5. ASSUME NEW c \in Blocks, ReadUnit(c), pc \in {"open", "pieces"}
          PROVE  part'[b] = part[b] \/ PartOf(b)' \subseteq good'
        <3>1. CASE c # b
            BY <2>5, <3>1 DEF ReadUnit, Types
        <3>2. CASE c = b
            <4>1. part'[b] = part[b] + 1 /\ part[b] \in Nat
                BY <2>5, <3>2, Sizes DEF ReadUnit, Types
            <4>2. good' = good \cup {s + part[b]}
                BY <2>5, <3>2 DEF ReadUnit, s
            <4>3. PartOf(b) \subseteq good
                BY <1>1, <1>2, <2>5 DEF RangesWritten
            <4>4. s..(s + part'[b] - 1) \subseteq s..(s + part[b] - 1) \cup {s + part[b]}
                BY <2>2, <4>1
            <4> QED BY <2>1, <4>2, <4>3, <4>4
        <3> QED BY <3>1, <3>2
    <2>6. ASSUME NEW c \in Blocks, BlockFails(c)
          PROVE  part'[b] = part[b] \/ part'[b] = 0
        BY <2>6 DEF BlockFails, Types
    <2> QED BY <1>8, <2>3, <2>4, <2>5, <2>6, PartMoves
<1> QED BY <1>6, <1>7, <1>8

-----------------------------------------------------------------------------
(* The counts of an HTTP session.                                           *)

\* What a step does with the file and with the one connection to it.
LEMMA FileMoves ==
    ASSUME HTTPStep
    PROVE  \/ /\ UNCHANGED <<flen, good>>
              /\ pc' \in {"body", "whole"} => pc \in {"body", "whole"} /\ UNCHANGED <<pos, total>>
           \/ /\ pc \in {"fallback", "single"} /\ flen' \in {0, Absent} /\ good' = {}
              /\ pc' \in {"body", "whole"} => pos' = 0 /\ flen' = 0
           \/ OpenFile \/ ResumePartial \/ ReadBody
           \/ \E b \in Blocks : ReadUnit(b)
<1>1. CASE Tick \/ Cancel \/ TickerEnds
    BY <1>1 DEF Tick, Cancel, TickerEnds, disk, mem, run
<1>2. CASE LoadProgress \/ ProbeFails \/ Probe \/ ProbeViaGet \/ NotModified \/ Skip \/ ToSingle \/ Resume
    BY <1>2 DEF LoadProgress, ProbeFails, Probe, ProbeViaGet, Probed, NotModified, Skip, ToSingle, Resume, Fails, Succeeds,
                Goto, disk
<1>3. CASE TransferFails \/ RangeDropped \/ TransferDone \/ Delete \/ Return
    BY <1>3 DEF TransferFails, RangeDropped, TransferDone, Delete, Return, Fails, Succeeds, Goto, disk
<1>4. CASE SingleFails \/ BodyFails \/ BodyEnds
    BY <1>4 DEF SingleFails, BodyFails, BodyEnds, Fails, Goto, disk
<1>5. CASE Fallback \/ SingleStart \/ ResumeWhole
    BY <1>5 DEF Fallback, SingleStart, ResumeWhole, Empties, Goto
<1>6. CASE ResumeRefused
    BY <1>6 DEF ResumeRefused, Empties, Fails
<1>7. CASE \E b \in Blocks : CompleteBlock(b) \/ BlockFails(b)
    BY <1>7 DEF CompleteBlock, BlockFails, disk, run
<1> QED BY <1>1, <1>2, <1>3, <1>4, <1>5, <1>6, <1>7 DEF HTTPStep, SessionStep

\* Where a server with ranges resumes lies in the file.
LEMMA ResumesInFile ==
    ASSUME Types, Ways, CountsSound, OneConnection, ~displaced, ResumePartial
    PROVE  /\ conf.server = "silent"
           /\ ResumeAt \in Nat /\ ResumeAt <= flen /\ ResumeAt < FileSize
<1>1. pc = "single" /\ ServesRange /\ ResumeAt > 0
    BY DEF ResumePartial, Goto
<1>2. conf.server = "silent"
    BY <1>1 DEF Ways, ServesRange, OneConnection
<1>3. Counted(cf) /\ flen \in Int
    BY <1>1, <1>2 DEF CountsSound, Types
<1>4. Completed \in Nat /\ Completed <= Max(flen, 0)
    BY <1>3, MaxOf DEF Completed, Counted, Types, Record
<1>5. ResumeAt \in Nat /\ ResumeAt <= Max(flen, 0) /\ ResumeAt < FileSize
    BY <1>3, <1>4, MaxOf, Sizes DEF ResumeAt
<1> QED BY <1>1, <1>2, <1>3, <1>5 DEF Max

LEMMA ContiguousKept ==
    ASSUME Types, Ways, Contiguous, CountsSound, HTTPStep
    PROVE  Contiguous'
<1>0. flen \in Int /\ flen >= -1 /\ displaced' = displaced /\ pos \in Nat
    BY Histories DEF Types, Absent
<1>1. SUFFICES ASSUME OneConnection', OneConnection, ~displaced
               PROVE  good' = 0..(flen' - 1) /\ (pc' \in {"body", "whole"} => pos' <= flen')
    BY <1>0, Conditions DEF Contiguous
<1>2. good = 0..(flen - 1) /\ (pc \in {"body", "whole"} => pos <= flen)
    BY <1>1 DEF Contiguous
<1>3. CASE /\ UNCHANGED <<flen, good>>
           /\ pc' \in {"body", "whole"} => pc \in {"body", "whole"} /\ UNCHANGED <<pos, total>>
    BY <1>2, <1>3
<1>4. CASE /\ flen' \in {0, Absent} /\ good' = {}
           /\ pc \in {"fallback", "single"}
           /\ pc' \in {"body", "whole"} => pos' = 0 /\ flen' = 0
    <2>1. flen' \in Int /\ flen' <= 0
        BY <1>4 DEF Absent
    <2>2. \A n \in Int : n <= 0 => {} = 0..(n - 1)
        OBVIOUS
    <2>3. good' = 0..(flen' - 1)
        BY <1>4, <2>1, <2>2
    <2>4. pc' \in {"body", "whole"} => pos' <= flen'
        BY <1>4
    <2> QED BY <2>3, <2>4
<1>5. CASE OpenFile
    <2>1. ~conf.prealloc
        <3>1. scattered' = (scattered \/ conf.prealloc)
            BY <1>5, Zenon DEF OpenFile
        <3> QED BY <1>1, <3>1, Zenon DEF OneConnection
    <2>2. flen' = Max(flen, 0) /\ good' = good /\ pc' = "pieces"
        BY <1>5, <2>1 DEF OpenFile, Goto
    <2>3. 0..(Max(flen, 0) - 1) = 0..(flen - 1)
        BY <1>0 DEF Max
    <2> QED BY <1>2, <2>2, <2>3
<1>6. CASE ResumePartial
    <2>1. ResumeAt \in Nat /\ ResumeAt <= flen
        BY <1>1, <1>6, ResumesInFile
    <2>2. flen' = Max(flen, 0) /\ good' = good /\ pos' = ResumeAt
        BY <1>6 DEF ResumePartial
    <2>3. flen' = flen
        BY <1>0, <2>1, <2>2 DEF Max
    <2> QED BY <1>2, <2>1, <2>2, <2>3
<1>7. CASE ReadBody
    <2>1. /\ pos <= flen /\ good' = good \cup {pos} /\ flen' = Max(flen, pos + 1)
          /\ pos' = pos + 1
        BY <1>2, <1>7 DEF ReadBody
    <2>2. 0..(flen - 1) \cup {pos} = 0..(Max(flen, pos + 1) - 1)
        BY <1>0, <2>1 DEF Max
    <2>3. pos + 1 <= Max(flen, pos + 1)
        BY <1>0, MaxOf
    <2> QED BY <1>2, <2>1, <2>2, <2>3
<1>8. ASSUME NEW b \in Blocks, ReadUnit(b) PROVE FALSE
    <2>1. scattered'
        BY <1>8, Zenon DEF ReadUnit
    <2> QED BY <1>1, <2>1, Zenon DEF OneConnection
<1> QED BY <1>3, <1>4, <1>5, <1>6, <1>7, <1>8, FileMoves

\* The steps with a server that serves ranges without announcing them, as long
\* as nothing is written over several connections.
LEMMA SilentSteps ==
    ASSUME conf.server = "silent", Ways, HTTPStep, OneConnection'
    PROVE  \/ Tick \/ Cancel \/ TickerEnds \/ LoadProgress \/ ProbeFails \/ Probe \/ ProbeViaGet
           \/ NotModified \/ Skip \/ Resume \/ OpenFile \/ TransferFails \/ TransferDone
           \/ ToSingle \/ Delete \/ Return \/ SingleFails \/ SingleStart \/ ResumePartial
           \/ ReadBody \/ BodyFails \/ BodyEnds
           \/ \E b \in Blocks : CompleteBlock(b) \/ BlockFails(b)
<1>1. ~IgnoresRange /\ pc # "fallback"
    BY DEF IgnoresRange, Ways
<1>2. ~(RangeDropped \/ Fallback \/ ResumeWhole \/ ResumeRefused)
    BY <1>1 DEF RangeDropped, Fallback, ResumeWhole, ResumeRefused, Goto
<1>3. ASSUME NEW b \in Blocks, ReadUnit(b) PROVE FALSE
    <2>1. scattered'
        BY <1>3, Zenon DEF ReadUnit
    <2> QED BY <2>1, Zenon DEF OneConnection
<1> QED BY <1>2, <1>3 DEF HTTPStep, SessionStep

\* No piece is taken for complete: the total stays.
LEMMA SilentResume ==
    ASSUME Types, BitsOfServer, conf.server = "silent", OneConnection, OneConnection', Resume
    PROVE  UNCHANGED total
<1>1. ServesRange /\ ServesRange'
    BY DEF ServesRange, Resume
<1>2. ~counted /\ ~counted' /\ Untouched
    BY <1>1, Zenon DEF OneConnection, Untouched
<1>3. NoBlocks(cf)
    BY <1>2 DEF BitsOfServer
<1> DEFINE n == IF Completed >= FileSize THEN 0 ELSE Completed
<1>4. n > 0 => cf # None
    BY Sizes DEF Completed
<1>5. CASE n > 0 /\ cf.bits # {}
    BY <1>3, <1>4, <1>5 DEF NoBlocks
<1>6. CASE counted' = (counted \/ have' # {}) /\ total' = total + Cardinality(have') * BlockLen
    <2>1. have' = {}
        BY <1>2, <1>6, Zenon
    <2>2. Cardinality(have') * BlockLen = 0
        BY <2>1, FS_EmptySet, Sizes
    <2> QED BY <1>6, <2>2 DEF Types
<1> QED BY <1>5, <1>6 DEF Resume

\* Under such a server a download begins anew only with an empty file.
LEMMA StartsEmpty ==
    ASSUME Types, CountsSound, conf.server = "silent", OneConnection, ~displaced, SingleStart
    PROVE  flen <= 0
<1>1. pc = "single" /\ ResumeAt = 0
    BY DEF SingleStart, Goto
<1>2. /\ flen \in Int /\ flen <= FileSize /\ Counted(cf) /\ ~FullyDownloaded
    BY <1>1 DEF CountsSound, Types
<1>3. Completed \in Nat /\ Completed <= Max(flen, 0)
    BY <1>2, MaxOf DEF Completed, Counted, Types, Record
<1> SUFFICES ASSUME flen > 0 PROVE FALSE
    BY <1>2
<1>4. Completed <= flen
    BY <1>2, <1>3 DEF Max
<1>5. Completed = 0 \/ Completed >= FileSize
    BY <1>1, <1>3, Sizes DEF ResumeAt
<1>6. CASE Completed = 0
    BY <1>1, <1>2, <1>6, Sizes DEF ResumeAt, FullyDownloaded
<1>7. CASE Completed >= FileSize
    BY <1>2, <1>3, <1>4, <1>7, Sizes DEF FullyDownloaded
<1> QED BY <1>5, <1>6, <1>7

LEMMA CountsSoundKept ==
    ASSUME Types, Ways, BitsOfServer, CountsSound, RenamedApart, HTTPStep
    PROVE  CountsSound'
<1>1. SUFFICES ASSUME conf.server = "silent", OneConnection, OneConnection', ~displaced, pc' # "renamed"
               PROVE  /\ total' <= Max(flen', 0) /\ Counted(cf)' /\ Counted(ctl)'
                      /\ flen' <= FileSize
                      /\ pc' = "body" => total' <= pos'
                      /\ pc' \in {"probe", "decideSingle", "single"} => ~ticking'
                      /\ pc' = "single" => ~FullyDownloaded'
    BY Histories, Conditions DEF CountsSound
<1>2. /\ total <= Max(flen, 0) /\ Counted(cf) /\ Counted(ctl)
      /\ flen <= FileSize
      /\ pc = "body" => total <= pos
      /\ pc \in {"probe", "decideSingle", "single"} => ~ticking
      /\ pc = "single" => ~FullyDownloaded
    BY <1>1, NotRenamed DEF CountsSound
<1>3. flen \in Int /\ flen >= Absent /\ total \in Nat /\ pos \in Nat /\ FileSize \in Nat \ {0}
    BY Sizes DEF Types
<1>4. Types'
    BY TypesKept
<1>5. flen' \in Int /\ total' \in Nat /\ pos' \in Nat
    BY <1>4 DEF Types
<1>6. ASSUME NEW n, CountFrom(n) PROVE n <= Max(flen, 0)
    BY <1>2, <1>3, <1>6 DEF CountFrom, Counted, Max
<1>7. \/ UNCHANGED flen
      \/ SingleStart /\ flen' = 0 /\ flen <= 0
      \/ flen' = Max(flen, 0)
      \/ ReadBody /\ flen' = Max(flen, pos + 1) /\ pos < FileSize
    <2>1. SingleStart => flen' = 0 /\ flen <= 0
        BY <1>1, StartsEmpty DEF SingleStart, Empties
    <2>2. ResumePartial => flen' = Max(flen, 0)
        BY DEF ResumePartial
    <2>3. ReadBody => flen' = Max(flen, pos + 1) /\ pos < FileSize
        BY DEF ReadBody
    <2>4. Tick \/ Cancel \/ TickerEnds \/ LoadProgress \/ ProbeFails \/ Probe \/ ProbeViaGet \/ NotModified => UNCHANGED flen
        BY DEF Tick, Cancel, TickerEnds, LoadProgress, ProbeFails, Probe, ProbeViaGet, Probed, NotModified, disk
    <2>5. Skip \/ ToSingle \/ Delete \/ Return \/ SingleFails \/ BodyFails \/ BodyEnds => UNCHANGED flen
        BY DEF Skip, ToSingle, Delete, Return, SingleFails, BodyFails, BodyEnds, disk
    <2>6. Resume \/ TransferFails \/ TransferDone => UNCHANGED flen
        BY DEF Resume, TransferFails, TransferDone, disk
    <2>7. (\E b \in Blocks : CompleteBlock(b) \/ BlockFails(b)) => UNCHANGED flen
        BY DEF CompleteBlock, BlockFails, disk
    <2>8. OpenFile => flen' = Max(flen, 0)
        <3>1. OpenFile => scattered' = (scattered \/ conf.prealloc)
            BY Zenon DEF OpenFile
        <3>2. OpenFile => ~conf.prealloc
            BY <1>1, <3>1, Zenon DEF OneConnection
        <3> QED BY <3>2 DEF OpenFile
    <2> QED BY <1>1, <2>1, <2>2, <2>3, <2>4, <2>5, <2>6, <2>7, <2>8, SilentSteps
<1>8. flen' <= FileSize /\ Max(flen, 0) <= Max(flen', 0)
    BY <1>2, <1>3, <1>5, <1>7 DEF Max
<1>9. Counted(cf)' /\ Counted(ctl)'
    <2>1. ASSUME NEW n, CountFrom(n) PROVE n <= Max(flen', 0)
        <3>1. n <= Max(flen, 0) /\ n \in Nat
            BY <1>6, <2>1, CountsAreNumbers
        <3>2. Max(flen, 0) \in Int /\ Max(flen', 0) \in Int
            BY <1>3, <1>5, MaxOf
        <3> QED BY <1>8, <3>1, <3>2
    <2> QED BY <2>1, RecordOrigins DEF Counted
<1>10. \/ UNCHANGED total
       \/ total' = flen /\ flen > 0 /\ pc' # "body" /\ UNCHANGED flen
       \/ ResumePartial /\ total' = ResumeAt /\ pos' = ResumeAt
       \/ ReadBody /\ total' = total + 1 /\ pos' = pos + 1
    <2>1. NotModified => UNCHANGED total \/ (total' = flen /\ flen > 0 /\ pc' # "body" /\ UNCHANGED flen)
        BY DEF NotModified, Succeeds
    <2>2. Skip => total' = flen /\ flen > 0 /\ pc' # "body" /\ UNCHANGED flen
        BY <1>3 DEF Skip, Succeeds, FullyDownloaded
    <2>3. ResumePartial => total' = ResumeAt /\ pos' = ResumeAt
        BY DEF ResumePartial
    <2>4. ReadBody => total' = total + 1 /\ pos' = pos + 1
        BY DEF ReadBody
    <2>5. Tick \/ Cancel \/ TickerEnds \/ LoadProgress \/ ProbeFails \/ Probe \/ ProbeViaGet \/ ToSingle => UNCHANGED total
        BY DEF Tick, Cancel, TickerEnds, LoadProgress, ProbeFails, Probe, ProbeViaGet, Probed, ToSingle, mem
    <2>6. Delete \/ Return \/ SingleFails \/ SingleStart \/ BodyFails \/ BodyEnds => UNCHANGED total
        BY DEF Delete, Return, SingleFails, SingleStart, BodyFails, BodyEnds, mem
    <2>7. OpenFile \/ TransferFails \/ TransferDone => UNCHANGED total
        BY DEF OpenFile, TransferFails, TransferDone, mem
    <2>8. (\E b \in Blocks : CompleteBlock(b) \/ BlockFails(b)) => UNCHANGED total
        BY DEF CompleteBlock, BlockFails
    <2>9. Resume => UNCHANGED total
        BY <1>1, SilentResume
    <2> QED BY <1>1, <2>1, <2>2, <2>3, <2>4, <2>5, <2>6, <2>7, <2>8, <2>9, SilentSteps
<1>11. ResumePartial => ResumeAt \in Nat /\ ResumeAt <= flen
    BY <1>1, ResumesInFile
<1>12. ReadBody => pc = "body"
    <2>1. pc # "whole"
        BY <1>1 DEF Ways, IgnoresRange
    <2> QED BY <2>1 DEF ReadBody
<1>13. total' <= Max(flen', 0)
    <2>1. CASE UNCHANGED total
        <3>1. Max(flen, 0) \in Int /\ Max(flen', 0) \in Int
            BY <1>3, <1>5, MaxOf
        <3> QED BY <1>2, <1>3, <1>8, <2>1, <3>1
    <2>2. CASE total' = flen /\ flen > 0 /\ UNCHANGED flen
        BY <1>3, <2>2 DEF Max
    <2>3. CASE ResumePartial /\ total' = ResumeAt
        <3>1. flen' = Max(flen, 0)
            BY <2>3 DEF ResumePartial
        <3> QED BY <1>3, <1>11, <2>3, <3>1 DEF Max
    <2>4. CASE ReadBody /\ total' = total + 1
        <3>1. flen' = Max(flen, pos + 1) /\ total <= pos
            BY <1>2, <1>12, <2>4 DEF ReadBody
        <3> QED BY <1>3, <2>4, <3>1 DEF Max
    <2> QED BY <1>10, <2>1, <2>2, <2>3, <2>4
<1>14. pc' = "body" => total' <= pos'
    <2>1. CASE ResumePartial \/ ReadBody
        <3>1. ResumePartial => total' <= pos'
            BY <1>11 DEF ResumePartial
        <3>2. ReadBody => total' <= pos'
            BY <1>2, <1>3, <1>12 DEF ReadBody
        <3> QED BY <2>1, <3>1, <3>2
    <2>2. CASE SingleStart
        <3>1. total' = total /\ pos' = 0 /\ flen <= 0
            BY <1>1, <2>2, StartsEmpty DEF SingleStart
        <3> QED BY <1>2, <1>3, <3>1 DEF Max
    <2>3. CASE Tick \/ Cancel \/ TickerEnds
        BY <1>2, <2>3 DEF Tick, Cancel, TickerEnds, mem, run
    <2>4. CASE LoadProgress \/ ProbeFails \/ Probe \/ ProbeViaGet \/ NotModified \/ Skip \/ ToSingle \/ Delete \/ Return
        BY <2>4 DEF LoadProgress, ProbeFails, Probe, ProbeViaGet, Probed, NotModified, Skip, ToSingle, Delete, Return, Fails,
                    Succeeds, Goto
    <2>5. CASE SingleFails \/ BodyFails \/ BodyEnds
        BY <2>5 DEF SingleFails, BodyFails, BodyEnds, Fails, Goto
    <2>6. CASE Resume \/ OpenFile \/ TransferFails \/ TransferDone \/ \E b \in Blocks : CompleteBlock(b) \/ BlockFails(b)
        BY <2>6 DEF Resume, OpenFile, TransferFails, TransferDone, CompleteBlock, BlockFails, Fails, Goto, run
    <2> QED BY <1>1, <2>1, <2>2, <2>3, <2>4, <2>5, <2>6, SilentSteps
<1>15. /\ pc' \in {"probe", "decideSingle", "single"} => ~ticking'
       /\ pc' = "single" => ~FullyDownloaded'
    <2>0. CASE Cancel
        BY <1>2, <2>0 DEF Cancel, disk, mem, run, FullyDownloaded, Completed
    <2>1. CASE Tick
        BY <1>2, <2>1 DEF Tick, run
    <2>2. CASE TickerEnds
        BY <2>2 DEF TickerEnds
    <2>3. CASE LoadProgress \/ Probe \/ ProbeViaGet \/ ProbeFails
        BY <1>2, <2>3 DEF LoadProgress, Probe, ProbeViaGet, Probed, ProbeFails, Fails, Goto
    <2>4. CASE NotModified
        <3>1. pc = "probe" /\ (pc' = "returned" \/ UNCHANGED <<pc, ticking>>)
            BY <2>4 DEF NotModified, Succeeds
        <3>2. CASE pc' = "returned"
            BY <3>2
        <3>3. CASE UNCHANGED <<pc, ticking>>
            BY <1>2, <3>1, <3>3
        <3> QED BY <3>1, <3>2, <3>3
    <2>5. CASE Skip \/ Delete \/ Return
        BY <2>5 DEF Skip, Delete, Return, Succeeds, Goto
    <2>6. CASE ToSingle
        BY <1>2, <2>6 DEF ToSingle, Goto, disk, mem, FullyDownloaded, Completed
    <2>7. CASE SingleFails \/ SingleStart \/ ResumePartial \/ BodyFails \/ BodyEnds
        BY <2>7 DEF SingleFails, SingleStart, ResumePartial, BodyFails, BodyEnds, Fails, Goto
    <2>8. CASE ReadBody
        BY <1>12, <2>8 DEF ReadBody, run
    <2>9. CASE Resume \/ OpenFile \/ TransferFails \/ TransferDone \/ \E b \in Blocks : CompleteBlock(b) \/ BlockFails(b)
        BY <2>9 DEF Resume, OpenFile, TransferFails, TransferDone, CompleteBlock, BlockFails, Fails, Goto, run
    <2> QED BY <1>1, <2>0, <2>1, <2>2, <2>3, <2>4, <2>5, <2>6, <2>7, <2>8, <2>9, SilentSteps
<1> QED BY <1>8, <1>9, <1>13, <1>14, <1>15

LEMMA BodyReadKept ==
    ASSUME Types, Ways, Contiguous, CountsSound, BodyRead, HTTPStep
    PROVE  BodyRead'
<1>0. pos \in Nat /\ FileSize \in Nat /\ displaced' = displaced
    BY Sizes, Histories DEF Types
<1>1. SUFFICES ASSUME Whole, ~displaced, pc' \in {"body", "whole"}
               PROVE  pos' <= FileSize /\ 0..(pos' - 1) \subseteq good'
    BY <1>0, Conditions DEF BodyRead
<1>2. CASE UNCHANGED good /\ pc \in {"body", "whole"} /\ UNCHANGED pos
    BY <1>1, <1>2 DEF BodyRead
<1>3. CASE pos' = 0
    BY <1>0, <1>3
<1>4. CASE ResumePartial
    <2>0. OneConnection
        BY <1>1, <1>4 DEF Whole, ResumePartial
    <2>1. ResumeAt \in Nat /\ ResumeAt <= flen /\ ResumeAt < FileSize
        BY <1>1, <1>4, <2>0, ResumesInFile
    <2>2. good = 0..(flen - 1) /\ flen \in Int
        BY <1>1, <2>0 DEF Contiguous, Types
    <2>3. pos' = ResumeAt /\ good' = good
        BY <1>4 DEF ResumePartial
    <2>4. 0..(ResumeAt - 1) \subseteq 0..(flen - 1)
        BY <2>1, <2>2
    <2> QED BY <1>0, <2>1, <2>2, <2>3, <2>4
<1>5. CASE ReadBody
    <2>1. /\ pc \in {"body", "whole"} /\ pos < FileSize /\ pos' = pos + 1
          /\ good' = good \cup {pos}
        BY <1>5 DEF ReadBody
    <2>2. 0..(pos - 1) \subseteq good
        BY <1>1, <2>1 DEF BodyRead
    <2>3. 0..(pos' - 1) \subseteq 0..(pos - 1) \cup {pos}
        BY <1>0, <2>1
    <2> QED BY <1>0, <2>1, <2>2, <2>3
<1>6. ~OpenFile /\ ~(\E b \in Blocks : ReadUnit(b))
    BY <1>1 DEF OpenFile, ReadUnit, Goto, run
<1> QED BY <1>1, <1>2, <1>3, <1>4, <1>5, <1>6, FileMoves

\* How a download ends.
LEMMA EndMoves ==
    ASSUME Types, HTTPStep
    PROVE  \/ ended' = "no" \/ ended' = "failed"
           \/ UNCHANGED <<ended, cut, good>>
           \/ ended' = "skip" /\ UNCHANGED good /\ (conf.conditional \/ flen = FileSize)
           \/ TransferDone \/ BodyEnds
<1>1. CASE Tick \/ Cancel \/ TickerEnds \/ Delete \/ Return
    BY <1>1 DEF Tick, Cancel, TickerEnds, Delete, Return, Succeeds, disk, mem, run, rest
<1>2. ended = "no" \/ pc \in {"delete", "closing", "returned", "checked", "renamed"}
    BY DEF Types
<1>3. CASE LoadProgress \/ Probe \/ ProbeViaGet \/ ToSingle \/ Resume \/ OpenFile \/ RangeDropped \/ Fallback
    BY <1>2, <1>3 DEF LoadProgress, Probe, ProbeViaGet, Probed, ToSingle, Resume, OpenFile, RangeDropped,
                      Fallback, Goto
<1>4. CASE SingleStart \/ ResumePartial \/ ResumeWhole
    BY <1>2, <1>4 DEF SingleStart, ResumePartial, ResumeWhole, Goto
<1>5. CASE ReadBody \/ \E b \in Blocks : ReadUnit(b) \/ CompleteBlock(b) \/ BlockFails(b)
    BY <1>2, <1>5 DEF ReadBody, ReadUnit, CompleteBlock, BlockFails, run
<1>6. CASE ProbeFails \/ TransferFails \/ SingleFails \/ BodyFails
    BY <1>2, <1>6 DEF ProbeFails, TransferFails, SingleFails, BodyFails, Fails
<1>7. CASE ResumeRefused
    BY <1>2, <1>7 DEF ResumeRefused, Fails
<1>8. CASE NotModified
    <2>1. conf.conditional /\ UNCHANGED good /\ pc = "probe"
        BY <1>8 DEF NotModified
    <2>2. ended' = ended \/ ended' = "skip"
        BY <1>8 DEF NotModified, Succeeds
    <2> QED BY <1>2, <2>1, <2>2
<1>9. CASE Skip
    BY <1>9 DEF Skip, Succeeds, FullyDownloaded
<1> QED BY <1>1, <1>3, <1>4, <1>5, <1>6, <1>7, <1>8, <1>9 DEF HTTPStep, SessionStep

\* A transfer that was not cut short is over when all blocks have been read, or
\* the one body; a file is skipped when it has no gaps up to its full size.
LEMMA EndWrittenKept ==
    ASSUME Types, RangesWritten, Contiguous, BodyRead, EndWritten, HTTPStep
    PROVE  EndWritten'
<1>0. /\ conf' = conf /\ displaced' = displaced /\ good \subseteq Units
      /\ FileSize \in Nat \ {0} /\ pos \in Nat
    BY Histories, Sizes DEF Types, HTTPStep
<1>1. ASSUME ended' = "pieces", ~displaced, ~cut', ~counted', Kept'
      PROVE  good' = Units
    <2>0. ~counted /\ Kept
        BY <1>1, Histories, Conditions
    <2>1. CASE UNCHANGED <<ended, cut, good>>
        BY <1>1, <2>0, <2>1, Zenon DEF EndWritten
    <2>2. CASE TransferDone
        <3>1. have = Blocks /\ good' = good /\ pc = "pieces"
            BY <1>1, <2>2, Zenon DEF TransferDone, Goto
        <3>2. \A b \in Blocks : UnitsOf(b) \subseteq good
            BY <1>1, <2>0, <3>1 DEF RangesWritten, IsWritten
        <3> QED BY <1>0, <3>1, <3>2, BlocksCoverFile
    <2>3. ~BodyEnds
        BY <1>1 DEF BodyEnds
    <2> QED BY <1>1, <2>1, <2>2, <2>3, EndMoves
<1>2. ASSUME ended' = "stream", ~displaced, ~cut', Whole'
      PROVE  good' = Units
    <2>0. Whole
        BY <1>2, Conditions
    <2>1. CASE UNCHANGED <<ended, cut, good>>
        BY <1>2, <2>0, <2>1, Zenon DEF EndWritten
    <2>2. CASE BodyEnds
        <3>1. pc \in {"body", "whole"} /\ good' = good
            BY <2>2 DEF BodyEnds, Goto
        <3>2. cut' = (pos < FileSize)
            BY <2>2, Zenon DEF BodyEnds
        <3>3. ~(pos < FileSize)
            BY <1>2, <3>2, Zenon
        <3>4. Units \subseteq good
            BY <1>0, <1>2, <2>0, <3>1, <3>3 DEF BodyRead, Units
        <3> QED BY <1>0, <3>1, <3>4
    <2>3. ~TransferDone
        BY <1>2 DEF TransferDone
    <2> QED BY <1>2, <2>1, <2>2, <2>3, EndMoves
<1>3. ASSUME ended' = "skip", ~displaced, ~conf.conditional, OneConnection'
      PROVE  good' = Units
    <2>0. OneConnection /\ ~TransferDone /\ ~BodyEnds
        BY <1>3, Conditions DEF TransferDone, BodyEnds
    <2>1. CASE UNCHANGED <<ended, cut, good>>
        BY <1>3, <2>0, <2>1, Zenon DEF EndWritten
    <2>2. CASE UNCHANGED good /\ flen = FileSize
        <3>1. good = 0..(flen - 1)
            BY <1>3, <2>0 DEF Contiguous
        <3> QED BY <2>2, <3>1 DEF Units
    <2> QED BY <1>3, <2>0, <2>1, <2>2, EndMoves
<1>4. ASSUME ended' = "verified"
      PROVE  good' = Units
    <2>1. ~TransferDone /\ ~BodyEnds
        BY <1>4 DEF TransferDone, BodyEnds
    <2> QED BY <1>4, <2>1, EndMoves DEF EndWritten
<1> QED BY <1>0, <1>1, <1>2, <1>3, <1>4 DEF EndWritten

LEMMA HTTPKeepsInv == ASSUME IInv, HTTPStep PROVE IInv'
<1> USE DEF IInv
<1>0. HTTP /\ HTTP' /\ proto \notin Streams /\ ~Is("torrent") /\ proto' = proto
    BY DEF HTTPStep, HTTP, Streams, Is
<1>1. /\ Ways /\ BitsOfServer /\ RangesWritten
      /\ Contiguous /\ CountsSound /\ BodyRead /\ EndWritten /\ RenamedApart
    BY <1>0 DEF HTTPInv
<1>2. RenamedApart'
    BY <1>1, NotRenamed DEF RenamedApart
<1>3. HTTPInv'
    BY <1>1, <1>2, WaysKept, BitsOfServerKept, RangesWrittenKept, ContiguousKept, CountsSoundKept,
       BodyReadKept, EndWrittenKept DEF HTTPInv
<1> QED BY <1>0, <1>3, TypesKept DEF StreamInv, TorrentInv, Is

-----------------------------------------------------------------------------
(* What follows a download, and a new run.                                  *)

LEMMA VerifyKeepsInv == ASSUME IInv, VerifyHash PROVE IInv'
<1> USE DEF IInv
<1>0. /\ HTTP /\ HTTP' /\ proto \notin Streams /\ ~Is("torrent") /\ proto' = proto
      /\ pc = "returned" /\ pc' = "checked" /\ ended \in {"skip", "pieces", "stream"}
      /\ ended' = ended \/ ended' = "failed" \/ (ended' = "verified" /\ good = Units)
      /\ UNCHANGED <<conf, ctl, cf, total, have, part, hist, counted, flen, good, pos, at, displaced, cut>>
    BY DEF VerifyHash, HTTP, Streams, Is, unused, hist
<1>1. /\ Ways /\ BitsOfServer /\ RangesWritten
      /\ Contiguous /\ CountsSound /\ BodyRead /\ EndWritten /\ RenamedApart
    BY <1>0 DEF HTTPInv
<1>2. Types'
    BY <1>0 DEF Types, Record
<1>3. Ways' /\ BodyRead' /\ RenamedApart'
    BY <1>0 DEF Ways, BodyRead, RenamedApart
<1>4. BitsOfServer'
    BY <1>0, <1>1, SameConditions DEF BitsOfServer, NoBlocks
<1>5. RangesWritten'
    BY <1>0, <1>1, SameConditions DEF RangesWritten, WrittenBits, IsWritten
<1>6. Contiguous' /\ CountsSound'
    BY <1>0, <1>1, SameConditions DEF Contiguous, CountsSound, Counted
<1>7. EndWritten'
    BY <1>0, <1>1, SameConditions DEF EndWritten
<1>8. HTTPInv'
    BY <1>3, <1>4, <1>5, <1>6, <1>7 DEF HTTPInv
<1> QED BY <1>0, <1>2, <1>8 DEF StreamInv, TorrentInv, Is

LEMMA RenameKeepsInv == ASSUME IInv, RenameOutput PROVE IInv'
<1> USE DEF IInv
<1>0. /\ HTTP /\ HTTP' /\ proto \notin Streams /\ ~Is("torrent") /\ proto' = proto
      /\ pc' = "renamed" /\ ended' = "renamed" /\ flen' = Absent /\ good' = {}
      /\ displaced' = (displaced \/ ctl # None) /\ ~ticking /\ ~ticking'
      /\ UNCHANGED <<conf, ctl, cf, total, have, part, hist, counted, pos, at>>
    BY DEF RenameOutput, HTTP, Streams, Is, unused, hist
<1>1. BitsOfServer
    BY <1>0 DEF HTTPInv
<1>2. Types'
    BY <1>0 DEF Types, Record, Absent
<1>3. Ways' /\ BodyRead' /\ RangesWritten' /\ CountsSound' /\ EndWritten'
    BY <1>0 DEF Ways, BodyRead, RangesWritten, CountsSound, EndWritten
<1>4. BitsOfServer'
    BY <1>0, <1>1, SameConditions DEF BitsOfServer, NoBlocks
<1>5. Contiguous'
    <2>1. {} = 0..(Absent - 1)
        BY DEF Absent
    <2> QED BY <1>0, <2>1 DEF Contiguous
<1>6. RenamedApart'
    BY <1>0 DEF RenamedApart
<1>7. HTTPInv'
    BY <1>3, <1>4, <1>5, <1>6 DEF HTTPInv
<1> QED BY <1>0, <1>2, <1>7 DEF StreamInv, TorrentInv, Is

LEMMA RestartKeepsInv == ASSUME IInv, PRestart PROVE IInv'
<1> USE DEF IInv
<1>0. /\ cf' = None /\ total' = 0 /\ have' = {} /\ part' = [b \in Blocks |-> 0] /\ pos' = 0
      /\ ~ticking' /\ pc' = "load" /\ ended' = "no" /\ at' = 0
      /\ UNCHANGED <<conf, flen, good, ctl, hist, counted, proto, selected, data, displaced>>
    BY DEF PRestart, Restart, Fresh, disk, hist
<1>1. Types'
    <2>1. part' \in [Blocks -> 0..BlockLen]
        <3>1. 0 \in 0..BlockLen
            BY Sizes
        <3> QED BY <1>0, <3>1
    <2> QED BY <1>0, <2>1 DEF Types, Record, HTTP
<1>2. StreamInv' /\ TorrentInv'
    BY <1>0 DEF StreamInv, TorrentInv, Is
<1>3. ASSUME HTTP'
      PROVE  /\ Ways' /\ BitsOfServer' /\ RangesWritten' /\ Contiguous'
             /\ CountsSound' /\ BodyRead' /\ EndWritten' /\ RenamedApart'
    <2>1. /\ BitsOfServer /\ RangesWritten /\ Contiguous /\ CountsSound /\ RenamedApart
        BY <1>0, <1>3 DEF HTTPInv, HTTP
    <2>2. Ways' /\ BodyRead' /\ EndWritten' /\ RenamedApart'
        BY <1>0 DEF Ways, BodyRead, EndWritten, RenamedApart
    <2>3. BitsOfServer'
        BY <1>0, <2>1, SameConditions DEF BitsOfServer, NoBlocks
    <2>4. RangesWritten'
        <3>1. ~displaced /\ pc = "renamed" => ctl = None
            BY <2>1 DEF RenamedApart
        <3> QED BY <1>0, <2>1, <3>1, SameConditions DEF RangesWritten, WrittenBits, IsWritten
    <2>5. Contiguous'
        BY <1>0, <2>1, SameConditions DEF Contiguous
    <2>6. CountsSound'
        <3>1. ~displaced /\ pc = "renamed" => ctl = None /\ flen <= FileSize
            BY <2>1, Sizes DEF RenamedApart, Absent
        <3>2. Max(flen, 0) >= 0
            BY MaxOf DEF Types
        <3> QED BY <1>0, <2>1, <3>1, <3>2, SameConditions DEF CountsSound, Counted
    <2> QED BY <2>2, <2>3, <2>4, <2>5, <2>6
<1> QED BY <1>1, <1>2, <1>3 DEF HTTPInv

-----------------------------------------------------------------------------
(* The streams and the torrents.                                            *)

LEMMA StreamKeepsInv ==
    ASSUME IInv,
           \/ FTPLogin \/ FTPSize \/ PropFind \/ HeadObject \/ SFTPConnect \/ ContactFails
           \/ SkipLocal \/ OpenLocal \/ SFTPOpen \/ FTPRetr \/ GetPartial \/ GetWhole
           \/ StreamRead \/ StreamEnds \/ StreamFails \/ StreamCut
    PROVE  IInv'
<1> USE DEF IInv
<1>0. /\ proto \in Streams /\ ~HTTP /\ ~HTTP' /\ proto' = proto
      /\ UNCHANGED <<conf, ctl, cf, total, have, part, data, selected>>
    BY DEF FTPLogin, FTPSize, PropFind, HeadObject, SFTPConnect, ContactFails, SkipLocal, OpenLocal,
           SFTPOpen, FTPRetr, GetPartial, GetWhole, StreamRead, StreamEnds, StreamFails, StreamCut,
           Streams, Is, HTTP, unused
<1>1. HTTPInv' /\ TorrentInv'
    BY <1>0 DEF HTTPInv, TorrentInv, Is, Streams
<1>2. FileSize \in Nat \ {0} /\ flen \in Int /\ flen >= Absent /\ pos \in Nat /\ at \in Nat
    BY Sizes DEF Types
<1>3. CASE FTPLogin \/ FTPSize \/ PropFind \/ HeadObject \/ SFTPConnect
    BY <1>0, <1>1, <1>3 DEF FTPLogin, FTPSize, PropFind, HeadObject, SFTPConnect, Goto, outcome,
                            Types, Record, StreamInv, Is
<1>4. CASE ContactFails \/ StreamFails
    BY <1>0, <1>1, <1>4 DEF ContactFails, StreamFails, Fails, Types, Record, StreamInv, Is
<1>5. CASE SkipLocal \/ StreamEnds \/ StreamCut
    <2>0. pc' = "returned" /\ UNCHANGED <<flen, good, pos, at, displaced>>
        BY <1>5 DEF SkipLocal, StreamEnds, StreamCut, Succeeds
    <2>1. Types'
        BY <1>0, <2>0 DEF Types, Record
    <2>2. ASSUME ~displaced, ended' = "skip" \/ (ended' = "stream" /\ ~cut')
          PROVE  flen = FileSize
        <3>1. CASE SkipLocal
            BY <3>1 DEF SkipLocal
        <3>2. CASE StreamEnds
            <4>1. pc = "stream" /\ pos >= FileSize
                BY <3>2 DEF StreamEnds
            <4>2. pos = flen /\ flen <= FileSize
                BY <1>0, <2>2, <4>1 DEF StreamInv
            <4> QED BY <1>2, <4>1, <4>2
        <3>3. ~StreamCut
            BY <2>2 DEF StreamCut, Succeeds
        <3> QED BY <1>5, <3>1, <3>2, <3>3
    <2> QED BY <1>0, <1>1, <2>0, <2>1, <2>2 DEF StreamInv, Is
<1>6. CASE OpenLocal
    <2>0. /\ pc = "local" /\ pc' = "request" /\ flen' = Max(flen, 0)
          /\ at' = WriteOffset(flen') /\ pos' = RangeStart(flen')
          /\ UNCHANGED <<good, ended, displaced, cut>>
        BY <1>6 DEF OpenLocal, Goto, outcome
    <2>1. flen' \in Nat /\ 0..(flen - 1) = 0..(flen' - 1)
        BY <1>2, <2>0 DEF Max, Absent
    <2>2. at' \in Nat /\ pos' \in Nat
        BY <2>0, <2>1 DEF WriteOffset, RangeStart
    <2>3. Types'
        BY <1>0, <2>0, <2>1, <2>2 DEF Types, Record, Absent
    <2>4. Is("webdav") => at' = 0
        BY <2>0 DEF WriteOffset
    <2>5. ASSUME ~displaced
          PROVE  flen' <= FileSize /\ good' = 0..(flen' - 1) /\ pos' = flen'
        <3>1. flen <= FileSize /\ good = 0..(flen - 1)
            BY <1>0, <2>5 DEF StreamInv
        <3>2. flen' <= FileSize
            BY <1>2, <2>0, <3>1 DEF Max
        <3>3. pos' = flen'
            BY <1>2, <2>0, <2>1, <3>2 DEF RangeStart
        <3> QED BY <2>0, <2>1, <3>1, <3>2, <3>3
    <2>6. ended = "no"
        BY <2>0 DEF Types
    <2> QED BY <1>0, <1>1, <2>0, <2>3, <2>4, <2>5, <2>6 DEF StreamInv, Is, WriteOffset
<1>7. CASE SFTPOpen
    <2>1. {} = 0..(0 - 1)
        OBVIOUS
    <2>2. ended = "no"
        BY <1>7 DEF SFTPOpen, Goto, Types
    <2> QED BY <1>0, <1>1, <1>2, <1>7, <2>1, <2>2
            DEF SFTPOpen, Goto, outcome, Types, Record, StreamInv, Is, Absent
<1>8. CASE FTPRetr
    BY <1>0, <1>1, <1>8 DEF FTPRetr, Goto, outcome, Types, Record, StreamInv, Is, WriteOffset
<1>9. CASE GetPartial
    <2>1. Types'
        BY <1>0, <1>9 DEF GetPartial, Goto, outcome, Types, Record
    <2>2. CASE Is("webdav")
        BY <1>0, <1>1, <1>9, <2>1, <2>2 DEF GetPartial, Goto, outcome, StreamInv, Is
    <2>3. CASE ~Is("webdav")
        BY <1>0, <1>1, <1>9, <2>1, <2>3 DEF GetPartial, Goto, outcome, StreamInv, Is, WriteOffset, Types
    <2> QED BY <2>2, <2>3
<1>10. CASE GetWhole
    <2>0. /\ pc = "request" /\ pc' = "stream" /\ pos' = 0 /\ at' = at /\ ended = "no" /\ ended' = ended
        BY <1>10 DEF GetWhole, Goto, outcome, Types
    <2>1. CASE Is("webdav")
        <3>1. flen' = 0 /\ good' = {} /\ at = 0
            BY <1>0, <1>10, <2>0, <2>1 DEF GetWhole, StreamInv
        <3>2. {} = 0..(0 - 1)
            OBVIOUS
        <3>3. Types'
            BY <1>0, <1>2, <2>0, <3>1, <1>10 DEF Types, Record, Absent, GetWhole
        <3> QED BY <1>0, <1>1, <1>2, <2>0, <3>1, <3>2, <3>3 DEF StreamInv, Is
    <2>2. CASE ~Is("webdav")
        <3>1. displaced' = (displaced \/ at > 0) /\ UNCHANGED <<flen, good>>
            BY <1>10, <2>2 DEF GetWhole
        <3>2. Types'
            BY <1>0, <2>0, <3>1, <1>10 DEF Types, Record, GetWhole
        <3>3. ASSUME ~displaced' PROVE at = 0 /\ flen = 0 /\ flen <= FileSize /\ good = 0..(flen - 1)
            <4>0. ~displaced /\ ~(at > 0)
                BY <3>1, <3>3, Zenon
            <4>1. ~displaced /\ at = 0
                BY <1>2, <4>0
            <4>2. at = WriteOffset(flen) /\ flen <= FileSize /\ good = 0..(flen - 1)
                BY <1>0, <2>0, <4>1 DEF StreamInv
            <4> QED BY <2>2, <4>1, <4>2 DEF WriteOffset
        <3> QED BY <1>0, <1>1, <2>0, <3>1, <3>2, <3>3 DEF StreamInv, Is
    <2> QED BY <2>1, <2>2
<1>11. CASE StreamRead
    <2>0. /\ pc = "stream" /\ pc' = "stream" /\ pos < FileSize /\ ended = "no"
          /\ pos' = pos + 1 /\ at' = at + 1 /\ flen' = Max(flen, at + 1)
          /\ good' = (IF at = pos THEN good \cup {pos} ELSE good \ {at})
          /\ UNCHANGED <<ended, displaced, cut>>
        BY <1>11 DEF StreamRead, outcome, Types
    <2>1. flen' \in Int /\ flen' >= Absent
        BY <1>2, <2>0, MaxOf DEF Absent
    <2>2. Types'
        BY <1>0, <1>2, <2>0, <2>1 DEF Types, Record
    <2>3. ASSUME ~displaced
          PROVE  flen' <= FileSize /\ good' = 0..(flen' - 1) /\ at' = flen' /\ pos' = flen'
        <3>1. good = 0..(flen - 1) /\ at = flen /\ pos = flen
            BY <1>0, <2>0, <2>3 DEF StreamInv
        <3>2. flen' = flen + 1
            BY <1>2, <2>0, <3>1 DEF Max
        <3>3. 0..(flen - 1) \cup {flen} = 0..(flen + 1 - 1)
            BY <1>2, <3>1
        <3> QED BY <1>2, <2>0, <3>1, <3>2, <3>3
    <2> QED BY <1>0, <1>1, <2>0, <2>2, <2>3 DEF StreamInv, Is
<1> QED BY <1>3, <1>4, <1>5, <1>6, <1>7, <1>8, <1>9, <1>10, <1>11

\* A file that is moved is whole, and only a file that was not selected may
\* have none to move.
LEMMA TorrentKeepsInv ==
    ASSUME IInv,
           \/ createTorrentClient \/ addTorrent \/ TorrentInfo \/ TorrentFails
           \/ TorrentDone \/ MoveFile \/ seed \/ TorrentReturns
           \/ \E b \in Blocks : TorrentFile(b)
    PROVE  IInv'
<1> USE DEF IInv
<1>0. /\ Is("torrent") /\ Is("torrent")' /\ proto' = proto
      /\ UNCHANGED <<conf, ctl, cf, total, have, part, selected, flen, at>>
    BY DEF createTorrentClient, addTorrent, TorrentInfo, TorrentFails, TorrentDone, MoveFile, seed,
           TorrentReturns, TorrentFile, Is, unused
<1>1. HTTPInv' /\ StreamInv' /\ ~HTTP /\ ~HTTP'
    BY <1>0 DEF HTTPInv, StreamInv, Is, Streams, HTTP
<1>2. CASE createTorrentClient \/ addTorrent \/ TorrentInfo
    <2>1. /\ pc \notin {"delete", "closing", "returned", "checked", "renamed", "move", "seed"} /\ pc' \notin {"move", "seed"}
          /\ UNCHANGED <<good, pos, ended>>
        BY <1>2 DEF createTorrentClient, addTorrent, TorrentInfo, Goto, outcome
    <2> QED BY <1>0, <1>1, <2>1 DEF Types, Record, TorrentInv
<1>3. CASE TorrentFails
    <2>1. /\ pc' \in {"load", "returned"} /\ UNCHANGED <<good, pos>>
          /\ (ended' = ended /\ ended = "no") \/ (pc' = "returned" /\ ended' = "failed")
        BY <1>3 DEF TorrentFails, Fails, Types
    <2> QED BY <1>0, <1>1, <2>1 DEF Types, Record, TorrentInv
<1>4. CASE TorrentDone
    <2>1. /\ pc = "swarm" /\ pc' = "move" /\ selected \subseteq data /\ pos' = 0
          /\ UNCHANGED <<good, ended, data>>
        BY <1>4 DEF TorrentDone, Goto, outcome, TorrentComplete
    <2> QED BY <1>0, <1>1, <2>1 DEF Types, Record, TorrentInv
<1>5. CASE MoveFile
    <2>0. /\ pc = "move" /\ pos \in Blocks /\ pos' = pos + 1 /\ data' = data \ {pos}
          /\ UNCHANGED <<pc, ended>>
          /\ \/ pos \in data /\ good' = good \cup UnitsOf(pos)
             \/ pos \notin selected /\ UNCHANGED good
        BY <1>5 DEF MoveFile, outcome
    <2>1. good \subseteq good'
        BY <2>0
    <2>2. good' \subseteq Nat
        <3>1. UnitsOf(pos) \subseteq Units /\ Units \subseteq Nat
            BY <2>0, UnitsInFile DEF Units
        <3> QED BY <2>0, <3>1 DEF Types
    <2>3. Types'
        <3>1. pos' \in Nat
            BY <2>0 DEF Types
        <3> QED BY <1>0, <1>1, <2>0, <2>2, <3>1 DEF Types, Record
    <2>4. ASSUME NEW b \in selected \ data'
          PROVE  IsWritten(b)'
        <3>1. CASE b \in data
            BY <1>0, <2>0, <2>4, <3>1 DEF IsWritten, UnitsOf
        <3>2. CASE b \notin data
            <4>1. IsWritten(b)
                BY <1>0, <2>0, <2>4, <3>2 DEF TorrentInv
            <4> QED BY <2>1, <4>1 DEF IsWritten
        <3> QED BY <3>1, <3>2
    <2> QED BY <1>0, <1>1, <2>3, <2>4 DEF TorrentInv
<1>6. CASE seed
    <2>1. pc = "move" /\ pc' = "seed" /\ UNCHANGED <<good, pos, ended, data>>
        BY <1>6 DEF seed, Goto, outcome
    <2> QED BY <1>0, <1>1, <2>1 DEF Types, Record, TorrentInv, IsWritten
<1>7. CASE TorrentReturns
    <2>1. pc \in {"move", "seed"} /\ pc' = "returned" /\ UNCHANGED <<good, pos, data>>
        BY <1>7 DEF TorrentReturns, Succeeds
    <2> QED BY <1>0, <1>1, <2>1 DEF Types, Record, TorrentInv, IsWritten
<1>8. CASE \E b \in Blocks : TorrentFile(b)
    <2>1. pc = "swarm" /\ pc' = "swarm" /\ UNCHANGED <<good, pos, ended>>
        BY <1>8 DEF TorrentFile, outcome
    <2> QED BY <1>0, <1>1, <2>1 DEF Types, Record, TorrentInv
<1> QED BY <1>2, <1>3, <1>4, <1>5, <1>6, <1>7, <1>8

-----------------------------------------------------------------------------
(* The invariant and the properties.                                        *)

LEMMA InitIInv == ASSUME PInit PROVE IInv
<1>0. /\ conf \in Configs /\ proto \in Protocols
      /\ flen = Absent /\ good = {} /\ ctl = None /\ cf = None
      /\ total = 0 /\ have = {} /\ part = [b \in Blocks |-> 0] /\ pos = 0
      /\ ~ticking /\ pc = "load" /\ ended = "no" /\ at = 0
    BY DEF PInit, Init
<1>1. Types
    <2>1. part \in [Blocks -> 0..BlockLen]
        <3>1. 0 \in 0..BlockLen
            BY Sizes
        <3> QED BY <1>0, <3>1
    <2> QED BY <1>0, <2>1 DEF Types, Record, Absent
<1>2. {} = 0..(Absent - 1) /\ Absent <= FileSize /\ Max(flen, 0) = 0
    BY <1>0, Sizes DEF Absent, Max
<1>3. StreamInv /\ TorrentInv
    BY <1>0, <1>2 DEF StreamInv, TorrentInv
<1>4. Ways /\ BodyRead /\ EndWritten /\ RenamedApart
    BY <1>0 DEF Ways, BodyRead, EndWritten, RenamedApart
<1>5. BitsOfServer /\ RangesWritten
    BY <1>0 DEF BitsOfServer, NoBlocks, RangesWritten, WrittenBits
<1>6. Contiguous /\ CountsSound
    BY <1>0, <1>2 DEF Contiguous, CountsSound, Counted
<1> QED BY <1>1, <1>3, <1>4, <1>5, <1>6 DEF IInv, HTTPInv

LEMMA NextIInv == ASSUME IInv, [PNext]_pvars PROVE IInv'
<1>1. CASE UNCHANGED pvars
    <2> USE <1>1 DEF pvars, vars, disk, mem, run, rest
    <2>0. Types'
        BY DEF IInv, Types, Record, HTTP
    <2>1. StreamInv' /\ TorrentInv'
        <3>1. StreamInv /\ TorrentInv
            BY DEF IInv
        <3>2. StreamInv'
            BY <3>1 DEF StreamInv, Is, WriteOffset
        <3>3. TorrentInv'
            BY <3>1 DEF TorrentInv, Is, IsWritten
        <3> QED BY <3>2, <3>3
    <2>2. ASSUME HTTP
          PROVE  /\ Ways' /\ BitsOfServer' /\ RangesWritten' /\ Contiguous'
                 /\ CountsSound' /\ BodyRead' /\ EndWritten' /\ RenamedApart'
        <3>0. UNCHANGED <<conf, hist>>
            OBVIOUS
        <3>1. /\ Ways /\ BitsOfServer /\ RangesWritten
              /\ Contiguous /\ CountsSound /\ BodyRead /\ EndWritten /\ RenamedApart
            BY <2>2 DEF IInv, HTTPInv
        <3>2. Ways' /\ BodyRead' /\ EndWritten' /\ RenamedApart'
            BY <3>0, <3>1, SameConditions DEF Ways, BodyRead, EndWritten, RenamedApart, hist
        <3>3. BitsOfServer'
            BY <3>0, <3>1, SameConditions DEF BitsOfServer, NoBlocks, hist
        <3>4. RangesWritten'
            BY <3>0, <3>1, SameConditions DEF RangesWritten, WrittenBits, IsWritten, PartOf, hist
        <3>5. Contiguous' /\ CountsSound'
            BY <3>0, <3>1, SameConditions DEF Contiguous, CountsSound, Counted, FullyDownloaded, Completed
        <3> QED BY <3>2, <3>3, <3>4, <3>5
    <2> QED BY <2>0, <2>1, <2>2 DEF IInv, HTTPInv, HTTP
<1>2. CASE HTTPStep
    BY <1>2, HTTPKeepsInv
<1>3. CASE VerifyHash \/ RenameOutput \/ PRestart
    BY <1>3, VerifyKeepsInv, RenameKeepsInv, RestartKeepsInv
<1>4. CASE \/ FTPLogin \/ FTPSize \/ PropFind \/ HeadObject \/ SFTPConnect \/ ContactFails
           \/ SkipLocal \/ OpenLocal \/ SFTPOpen \/ FTPRetr \/ GetPartial \/ GetWhole
           \/ StreamRead \/ StreamEnds \/ StreamFails \/ StreamCut
    BY <1>4, StreamKeepsInv
<1>5. CASE \/ createTorrentClient \/ addTorrent \/ TorrentInfo \/ TorrentFails
           \/ TorrentDone \/ MoveFile \/ seed \/ TorrentReturns
           \/ \E b \in Blocks : TorrentFile(b)
    BY <1>5, TorrentKeepsInv
<1> QED BY <1>1, <1>2, <1>3, <1>4, <1>5 DEF PNext, HTTPStep

\* IInv is inductive, whatever the protocol, the layout of the file, the
\* configuration, the server and the faults, with kills and new runs between any
\* steps.
THEOREM SessionInvariant == PSpec => []IInv
<1>1. PInit => IInv
    BY InitIInv
<1>2. IInv /\ [PNext]_pvars => IInv'
    BY NextIInv
<1> QED BY <1>1, <1>2, PTL DEF PSpec

\* What the next run will not fetch again is in the file: the blocks of the
\* bitmaps in memory and in the control file of an HTTP download, and a stream
\* download's local file, which resumes at its own size.
THEOREM SessionResumeSound == PSpec => []ResumeSound
<1>1. ASSUME IInv PROVE ResumeSound
    <2>1. ASSUME HTTP, pc # "renamed", ~displaced, ~counted, Kept
          PROVE  /\ \A b \in have : IsWritten(b)
                 /\ ctl # None => \A b \in ctl.bits : IsWritten(b)
        <3>1. RangesWritten
            BY <1>1, <2>1 DEF IInv, HTTPInv
        <3> QED BY <2>1, <3>1 DEF RangesWritten, WrittenBits
    <2>2. ASSUME proto \in Streams, ~displaced PROVE good = 0..(flen - 1)
        BY <1>1, <2>2 DEF IInv, StreamInv
    <2> QED BY <2>1, <2>2 DEF ResumeSound, BitsWritten
<1> QED BY <1>1, SessionInvariant, PTL

\* Success means a complete file: for HTTP, for the streams, for a verified
\* metalink and for the selected files of a torrent.
THEOREM SessionCompleteHolds == PSpec => []SessionComplete
<1>1. ASSUME IInv PROVE SessionComplete
    <2>1. ASSUME HTTP, ~displaced PROVE PiecesComplete /\ SequentialComplete
        <3>1. EndWritten
            BY <1>1, <2>1 DEF IInv, HTTPInv
        <3> QED BY <2>1, <3>1, Zenon DEF EndWritten, Whole, PiecesComplete, SequentialComplete
    <2>2. ASSUME proto \in Streams, ~displaced, ended = "skip" \/ (ended = "stream" /\ ~cut)
          PROVE  good = Units
        BY <1>1, <2>2 DEF IInv, StreamInv, Units
    <2>3. ASSUME Is("metalink"), ended = "verified" PROVE good = Units
        BY <1>1, <2>3 DEF IInv, HTTPInv, HTTP, Is, EndWritten
    <2>4. ASSUME Is("torrent"), ended = "moved" PROVE \A b \in selected \ data : IsWritten(b)
        BY <1>1, <2>4 DEF IInv, TorrentInv
    <2> QED BY <2>1, <2>2, <2>3, <2>4 DEF SessionComplete
<1> QED BY <1>1, SessionInvariant, PTL
=============================================================================
