------------------------ MODULE PieceDownloadProofs ------------------------
(***************************************************************************)
(* What holds of a transfer for every size of file, piece, block and read, *)
(* every number of workers, sources and retries, and every set of faults.  *)
(***************************************************************************)
EXTENDS PieceDownload, FiniteSetTheorems, WellFoundedInduction, TLAPS

\* The types of the two bitmaps.
Bitmaps ==
    /\ have \in [Pieces -> SUBSET Nat] /\ used \in [Pieces -> SUBSET Nat]
    /\ \A p \in Pieces : have[p] \subseteq Blocks(p) /\ used[p] \subseteq Blocks(p)

\* The steps at which a worker holds a piece.
Owning == {"sem", "yield", "putBack", "attempt", "request", "body"}

\* A worker has a block of its piece, or a stolen range that starts with a
\* block and goes to the end of the piece.
PlacedAt(w) ==
    /\ pc[w] \in {"request", "body"} =>
          blk[w] \in Blocks(piece[w]) /\ BlockStart(piece[w], blk[w]) <= off[w]
    /\ pc[w] = "request" => off[w] = BlockStart(piece[w], blk[w])
    /\ pc[w] \in {"rangeSem", "range", "rangeBody"} =>
          /\ last[w] = PieceEnd(piece[w])
          /\ \E i \in Blocks(piece[w]) : from[w] = BlockStart(piece[w], i)
    /\ pc[w] = "rangeBody" => from[w] <= off[w]

Placed == \A w \in Conns : PlacedAt(w)

\* An idle piece is held by nobody.
IdleFree == \A p \in Pieces : status[p] = "idle" => \A w \in Conns : Holding(w) => piece[w] # p

\* A worker ends with a piece only when everybody is cancelled.
Ending == \A w \in Conns : pc[w] \in {"putBack", "disown"} => cancelled

\* A piece that is idle finds somebody who will look for one, also when it was
\* put back after others had found nothing more to do.
IdleServed == ~cancelled /\ Idle # {} => \E w \in Conns : pc[w] \notin {"done", "steal"}

\* Nobody works any more once doDownload has returned.
Finished == result # "none" => \A w \in Conns : pc[w] = "done"

Ownership ==
    /\ OneWorkerPerPiece /\ IdleFree /\ Ending /\ IdleServed
    /\ Finished /\ SuccessMeansComplete

IInv == TypeOK /\ Placed /\ Ownership

\* What a response has delivered so far is in the file: from the start of the
\* block, or of the stolen range, up to the offset.
WrittenAt(w) ==
    /\ pc[w] = "body" => BlockStart(piece[w], blk[w])..(off[w] - 1) \subseteq written
    /\ pc[w] = "rangeBody" => from[w]..(off[w] - 1) \subseteq written

WInv == CompleteIsWritten /\ \A w \in Conns : WrittenAt(w)

-----------------------------------------------------------------------------
(* The layout of the file.                                                  *)

\* Rounding up: n pieces of length b are needed for a, and the last starts
\* before the end.
LEMMA CeilDivBounds ==
    ASSUME NEW a \in Nat \ {0}, NEW b \in Nat \ {0}
    PROVE  /\ CeilDiv(a, b) \in Nat \ {0}
           /\ (CeilDiv(a, b) - 1) * b < a
           /\ a <= CeilDiv(a, b) * b
<1> DEFINE q == (a + b - 1) \div b
<1>1. q \in Nat /\ q * b <= a + b - 1 /\ a + b - 1 < (q + 1) * b
    BY SMT
<1>2. (q + 1) * b = q * b + b /\ (q - 1) * b = q * b - b
    BY <1>1, SMT
<1>3. q # 0
    BY <1>1
<1> HIDE DEF q
<1>4. q \in Nat \ {0} /\ (q - 1) * b < a /\ a <= q * b
    BY <1>1, <1>2, <1>3, SMT
<1> QED BY <1>4 DEF q, CeilDiv

LEMMA MulMonotone ==
    ASSUME NEW m \in Int, NEW n \in Int, NEW b \in Nat, m <= n
    PROVE  m * b <= n * b
BY SMT

LEMMA DivMod ==
    ASSUME NEW a \in Nat, NEW b \in Nat \ {0}
    PROVE  a % b \in 0..(b - 1) /\ a = (a \div b) * b + (a % b) /\ a \div b \in Nat
<1>1. a % b \in 0..(b - 1) /\ a = b * (a \div b) + (a % b)
    BY SMT
<1>2. a \div b \in Nat
    BY SMT
<1>3. b * (a \div b) = (a \div b) * b
    BY <1>2, SMT
<1> QED BY <1>1, <1>2, <1>3

LEMMA MulDiv ==
    ASSUME NEW a \in Nat, NEW b \in Nat \ {0}
    PROVE  (a * b) \div b = a
BY SMT

\* A piece is not empty and lies inside the file.
LEMMA PieceGeometry ==
    ASSUME NEW p \in Pieces
    PROVE  /\ p \in Nat /\ PieceStart(p) \in Nat
           /\ PieceLen(p) \in Nat \ {0}
           /\ PieceStart(p) + PieceLen(p) <= FileSize
           /\ PieceEnd(p) \in 0..(FileSize - 1)
<1> DEFINE n == CeilDiv(FileSize, PieceLength)
<1>1. /\ n \in Nat \ {0} /\ (n - 1) * PieceLength < FileSize
      /\ FileSize \in Nat \ {0} /\ PieceLength \in Nat \ {0}
    BY CeilDivBounds, PieceAssumption
<1>2. p \in 0..(n - 1)
    BY DEF Pieces
<1> HIDE DEF n
<1>3. p * PieceLength <= (n - 1) * PieceLength
    BY <1>1, <1>2, MulMonotone
<1>4. p \in Nat /\ p * PieceLength \in Nat /\ (n - 1) * PieceLength \in Int
    BY <1>1, <1>2, SMT
<1>5. PieceStart(p) \in Nat /\ PieceStart(p) < FileSize
    BY <1>1, <1>3, <1>4 DEF PieceStart
<1> QED BY <1>1, <1>4, <1>5 DEF PieceLen, PieceEnd

\* So is a block, which lies inside its piece.
LEMMA BlockGeometry ==
    ASSUME NEW p \in Pieces, NEW i \in Blocks(p)
    PROVE  /\ i \in Nat /\ NumBlocks(p) \in Nat \ {0}
           /\ BlockStart(p, i) \in Nat /\ BlockLen(p, i) \in Nat \ {0}
           /\ PieceStart(p) <= BlockStart(p, i)
           /\ BlockStart(p, i) + BlockLen(p, i) <= PieceStart(p) + PieceLen(p)
<1> DEFINE L == PieceLen(p)
           B == BlockLength
           n == NumBlocks(p)
<1>1. PieceStart(p) \in Nat /\ L \in Nat \ {0} /\ B \in Nat \ {0}
    BY PieceGeometry, PieceAssumption
<1>2. n \in Nat \ {0} /\ (n - 1) * B < L /\ L <= n * B
    BY <1>1, CeilDivBounds DEF NumBlocks
<1>3. i \in 0..(n - 1)
    BY DEF Blocks
<1>4. i * B <= (n - 1) * B /\ i * B \in Nat /\ (n - 1) * B \in Nat
    <2> HIDE DEF n, B, L
    <2>1. i * B <= (n - 1) * B
        BY <1>1, <1>2, <1>3, MulMonotone
    <2> QED BY <1>1, <1>2, <1>3, <2>1, SMT
<1>5. L % B \in 0..(B - 1) /\ L = (L \div B) * B + (L % B) /\ L \div B \in Nat
    BY <1>1, DivMod
<1>6. BlockStart(p, i) = PieceStart(p) + i * B
    BY DEF BlockStart
<1>7. BlockLen(p, i) = IF i = n - 1 /\ L % B # 0 THEN L % B ELSE B
    BY DEF BlockLen
<1> HIDE DEF n, B, L
<1>8. BlockLen(p, i) \in Nat \ {0}
    BY <1>1, <1>5, <1>7
<1>9. i * B + BlockLen(p, i) <= L
    <2>1. CASE i < n - 1
        <3>1. (i + 1) * B <= (n - 1) * B
            BY <1>1, <1>2, <1>3, <2>1, MulMonotone
        <3>2. (i + 1) * B = i * B + B
            BY <1>1, <1>3, SMT
        <3>3. BlockLen(p, i) = B
            BY <1>7, <2>1, <1>2, <1>3
        <3> QED BY <1>1, <1>2, <1>4, <3>1, <3>2, <3>3
    <2>2. CASE i = n - 1
        <3>1. n - 1 <= L \div B
            <4>1. (n - 1) * B < (L \div B + 1) * B
                BY <1>1, <1>2, <1>5, SMT
            <4>2. ~((L \div B) + 1 <= n - 1)
                BY <1>1, <1>2, <1>5, <4>1, MulMonotone
            <4> QED BY <1>2, <1>5, <4>2
        <3>2. CASE L % B # 0
            <4>1. (n - 1) * B <= (L \div B) * B
                BY <1>1, <1>2, <1>5, <3>1, MulMonotone
            <4>2. (L \div B) * B \in Nat
                BY <1>1, <1>5, SMT
            <4>3. BlockLen(p, i) = L % B /\ L % B \in Nat
                BY <1>1, <1>5, <1>7, <2>2, <3>2
            <4> HIDE <1>7
            <4> QED BY <1>1, <1>4, <1>5, <2>2, <4>1, <4>2, <4>3
        <3>3. CASE L % B = 0
            <4>1. L = (L \div B) * B
                BY <1>5, <3>3, <1>1, SMT
            <4>2. n <= L \div B
                <5>1. L \div B <= n - 1 => (L \div B) * B <= (n - 1) * B
                    BY <1>1, <1>2, <1>5, MulMonotone
                <5> QED BY <5>1, <4>1, <1>1, <1>2, <1>4, <1>5
            <4>3. n * B <= (L \div B) * B /\ n * B = (n - 1) * B + B
                BY <1>1, <1>2, <1>5, <4>2, MulMonotone, SMT
            <4> QED BY <1>1, <1>4, <1>7, <2>2, <3>3, <4>1, <4>3
        <3> QED BY <1>5, <3>2, <3>3
    <2> QED BY <1>2, <1>3, <2>1, <2>2
<1>10. n \in Nat \ {0} /\ i \in Nat
    BY <1>2, <1>3
<1> QED BY <1>1, <1>4, <1>6, <1>8, <1>9, <1>10 DEF n, L

\* Blocks follow each other.
LEMMA BlockOrder ==
    ASSUME NEW p \in Pieces, NEW i \in Nat, NEW j \in Nat, i <= j
    PROVE  BlockStart(p, i) <= BlockStart(p, j)
<1>1. PieceStart(p) \in Nat /\ BlockLength \in Nat
    BY PieceGeometry, PieceAssumption
<1>2. i * BlockLength <= j * BlockLength
    BY <1>1, MulMonotone
<1>3. i * BlockLength \in Nat /\ j * BlockLength \in Nat
    BY <1>1, SMT
<1> QED BY <1>1, <1>2, <1>3 DEF BlockStart

\* An offset that is not before a piece is counted to one of its blocks.
LEMMA BlockIndexInPiece ==
    ASSUME NEW p \in Pieces, NEW o \in Nat, PieceStart(p) <= o
    PROVE  BlockIndexForOffset(p, o) \in Blocks(p)
<1> DEFINE i == (o - PieceStart(p)) \div BlockLength
<1>1. /\ PieceStart(p) \in Nat /\ BlockLength \in Nat \ {0} /\ PieceLen(p) \in Nat \ {0}
      /\ o - PieceStart(p) \in Nat
    BY PieceGeometry, PieceAssumption
<1>2. i \in Nat
    BY <1>1, DivMod
<1>3. NumBlocks(p) \in Nat \ {0}
    BY <1>1, CeilDivBounds DEF NumBlocks
<1> HIDE DEF i
<1>4. (IF i >= NumBlocks(p) THEN NumBlocks(p) - 1 ELSE i) \in 0..(NumBlocks(p) - 1)
    BY <1>2, <1>3
<1> QED BY <1>4 DEF BlockIndexForOffset, Blocks, i

\* The start of a block is counted to that block.
LEMMA BlockIndexOfStart ==
    ASSUME NEW p \in Pieces, NEW i \in Blocks(p)
    PROVE  BlockIndexForOffset(p, BlockStart(p, i)) = i
<1>1. PieceStart(p) \in Nat /\ BlockLength \in Nat \ {0} /\ i \in Nat
    BY PieceGeometry, BlockGeometry, PieceAssumption
<1>2. i * BlockLength \in Nat
    BY <1>1, SMT
<1>3. BlockStart(p, i) - PieceStart(p) = i * BlockLength
    BY <1>1, <1>2 DEF BlockStart
<1>4. (i * BlockLength) \div BlockLength = i
    BY <1>1, MulDiv
<1>5. i \in 0..(NumBlocks(p) - 1) /\ NumBlocks(p) \in Nat
    BY BlockGeometry DEF Blocks
<1>6. ~(i >= NumBlocks(p))
    BY <1>1, <1>5
<1> QED BY <1>3, <1>4, <1>6 DEF BlockIndexForOffset

\* The covered blocks lie inside the units up to the end of the piece.
LEMMA BlocksUpToEnd ==
    ASSUME NEW p \in Pieces, NEW k \in Blocks(p), NEW i \in Blocks(p), k <= i
    PROVE  Units(p, i) \subseteq BlockStart(p, k)..PieceEnd(p)
<1>1. /\ BlockStart(p, i) \in Nat /\ BlockLen(p, i) \in Nat /\ k \in Nat /\ i \in Nat
      /\ BlockStart(p, i) + BlockLen(p, i) <= PieceStart(p) + PieceLen(p)
      /\ PieceStart(p) \in Nat /\ PieceLen(p) \in Nat /\ BlockStart(p, k) \in Nat
    BY BlockGeometry, PieceGeometry
<1>2. BlockStart(p, k) <= BlockStart(p, i)
    BY <1>1, BlockOrder
<1> QED BY <1>1, <1>2 DEF Units, PieceEnd

\* A set of naturals that is not empty has a least member.
LEMMA LeastNatural ==
    ASSUME NEW S, S \subseteq Nat, S # {}
    PROVE  \E i \in S : \A j \in S : i <= j
<1> DEFINE R == {ss \in Nat \X Nat : ss[1] < ss[2]}
<1>1. R = OpToRel(<, Nat)
    BY DEF OpToRel
<1>2. IsWellFoundedOn(R, Nat)
    BY <1>1, NatLessThanWellFounded
<1> HIDE DEF R
<1>3. PICK i \in S : \A j \in S : ~(<<j, i>> \in R)
    BY <1>2, WFMin
<1>4. ASSUME NEW j \in S PROVE i <= j
    <2>1. ~(<<j, i>> \in R)
        BY <1>3
    <2>2. ~(j < i)
        BY <2>1 DEF R
    <2> QED BY <2>2
<1> QED BY <1>4

\* A stolen range begins with a block of the piece it is stolen from.
LEMMA StealStartIsBlock ==
    ASSUME TypeOK, NEW p \in Pieces, Stealable(p)
    PROVE  StealStart(p) \in Blocks(p)
<1>1. Missing(p) \subseteq Blocks(p) /\ Blocks(p) \subseteq Nat
    BY DEF Missing, Blocks
<1>2. Missing(p) # {}
    <2>1. Remaining(p) # 0
        BY PieceAssumption DEF Stealable, Visited
    <2>2. SUFFICES ASSUME Missing(p) = {} PROVE FALSE
        OBVIOUS
    <2>3. UNION {Units(p, i) : i \in Missing(p)} = {}
        BY <2>2
    <2> QED BY <2>1, <2>3, FS_EmptySet DEF Remaining
<1>3. PICK i \in Missing(p) : i = CHOOSE k \in Missing(p) : \A j \in Missing(p) : k <= j
    BY <1>1, <1>2, LeastNatural
<1>4. Cardinality(Missing(p)) \in Nat
    <2>1. NumBlocks(p) \in Int /\ IsFiniteSet(0..(NumBlocks(p) - 1))
        BY BlockGeometry, <1>1, <1>2, FS_Interval
    <2>2. IsFiniteSet(Missing(p))
        BY <1>1, <2>1, FS_Subset DEF Blocks
    <2> QED BY <2>2, FS_CardinalityType
<1>5. StealStart(p) = i + Cardinality(Missing(p)) \div 2
    BY <1>3 DEF StealStart
<1>6. StealStart(p) \in Nat
    <2>1. i \in Nat
        BY <1>1
    <2> QED BY <1>4, <1>5, <2>1
<1>7. /\ PieceLen(p) \in Nat \ {0} /\ BlockLength \in Nat \ {0}
      /\ StealStart(p) * BlockLength < PieceLen(p)
    <2>1. StealStart(p) * BlockLength \in Nat
        BY <1>6, PieceAssumption, SMT
    <2> QED BY <2>1, PieceGeometry, PieceAssumption DEF Stealable, StealLength
<1>8. NumBlocks(p) \in Nat \ {0} /\ PieceLen(p) <= NumBlocks(p) * BlockLength
    BY <1>7, CeilDivBounds DEF NumBlocks
<1>9. NumBlocks(p) <= StealStart(p) => NumBlocks(p) * BlockLength <= StealStart(p) * BlockLength
    BY <1>6, <1>7, <1>8, MulMonotone
<1>10. NumBlocks(p) * BlockLength \in Nat /\ StealStart(p) * BlockLength \in Nat
    BY <1>6, <1>7, <1>8, SMT
<1>11. StealStart(p) < NumBlocks(p)
    BY <1>6, <1>7, <1>8, <1>9, <1>10
<1> QED BY <1>6, <1>8, <1>11 DEF Blocks

-----------------------------------------------------------------------------
(* Who holds a piece: the four ways in which a worker's step can bear on it. *)

\* A worker goes on with the piece it has, or without one.
LEMMA StepKeepsOwners ==
    ASSUME TypeOK, Ownership, NEW w \in Conns, NEW b,
           pc[w] # "done", pc' = [pc EXCEPT ![w] = b], pc[w] \in Owning <=> b \in Owning,
           \A v \in Conns : pc[v] \in Owning => piece'[v] = piece[v],
           UNCHANGED <<status, result>>,
           \A p \in Pieces : have[p] = Blocks(p) => have'[p] = Blocks(p),
           cancelled => cancelled',
           b \in {"putBack", "disown"} => cancelled',
           b \in {"done", "steal"} => cancelled' \/ Idle = {} \/ pc[w] = "steal"
    PROVE  Ownership'
<1>1. \A v \in Conns : pc'[v] = IF v = w THEN b ELSE pc[v]
    BY DEF TypeOK
<1>2. \A v \in Conns : Holding(v)' <=> Holding(v)
    BY <1>1 DEF Holding, Owning
<1>3. \A v \in Conns : Holding(v) => piece'[v] = piece[v]
    BY DEF Holding, Owning
<1>4. OneWorkerPerPiece' /\ IdleFree'
    BY <1>2, <1>3 DEF Ownership, OneWorkerPerPiece, IdleFree, Complete
<1>5. Ending'
    BY <1>1 DEF Ownership, Ending
<1>6. IdleServed'
    BY <1>1 DEF Ownership, IdleServed, Idle
<1>7. result = "none"
    BY DEF Ownership, Finished
<1>8. Finished' /\ SuccessMeansComplete'
    BY <1>7 DEF Finished, SuccessMeansComplete
<1> QED BY <1>4, <1>5, <1>6, <1>8 DEF Ownership

\* A worker finds its piece complete, or completes the one it steals from.
LEMMA StepCompletes ==
    ASSUME TypeOK, Ownership, NEW w \in Conns,
           pc[w] \in {"attempt", "body", "rangeBody"}, pc' = [pc EXCEPT ![w] = "top"],
           status' = [status EXCEPT ![piece[w]] = "complete"],
           have'[piece[w]] = Blocks(piece[w]),
           \A p \in Pieces : have[p] = Blocks(p) => have'[p] = Blocks(p),
           UNCHANGED <<result, piece, cancelled>>
    PROVE  Ownership'
<1>0. piece[w] \in Pieces /\ pc[w] # "done"
    BY DEF TypeOK
<1>1. \A v \in Conns : pc'[v] = IF v = w THEN "top" ELSE pc[v]
    BY DEF TypeOK
<1>2. \A p \in Pieces : status'[p] = IF p = piece[w] THEN "complete" ELSE status[p]
    BY DEF TypeOK
<1>3. \A v \in Conns : Holding(v)' <=> v # w /\ Holding(v)
    BY <1>1 DEF Holding
<1>4. OneWorkerPerPiece' /\ IdleFree'
    BY <1>0, <1>2, <1>3 DEF Ownership, OneWorkerPerPiece, IdleFree, Complete
<1>5. Ending' /\ IdleServed'
    BY <1>1 DEF Ownership, Ending, IdleServed
<1>6. result = "none"
    BY <1>0 DEF Ownership, Finished
<1>7. Finished' /\ SuccessMeansComplete'
    BY <1>6 DEF Finished, SuccessMeansComplete
<1> QED BY <1>4, <1>5, <1>7 DEF Ownership

\* A worker puts its piece back.
LEMMA StepPutsBack ==
    ASSUME TypeOK, Ownership, NEW w \in Conns, PutBack(w)
    PROVE  Ownership'
<1>0. piece[w] \in Pieces /\ Holding(w) /\ pc[w] # "done"
    BY DEF TypeOK, PutBack, Step, Holding
<1>1. PICK b \in {"yielded", "disown"} : /\ pc' = [pc EXCEPT ![w] = b]
                                         /\ b = "disown" => pc[w] = "putBack"
    BY DEF PutBack, Step
<1>2. \A v \in Conns : pc'[v] = IF v = w THEN b ELSE pc[v]
    BY <1>1 DEF TypeOK
<1>3. \A p \in Pieces : status'[p] = IF p = piece[w] THEN "idle" ELSE status[p]
    BY DEF TypeOK, PutBack
<1>4. UNCHANGED <<have, result, piece, cancelled>>
    BY DEF PutBack
<1>5. \A v \in Conns : Holding(v)' <=> v # w /\ Holding(v)
    BY <1>2 DEF Holding
<1>6. OneWorkerPerPiece' /\ IdleFree'
    BY <1>0, <1>3, <1>4, <1>5 DEF Ownership, OneWorkerPerPiece, IdleFree, Complete
<1>7. Ending'
    BY <1>1, <1>2, <1>4 DEF Ownership, Ending
<1>8. IdleServed'
    BY <1>1, <1>2, <1>4, <1>7 DEF IdleServed, Ending
<1>9. result = "none"
    BY <1>0 DEF Ownership, Finished
<1>10. Finished' /\ SuccessMeansComplete'
    BY <1>4, <1>9 DEF Finished, SuccessMeansComplete
<1> QED BY <1>6, <1>7, <1>8, <1>10 DEF Ownership

\* A worker takes an idle piece.
LEMMA StepTakes ==
    ASSUME TypeOK, Ownership, NEW w \in Conns, NEW p \in Idle,
           pc[w] = "get", pc' = [pc EXCEPT ![w] = "sem"],
           status' = [status EXCEPT ![p] = "active"],
           piece' = [piece EXCEPT ![w] = p], UNCHANGED <<have, result, cancelled>>
    PROVE  Ownership'
<1>0. p \in Pieces /\ status[p] = "idle"
    BY DEF Idle
<1>1. \A v \in Conns : /\ pc'[v] = IF v = w THEN "sem" ELSE pc[v]
                       /\ piece'[v] = IF v = w THEN p ELSE piece[v]
    BY DEF TypeOK
<1>2. \A q \in Pieces : status'[q] = IF q = p THEN "active" ELSE status[q]
    BY DEF TypeOK
<1>3. \A v \in Conns : Holding(v)' <=> v = w \/ Holding(v)
    BY <1>1 DEF Holding
<1>4. ~Holding(w) /\ \A v \in Conns : Holding(v) => piece[v] # p
    BY <1>0 DEF Holding, Ownership, IdleFree
<1>5. OneWorkerPerPiece'
    <2>1. \A u, v \in Conns : Holding(u)' /\ Holding(v)' /\ piece'[u] = piece'[v] => u = v
        BY <1>1, <1>3, <1>4 DEF Ownership, OneWorkerPerPiece
    <2>2. ASSUME NEW q \in Pieces, status'[q] = "active"
          PROVE  \E v \in Conns : Holding(v)' /\ piece'[v] = q
        <3>1. CASE q = p
            BY <1>1, <1>3, <3>1
        <3>2. CASE q # p
            <4>1. PICK v \in Conns : Holding(v) /\ piece[v] = q
                BY <1>2, <2>2, <3>2 DEF Ownership, OneWorkerPerPiece
            <4> QED BY <1>1, <1>3, <1>4, <4>1
        <3> QED BY <3>1, <3>2
    <2>3. \A q \in Pieces : status'[q] = "complete" => Complete(q)'
        BY <1>2 DEF Ownership, OneWorkerPerPiece, Complete
    <2> QED BY <2>1, <2>2, <2>3 DEF OneWorkerPerPiece
<1>6. IdleFree'
    BY <1>1, <1>2, <1>3 DEF Ownership, IdleFree
<1>7. Ending' /\ IdleServed'
    BY <1>1 DEF Ownership, Ending, IdleServed
<1>8. result = "none"
    BY DEF Ownership, Finished
<1>9. Finished' /\ SuccessMeansComplete'
    BY <1>8 DEF Finished, SuccessMeansComplete
<1> QED BY <1>5, <1>6, <1>7, <1>9 DEF Ownership

\* What an error of an attempt can lead to.
LEMMA FailMoves ==
    ASSUME TypeOK, NEW w \in Conns, NEW err, Fail(w, err)
    PROVE  \/ /\ pc' = [pc EXCEPT ![w] = IF InRange(w) THEN "range" ELSE "attempt"]
              /\ \E u \in 1..Urls : url' = [url EXCEPT ![w] = u]
              /\ \E r \in 0..MaxRetries : retry' = [retry EXCEPT ![w] = r]
              /\ UNCHANGED <<status, owner, cancelled, dlErr>>
           \/ /\ pc' = [pc EXCEPT ![w] = IF InRange(w) THEN "done" ELSE "putBack"]
              /\ cancelled' = TRUE /\ dlErr' \in {"none", "noRange", "other"}
              /\ UNCHANGED <<status, owner, url, retry>>
<1>1. url[w] \in 1..Urls /\ retry[w] \in 0..MaxRetries /\ Urls \in Nat /\ MaxRetries \in Nat
    BY PieceAssumption DEF TypeOK
<1>2. ASSUME NEW e \in {"noRange", "other"}, GiveUp(w, e)
      PROVE  /\ pc' = [pc EXCEPT ![w] = IF InRange(w) THEN "done" ELSE "putBack"]
             /\ cancelled' = TRUE /\ dlErr' \in {"none", "noRange", "other"}
             /\ UNCHANGED <<status, owner, url, retry>>
    BY <1>2 DEF GiveUp, Ends, TypeOK
<1>3. ASSUME NEW u \in 1..Urls, NEW r \in 0..MaxRetries, AttemptAgain(w, u, r)
      PROVE  /\ pc' = [pc EXCEPT ![w] = IF InRange(w) THEN "range" ELSE "attempt"]
             /\ \E v \in 1..Urls : url' = [url EXCEPT ![w] = v]
             /\ \E k \in 0..MaxRetries : retry' = [retry EXCEPT ![w] = k]
             /\ UNCHANGED <<status, owner, cancelled, dlErr>>
    BY <1>3 DEF AttemptAgain
<1>4. CASE cancelled /\ GiveUp(w, "other")
    BY <1>2, <1>4
<1>5. CASE Retries(w, err) /\ AttemptAgain(w, url[w], retry[w] + 1)
    <2>1. retry[w] + 1 \in 0..MaxRetries
        BY <1>1, <1>5 DEF Retries
    <2> QED BY <1>1, <1>3, <1>5, <2>1
<1>6. CASE url[w] < Urls /\ AttemptAgain(w, url[w] + 1, 0)
    <2>1. url[w] + 1 \in 1..Urls /\ 0 \in 0..MaxRetries
        BY <1>1, <1>6
    <2> QED BY <1>3, <1>6, <2>1
<1>7. CASE GiveUp(w, IF err = "noRange" THEN err ELSE "other")
    <2>1. (IF err = "noRange" THEN err ELSE "other") \in {"noRange", "other"}
        OBVIOUS
    <2> QED BY <1>2, <1>7, <2>1
<1> QED BY <1>4, <1>5, <1>6, <1>7 DEF Fail

\* Whatever it leads to, the worker keeps its piece until it puts it back.
LEMMA FailKeepsOwners ==
    ASSUME TypeOK, Ownership, NEW w \in Conns, NEW err, Fail(w, err),
           pc[w] \in {"attempt", "request", "body", "range", "rangeBody"},
           \A p \in Pieces : have[p] = Blocks(p) => have'[p] = Blocks(p),
           UNCHANGED <<result, piece>>
    PROVE  Ownership'
<1> DEFINE a == IF InRange(w) THEN "range" ELSE "attempt"
           e == IF InRange(w) THEN "done" ELSE "putBack"
<1>1. CASE pc' = [pc EXCEPT ![w] = a] /\ UNCHANGED <<status, cancelled>>
    <2>1. (pc[w] \in Owning <=> a \in Owning) /\ a \notin {"putBack", "disown", "done", "steal"}
        BY DEF InRange, Owning
    <2> HIDE DEF a
    <2> QED BY <1>1, <2>1, StepKeepsOwners
<1>2. CASE pc' = [pc EXCEPT ![w] = e] /\ cancelled' = TRUE /\ UNCHANGED status
    <2>1. pc[w] \in Owning <=> e \in Owning
        BY DEF InRange, Owning
    <2> HIDE DEF e
    <2> QED BY <1>2, <2>1, StepKeepsOwners
<1> QED BY <1>1, <1>2, FailMoves

-----------------------------------------------------------------------------
(* The steps of a worker.                                                   *)

\* A step of one worker leaves the blocks and ranges of the others alone.
LEMMA StepKeepsPlaces ==
    ASSUME TypeOK, Placed, NEW w \in Conns, PlacedAt(w)',
           \A v \in Conns \ {w} :
              /\ pc'[v] = pc[v] /\ piece'[v] = piece[v] /\ blk'[v] = blk[v]
              /\ from'[v] = from[v] /\ off'[v] = off[v] /\ last'[v] = last[v]
    PROVE  Placed'
<1>1. ASSUME NEW v \in Conns \ {w} PROVE PlacedAt(v)'
    <2>1. PlacedAt(v)
        BY DEF Placed
    <2> QED BY <2>1 DEF PlacedAt
<1> QED BY <1>1 DEF Placed

LEMMA FailKeepsInv ==
    ASSUME IInv, NEW w \in Conns, NEW err, Fail(w, err),
           pc[w] \in {"attempt", "request", "body", "range", "rangeBody"},
           Bitmaps', \A p \in Pieces : have[p] \subseteq have'[p],
           UNCHANGED <<written, result, piece, blk, from, off, last>>
    PROVE  IInv'
<1> USE DEF IInv
<1>1. Ownership'
    <2>1. \A p \in Pieces : have[p] = Blocks(p) => have'[p] = Blocks(p)
        BY DEF Bitmaps
    <2> QED BY <2>1, FailKeepsOwners
<1>2. PICK b \in {"attempt", "range", "done", "putBack"} :
         pc' = [pc EXCEPT ![w] = b] /\ (b = "range" => InRange(w))
    BY FailMoves
<1>3. TypeOK'
    <2>1. status' \in [Pieces -> {"idle", "active", "complete"}]
        BY FailMoves DEF TypeOK
    <2>2. owner' \in [Pieces -> Conns \cup {NoOne}]
        BY FailMoves DEF TypeOK
    <2>3. cancelled' \in BOOLEAN
        BY FailMoves, Zenon DEF TypeOK
    <2>4. dlErr' \in {"none", "noRange", "other"}
        BY FailMoves DEF TypeOK
    <2>5. url' \in [Conns -> 1..Urls] /\ retry' \in [Conns -> 0..MaxRetries]
        <3>1. \/ UNCHANGED <<url, retry>>
              \/ /\ \E u \in 1..Urls : url' = [url EXCEPT ![w] = u]
                 /\ \E r \in 0..MaxRetries : retry' = [retry EXCEPT ![w] = r]
            BY FailMoves
        <3> QED BY <3>1 DEF TypeOK
    <2>6. pc' \in [Conns -> {"top", "get", "steal", "sem", "yield", "yielded", "putBack", "disown",
                             "throttled", "attempt", "request", "body",
                             "rangeSem", "range", "rangeBody", "done"}]
        BY <1>2 DEF TypeOK
    <2> QED BY <2>1, <2>2, <2>3, <2>4, <2>5, <2>6 DEF TypeOK, Bitmaps
<1>4. Placed'
    <2>1. PlacedAt(w)'
        <3>1. PlacedAt(w) /\ pc'[w] = b
            BY <1>2 DEF Placed, TypeOK
        <3> QED BY <1>2, <3>1 DEF PlacedAt, InRange
    <2>2. \A v \in Conns \ {w} : pc'[v] = pc[v]
        BY <1>2 DEF TypeOK
    <2> QED BY <2>1, <2>2, StepKeepsPlaces
<1> QED BY <1>1, <1>3, <1>4

\* What a worker at the top of its loop or at the semaphore does.
LEMMA LoopKeepsInv ==
    ASSUME IInv, NEW w \in Conns,
           \/ Leaves(w) \/ GoesOn(w) \/ GetPieceForDownload(w) \/ TryStealPiece(w)
           \/ Admitted(w) \/ Refused(w) \/ Unthrottled(w) \/ PutBack(w) \/ Disown(w)
    PROVE  IInv'
<1> USE DEF IInv, Step, shared
<1>0. PlacedAt(w) /\ TypeOK /\ piece[w] \in Pieces
    BY DEF Placed, TypeOK
<1>1. CASE Leaves(w)
    <2> USE <1>1 DEF Leaves
    <2>1. TypeOK'
        BY DEF TypeOK
    <2>2. Placed'
        BY <1>0, StepKeepsPlaces DEF TypeOK, PlacedAt
    <2>3. Ownership'
        BY StepKeepsOwners DEF Owning
    <2> QED BY <2>1, <2>2, <2>3
<1>2. CASE GetPieceForDownload(w)
    <2>1. CASE /\ Idle = {} /\ Step(w, "get", "steal")
               /\ UNCHANGED <<shared, piece, blk, from, off, last, url, retry>>
        <3>1. TypeOK'
            BY <2>1 DEF TypeOK
        <3>2. Placed'
            BY <1>0, <2>1, StepKeepsPlaces DEF TypeOK, PlacedAt
        <3>3. Ownership'
            BY <2>1, StepKeepsOwners DEF Owning
        <3> QED BY <3>1, <3>2, <3>3
    <2>2. CASE Step(w, "get", "sem")
        <3> USE <1>2, <2>2 DEF GetPieceForDownload
        <3>0. PICK p \in Idle : /\ status' = [status EXCEPT ![p] = "active"]
                                /\ owner' = [owner EXCEPT ![p] = w]
                                /\ piece' = [piece EXCEPT ![w] = p]
            BY DEF TypeOK
        <3>1. TypeOK'
            BY <3>0 DEF TypeOK, Idle
        <3>2. Placed'
            BY <1>0, <3>0, StepKeepsPlaces DEF TypeOK, PlacedAt
        <3>3. Ownership'
            BY <3>0, StepTakes
        <3> QED BY <3>1, <3>2, <3>3
    <2> QED BY <1>2, <2>1, <2>2 DEF GetPieceForDownload
<1>3. CASE TryStealPiece(w)
    <2>1. /\ pc[w] = "steal"
          /\ \A p \in Pieces : used'[p] \subseteq used[p]
          /\ used' \in [Pieces -> SUBSET Nat]
          /\ UNCHANGED <<have, status, owner, written, cancelled, dlErr, result>>
          /\ UNCHANGED <<blk, off, url, retry>>
          /\ \/ pc' = [pc EXCEPT ![w] = "done"] /\ UNCHANGED <<piece, from, last>>
             \/ \E p \in Pieces :
                   /\ Stealable(p)
                   /\ pc' = [pc EXCEPT ![w] = "rangeSem"]
                   /\ piece' = [piece EXCEPT ![w] = p]
                   /\ from' = [from EXCEPT ![w] = BlockStart(p, StealStart(p))]
                   /\ last' = [last EXCEPT ![w] = PieceEnd(p)]
        BY <1>3 DEF TryStealPiece, UnsetUseBit, TypeOK
    <2>2. CASE pc' = [pc EXCEPT ![w] = "done"] /\ UNCHANGED <<piece, from, last>>
        <3>1. TypeOK'
            BY <2>1, <2>2 DEF TypeOK
        <3>2. Placed'
            BY <1>0, <2>1, <2>2, StepKeepsPlaces DEF TypeOK, PlacedAt
        <3>3. Ownership'
            BY <2>1, <2>2, StepKeepsOwners DEF Owning
        <3> QED BY <3>1, <3>2, <3>3
    <2>3. ASSUME NEW p \in Pieces, Stealable(p),
                 pc' = [pc EXCEPT ![w] = "rangeSem"],
                 piece' = [piece EXCEPT ![w] = p],
                 from' = [from EXCEPT ![w] = BlockStart(p, StealStart(p))],
                 last' = [last EXCEPT ![w] = PieceEnd(p)]
          PROVE  IInv'
        <3>0. StealStart(p) \in Blocks(p)
            BY <2>3, StealStartIsBlock
        <3>1. /\ BlockStart(p, StealStart(p)) \in 0..FileSize
              /\ PieceEnd(p) \in 0..(FileSize - 1)
            <4>1. /\ BlockStart(p, StealStart(p)) \in Nat /\ BlockLen(p, StealStart(p)) \in Nat
                  /\ BlockStart(p, StealStart(p)) + BlockLen(p, StealStart(p))
                     <= PieceStart(p) + PieceLen(p)
                BY <3>0, BlockGeometry
            <4>2. /\ PieceStart(p) \in Nat /\ PieceLen(p) \in Nat /\ FileSize \in Nat
                  /\ PieceStart(p) + PieceLen(p) <= FileSize
                  /\ PieceEnd(p) \in 0..(FileSize - 1)
                BY PieceGeometry, PieceAssumption
            <4> QED BY <4>1, <4>2
        <3>2. TypeOK'
            BY <2>1, <2>3, <3>1 DEF TypeOK
        <3>3. Placed'
            <4>1. PlacedAt(w)'
                <5>1. pc'[w] = "rangeSem" /\ piece'[w] = p /\ last'[w] = PieceEnd(p)
                      /\ from'[w] = BlockStart(p, StealStart(p))
                    BY <2>3 DEF TypeOK
                <5> QED BY <3>0, <5>1 DEF PlacedAt
            <4> QED BY <2>1, <2>3, <4>1, StepKeepsPlaces DEF TypeOK
        <3>4. Ownership'
            <4>1. \A v \in Conns : pc[v] \in Owning => piece'[v] = piece[v]
                BY <2>1, <2>3 DEF Owning, TypeOK
            <4> QED BY <2>1, <2>3, <4>1, StepKeepsOwners DEF Owning
        <3> QED BY <3>2, <3>3, <3>4
    <2> QED BY <2>1, <2>2, <2>3
<1>4. CASE Admitted(w)
    <2> USE <1>4 DEF Admitted, PieceAdmitted, RangeAdmitted
    <2>0. EndOffset(piece[w]) \in 0..(FileSize - 1)
        <3>1. PieceEnd(piece[w]) \in 0..(FileSize - 1) /\ FileSize - 1 \in 0..(FileSize - 1)
            BY <1>0, PieceGeometry, PieceAssumption
        <3> QED BY <3>1 DEF EndOffset
    <2>1. TypeOK'
        <3>1. 1 \in 1..Urls /\ 0 \in 0..MaxRetries
            BY PieceAssumption
        <3>2. last' \in [Conns -> 0..(FileSize - 1)]
            BY <2>0 DEF TypeOK
        <3> QED BY <3>1, <3>2 DEF TypeOK
    <2>2. Placed'
        <3>1. PlacedAt(w)
            BY DEF IInv, Placed
        <3>2. PlacedAt(w)'
            BY <3>1 DEF PlacedAt, TypeOK
        <3>3. \A v \in Conns \ {w} :
                 /\ pc'[v] = pc[v] /\ piece'[v] = piece[v] /\ blk'[v] = blk[v]
                 /\ from'[v] = from[v] /\ off'[v] = off[v] /\ last'[v] = last[v]
            BY DEF TypeOK
        <3> QED BY <3>2, <3>3, StepKeepsPlaces
    <2>3. Ownership'
        <3>1. CASE PieceAdmitted(w)
            BY <3>1, StepKeepsOwners DEF Owning
        <3>2. CASE RangeAdmitted(w)
            BY <3>2, StepKeepsOwners DEF Owning
        <3> QED BY <3>1, <3>2
    <2> QED BY <2>1, <2>2, <2>3
<1>5. CASE Refused(w)
    <2>0. /\ UNCHANGED <<have, used, written, cancelled, dlErr, result>>
          /\ UNCHANGED <<piece, blk, from, off, last, url, retry>>
        BY <1>5 DEF Refused
    <2>1. PICK b \in {"yield", "putBack", "throttled", "done"} :
             /\ pc' = [pc EXCEPT ![w] = b] /\ (b \in {"putBack", "done"} => cancelled)
             /\ IF b \in {"yield", "putBack"} THEN pc[w] = "sem" ELSE pc[w] = "rangeSem"
        BY <1>5 DEF Refused
    <2>2. UNCHANGED <<status, owner>>
        BY <1>5 DEF Refused
    <2>3. TypeOK'
        BY <1>0, <2>0, <2>1, <2>2 DEF TypeOK
    <2>4. Placed'
        BY <1>0, <2>0, <2>1, StepKeepsPlaces DEF TypeOK, PlacedAt
    <2>5. Ownership'
        BY <2>0, <2>1, <2>2, StepKeepsOwners DEF Owning
    <2> QED BY <2>3, <2>4, <2>5
<1>6. CASE Unthrottled(w) \/ GoesOn(w)
    <2> USE <1>6 DEF Unthrottled, GoesOn
    <2>1. TypeOK'
        BY DEF TypeOK
    <2>2. Placed'
        BY <1>0, StepKeepsPlaces DEF TypeOK, PlacedAt
    <2>3. Ownership'
        BY StepKeepsOwners DEF Owning
    <2> QED BY <2>1, <2>2, <2>3
<1>7. CASE PutBack(w)
    <2>1. TypeOK'
        BY <1>7 DEF PutBack, TypeOK
    <2>2. Placed'
        BY <1>0, <1>7, StepKeepsPlaces DEF PutBack, TypeOK, PlacedAt
    <2> QED BY <1>7, <2>1, <2>2, StepPutsBack
<1>8. CASE Disown(w)
    <2>1. TypeOK'
        BY <1>8 DEF Disown, TypeOK
    <2>2. Placed'
        BY <1>0, <1>8, StepKeepsPlaces DEF Disown, TypeOK, PlacedAt
    <2>3. pc[w] = "disown" => cancelled
        BY DEF Ownership, Ending
    <2>4. Ownership'
        BY <1>8, <2>3, StepKeepsOwners DEF Disown, Owning
    <2> QED BY <2>1, <2>2, <2>4
<1> QED BY <1>1, <1>2, <1>3, <1>4, <1>5, <1>6, <1>7, <1>8

\* Setting and releasing bits of one piece's blocks.
LEMMA BitsOfOnePiece ==
    ASSUME TypeOK, NEW p \in Pieces, NEW S, S \subseteq Blocks(p), NEW u, u \subseteq Blocks(p),
           have' = [have EXCEPT ![p] = SetBit(p, S)], used' = [used EXCEPT ![p] = u]
    PROVE  /\ Bitmaps' /\ \A q \in Pieces : have[q] \subseteq have'[q]
           /\ \A q \in Pieces : have[q] = Blocks(q) => have'[q] = Blocks(q)
           /\ have'[p] = SetBit(p, S)
<1>1. Blocks(p) \subseteq Nat
    BY DEF Blocks
<1>2. /\ have \in [Pieces -> SUBSET Nat] /\ used \in [Pieces -> SUBSET Nat]
      /\ \A q \in Pieces : have[q] \subseteq Blocks(q) /\ used[q] \subseteq Blocks(q)
    BY DEF TypeOK
<1> QED BY <1>1, <1>2 DEF Bitmaps, SetBit

\* The blocks a stolen range has reached are blocks of the piece.
LEMMA CoveredInPiece ==
    ASSUME TypeOK, NEW w \in Conns, PlacedAt(w), pc[w] = "rangeBody"
    PROVE  Covered(w) \subseteq Blocks(piece[w])
<1>1. piece[w] \in Pieces /\ off[w] \in Nat /\ from[w] <= off[w]
    BY DEF TypeOK, PlacedAt
<1>2. PICK k \in Blocks(piece[w]) : from[w] = BlockStart(piece[w], k)
    BY DEF PlacedAt
<1>3. BlockIndexForOffset(piece[w], from[w]) = k
    BY <1>1, <1>2, BlockIndexOfStart
<1>4. CASE off[w] = from[w]
    BY <1>4 DEF Covered
<1>5. CASE off[w] # from[w]
    <2>1. /\ from[w] \in Nat /\ PieceStart(piece[w]) <= from[w]
          /\ PieceStart(piece[w]) \in Nat /\ k \in Nat
        BY <1>1, <1>2, BlockGeometry, PieceGeometry
    <2>2. off[w] - 1 \in Nat /\ PieceStart(piece[w]) <= off[w] - 1
        BY <1>1, <1>5, <2>1
    <2>3. BlockIndexForOffset(piece[w], off[w] - 1) \in Blocks(piece[w])
        BY <1>1, <2>2, BlockIndexInPiece
    <2>4. NumBlocks(piece[w]) \in Nat
        BY <1>1, <1>2, BlockGeometry
    <2> QED BY <1>3, <1>5, <2>1, <2>3, <2>4 DEF Covered, Blocks
<1> QED BY <1>4, <1>5

\* The attempt at a piece, up to the response.
LEMMA AttemptKeepsInv ==
    ASSUME IInv, NEW w \in Conns,
           PieceDone(w) \/ AttemptCancelled(w) \/ NextUnusedBlock(w) \/ Request(w)
    PROVE  IInv'
<1> USE DEF IInv, Step, shared
<1>0. PlacedAt(w) /\ TypeOK /\ piece[w] \in Pieces /\ Bitmaps
    BY DEF Placed, TypeOK, Bitmaps
<1>1. CASE PieceDone(w)
    <2> USE <1>1 DEF PieceDone
    <2>1. TypeOK'
        BY DEF TypeOK
    <2>2. Placed'
        BY <1>0, StepKeepsPlaces DEF TypeOK, PlacedAt
    <2>3. Ownership'
        BY StepCompletes DEF Complete
    <2> QED BY <2>1, <2>2, <2>3
<1>2. CASE AttemptCancelled(w)
    <2>1. Fail(w, "error")
        BY <1>2 DEF AttemptCancelled, Fail
    <2>2. pc[w] = "attempt" /\ UNCHANGED <<have, used>> /\ Bitmaps'
        BY <1>0, <1>2 DEF AttemptCancelled, Bitmaps
    <2> QED BY <1>2, <2>1, <2>2, FailKeepsInv DEF AttemptCancelled
<1>3. CASE NextUnusedBlock(w)
    <2>1. PICK i \in FirstUnused(piece[w], have[piece[w]], used[piece[w]]) :
             /\ used' = [used EXCEPT ![piece[w]] = SetUseBit(piece[w], {i})]
             /\ blk' = [blk EXCEPT ![w] = i]
             /\ off' = [off EXCEPT ![w] = BlockStart(piece[w], i)]
        BY <1>3 DEF NextUnusedBlock
    <2>2. i \in Blocks(piece[w])
        BY DEF FirstUnused
    <2>3. BlockStart(piece[w], i) \in 0..FileSize /\ i \in Nat
        <3>1. /\ i \in Nat /\ BlockStart(piece[w], i) \in Nat /\ BlockLen(piece[w], i) \in Nat
              /\ BlockStart(piece[w], i) + BlockLen(piece[w], i)
                 <= PieceStart(piece[w]) + PieceLen(piece[w])
            BY <1>0, <2>2, BlockGeometry
        <3>2. /\ PieceStart(piece[w]) + PieceLen(piece[w]) <= FileSize
              /\ PieceStart(piece[w]) \in Nat /\ PieceLen(piece[w]) \in Nat /\ FileSize \in Nat
            BY <1>0, PieceGeometry, PieceAssumption
        <3> QED BY <3>1, <3>2
    <2>4. /\ pc[w] = "attempt" /\ pc' = [pc EXCEPT ![w] = "request"]
          /\ UNCHANGED <<have, status, owner, written, cancelled, dlErr, result>>
          /\ UNCHANGED <<piece, from, last, url, retry>>
        BY <1>3 DEF NextUnusedBlock
    <2>5. TypeOK'
        <3>1. used' \in [Pieces -> SUBSET Nat] /\ \A p \in Pieces : used'[p] \subseteq Blocks(p)
            BY <1>0, <2>1, <2>2, <2>3 DEF SetUseBit, Bitmaps
        <3>2. blk' \in [Conns -> Nat] /\ off' \in [Conns -> 0..FileSize]
            BY <2>1, <2>3 DEF TypeOK
        <3> QED BY <2>4, <3>1, <3>2 DEF TypeOK
    <2>6. Placed'
        <3>1. PlacedAt(w)'
            <4>1. /\ pc'[w] = "request" /\ piece'[w] = piece[w] /\ blk'[w] = i
                  /\ off'[w] = BlockStart(piece[w], i)
                BY <2>1, <2>4 DEF TypeOK
            <4> QED BY <2>2, <2>3, <4>1 DEF PlacedAt
        <3> QED BY <2>1, <2>4, <3>1, StepKeepsPlaces DEF TypeOK
    <2>7. Ownership'
        BY <2>4, StepKeepsOwners DEF Owning
    <2> QED BY <2>5, <2>6, <2>7
<1>4. CASE Request(w)
    <2>1. CASE /\ Step(w, "request", "body")
               /\ UNCHANGED <<shared, piece, blk, from, off, last, url, retry>>
        <3>1. TypeOK'
            BY <2>1 DEF TypeOK
        <3>2. Placed'
            BY <1>0, <2>1, StepKeepsPlaces DEF TypeOK, PlacedAt
        <3>3. Ownership'
            BY <2>1, StepKeepsOwners DEF Owning
        <3> QED BY <3>1, <3>2, <3>3
    <2>2. CASE /\ pc[w] = "request"
               /\ \E err \in Errors : Fail(w, err)
               /\ CancelBlock(w)
               /\ UNCHANGED <<have, written, result, piece, blk, from, off, last>>
        <3>1. Bitmaps'
            BY <1>0, <2>2 DEF CancelBlock, UnsetUseBit, Bitmaps
        <3> QED BY <2>2, <3>1, FailKeepsInv
    <2> QED BY <1>4, <2>1, <2>2 DEF Request
<1> QED BY <1>1, <1>2, <1>3, <1>4

\* The response to the request for a piece.
LEMMA ReadKeepsInv ==
    ASSUME IInv, NEW w \in Conns, NEW n \in ReadSizes, Read(w, n)
    PROVE  IInv'
<1> USE DEF IInv
<1> DEFINE p == piece[w]
           o == off[w] + n
           u == UnsetUseBit(p, {blk[w]})
<1>0. PlacedAt(w) /\ TypeOK /\ p \in Pieces /\ Bitmaps
    BY DEF Placed, TypeOK, Bitmaps
<1>1. /\ pc[w] = "body" /\ o - 1 <= last[w]
      /\ written' = written \cup off[w]..(o - 1)
      /\ off' = [off EXCEPT ![w] = o]
      /\ UNCHANGED <<owner, cancelled, dlErr, result, piece, from, last, url, retry>>
    BY DEF Read
<1>2. o \in 0..FileSize /\ off[w] \in Nat /\ n \in Nat /\ off[w]..(o - 1) \subseteq 0..(FileSize - 1)
    <2>1. last[w] \in 0..(FileSize - 1) /\ off[w] \in Nat /\ n \in Nat /\ FileSize \in Nat
        BY PieceAssumption DEF TypeOK
    <2> QED BY <1>1, <2>1
<1>3. written' \subseteq 0..(FileSize - 1) /\ off' \in [Conns -> 0..FileSize]
    BY <1>1, <1>2 DEF TypeOK
<1>4. blk[w] \in Blocks(p) /\ BlockStart(p, blk[w]) <= off[w] /\ BlockStart(p, blk[w]) \in Nat
    BY <1>0, <1>1, BlockGeometry DEF PlacedAt
<1>5. off'[w] = o /\ BlockStart(p, blk[w]) <= o
    BY <1>1, <1>2, <1>4 DEF TypeOK
<1> HIDE DEF o, p
<1>6. CASE UNCHANGED <<have, used, status, pc, blk>>
    <2>1. TypeOK'
        BY <1>1, <1>3, <1>6 DEF TypeOK
    <2>2. Placed'
        <3>1. PlacedAt(w)'
            BY <1>0, <1>1, <1>5, <1>6 DEF PlacedAt, p
        <3> QED BY <1>1, <1>6, <3>1, StepKeepsPlaces DEF TypeOK
    <2>3. Ownership'
        <3>1. pc' = [pc EXCEPT ![w] = "body"]
            BY <1>1, <1>6 DEF TypeOK
        <3> QED BY <1>1, <1>6, <3>1, StepKeepsOwners DEF Owning
    <2> QED BY <2>1, <2>2, <2>3
<1>7. CASE BlockEnds(w, o)
    <2>0. u \subseteq Blocks(p) /\ {blk[w]} \subseteq Blocks(p)
        BY <1>0, <1>4 DEF UnsetUseBit, Bitmaps
    <2>1. have' = [have EXCEPT ![p] = SetBit(p, {blk[w]})]
        BY <1>7 DEF BlockEnds, p
    <2> DEFINE h == SetBit(p, {blk[w]})
    <2>2. CASE /\ h = Blocks(p)
               /\ status' = [status EXCEPT ![p] = "complete"]
               /\ used' = [used EXCEPT ![p] = u]
               /\ pc' = [pc EXCEPT ![w] = "top"] /\ UNCHANGED blk
        <3>1. /\ Bitmaps' /\ have'[p] = Blocks(p)
              /\ \A q \in Pieces : have[q] = Blocks(q) => have'[q] = Blocks(q)
            BY <1>0, <2>0, <2>1, <2>2, BitsOfOnePiece
        <3>2. TypeOK'
            BY <1>1, <1>3, <2>2, <3>1 DEF TypeOK, Bitmaps
        <3>3. Placed'
            BY <1>0, <1>1, <2>2, StepKeepsPlaces DEF TypeOK, PlacedAt
        <3>4. Ownership'
            BY <1>1, <2>2, <3>1, StepCompletes DEF p
        <3> QED BY <3>2, <3>3, <3>4
    <2>3. CASE /\ used' = [used EXCEPT ![p] = u]
               /\ pc' = [pc EXCEPT ![w] = "attempt"] /\ UNCHANGED <<status, blk>>
        <3>1. Bitmaps' /\ \A q \in Pieces : have[q] = Blocks(q) => have'[q] = Blocks(q)
            BY <1>0, <2>0, <2>1, BitsOfOnePiece, <2>3
        <3>2. TypeOK'
            BY <1>1, <1>3, <2>3, <3>1 DEF TypeOK, Bitmaps
        <3>3. Placed'
            BY <1>0, <1>1, <2>3, StepKeepsPlaces DEF TypeOK, PlacedAt
        <3>4. Ownership'
            BY <1>1, <2>3, <3>1, StepKeepsOwners DEF Owning
        <3> QED BY <3>2, <3>3, <3>4
    <2>4. ASSUME NEW i \in FirstUnused(p, h, u),
                 used' = [used EXCEPT ![p] = u \cup {i}], UNCHANGED status,
                 IF Continues(BlockStart(p, i), o)
                 THEN blk' = [blk EXCEPT ![w] = i] /\ UNCHANGED pc
                 ELSE pc' = [pc EXCEPT ![w] = "attempt"] /\ UNCHANGED blk
          PROVE  IInv'
        <3>0. i \in Blocks(p) /\ i \in Nat /\ u \cup {i} \subseteq Blocks(p)
            <4> HIDE DEF h, u
            <4>1. i \in Blocks(p)
                BY DEF FirstUnused
            <4> QED BY <1>0, <2>0, <4>1, BlockGeometry
        <3>1. Bitmaps' /\ \A q \in Pieces : have[q] = Blocks(q) => have'[q] = Blocks(q)
            BY <1>0, <2>0, <2>1, <2>4, <3>0, BitsOfOnePiece
        <3>2. PICK b \in {"body", "attempt"} :
                 /\ pc' = [pc EXCEPT ![w] = b]
                 /\ \/ b = "body" /\ BlockStart(p, i) = o /\ blk' = [blk EXCEPT ![w] = i]
                    \/ b = "attempt" /\ UNCHANGED blk
            <4>1. CASE Continues(BlockStart(p, i), o)
                <5>1. pc' = [pc EXCEPT ![w] = "body"]
                    BY <1>1, <2>4, <4>1 DEF TypeOK
                <5> QED BY <2>4, <4>1, <5>1 DEF Continues
            <4>2. CASE ~Continues(BlockStart(p, i), o)
                BY <2>4, <4>2
            <4> QED BY <4>1, <4>2
        <3>3. TypeOK'
            <4>1. blk' \in [Conns -> Nat]
                BY <3>0, <3>2 DEF TypeOK
            <4>2. pc' \in [Conns -> {"top", "get", "steal", "sem", "yield", "yielded", "putBack",
                                     "disown", "throttled", "attempt", "request", "body",
                                     "rangeSem", "range", "rangeBody", "done"}]
                BY <3>2 DEF TypeOK
            <4> HIDE <3>2
            <4>3. UNCHANGED status
                BY <2>4
            <4> QED BY <1>1, <1>3, <3>1, <4>1, <4>2, <4>3 DEF TypeOK, Bitmaps
        <3>4. Placed'
            <4>1. PlacedAt(w)'
                <5>1. CASE b = "body"
                    <6>1. pc'[w] = "body" /\ blk'[w] = i /\ piece'[w] = p /\ off'[w] = o
                        BY <1>1, <1>5, <3>2, <5>1 DEF TypeOK, p
                    <6>2. BlockStart(p, i) <= o
                        BY <1>2, <3>2, <5>1 DEF o
                    <6> QED BY <3>0, <6>1, <6>2 DEF PlacedAt
                <5>2. CASE b = "attempt"
                    BY <3>2, <5>2 DEF PlacedAt, TypeOK
                <5> QED BY <5>1, <5>2
            <4> QED BY <1>1, <3>2, <4>1, StepKeepsPlaces DEF TypeOK
        <3>5. Ownership'
            BY <1>1, <2>4, <3>1, <3>2, StepKeepsOwners DEF Owning
        <3> QED BY <3>3, <3>4, <3>5
    <2> QED BY <1>7, <2>2, <2>3, <2>4 DEF BlockEnds, p
<1> QED BY <1>6, <1>7 DEF Read, o

\* A response that fails or ends early, and everything about stolen ranges.
LEMMA RangeKeepsInv ==
    ASSUME IInv, NEW w \in Conns,
           \/ ReadFails(w) \/ ShortRead(w) \/ RangeRequest(w)
           \/ (\E n \in ReadSizes : RangeRead(w, n)) \/ RangeFails(w) \/ RangeEOF(w)
    PROVE  IInv'
<1> USE DEF IInv
<1>0. PlacedAt(w) /\ TypeOK /\ piece[w] \in Pieces /\ Bitmaps
    BY DEF Placed, TypeOK, Bitmaps
<1>1. CASE ReadFails(w)
    <2>1. Bitmaps'
        BY <1>0, <1>1 DEF ReadFails, CancelBlock, UnsetUseBit, Bitmaps
    <2> QED BY <1>1, <2>1, FailKeepsInv DEF ReadFails
<1>2. CASE ShortRead(w)
    <2>1. Bitmaps'
        BY <1>0, <1>2 DEF ShortRead, Bitmaps
    <2> QED BY <1>2, <2>1, FailKeepsInv DEF ShortRead
<1>3. CASE RangeRequest(w)
    <2>1. CASE /\ Step(w, "range", "rangeBody")
               /\ off' = [off EXCEPT ![w] = from[w]]
               /\ UNCHANGED <<shared, piece, blk, from, last, url, retry>>
        <3> USE <2>1 DEF Step, shared
        <3>1. TypeOK'
            BY DEF TypeOK
        <3>2. Placed'
            <4>1. PlacedAt(w)'
                <5>1. /\ pc[w] = "range" /\ pc'[w] = "rangeBody" /\ off'[w] = from[w]
                      /\ from[w] \in 0..FileSize /\ FileSize \in Nat
                    BY PieceAssumption DEF TypeOK
                <5> QED BY <1>0, <5>1 DEF PlacedAt
            <4> QED BY <4>1, StepKeepsPlaces DEF TypeOK
        <3>3. Ownership'
            BY StepKeepsOwners DEF Owning
        <3> QED BY <3>1, <3>2, <3>3
    <2>2. CASE /\ pc[w] = "range"
               /\ \E err \in Errors : Fail(w, err)
               /\ UNCHANGED <<have, used, written, result, piece, blk, from, off, last>>
        <3>1. Bitmaps'
            BY <1>0, <2>2 DEF Bitmaps
        <3> QED BY <2>2, <3>1, FailKeepsInv
    <2> QED BY <1>3, <2>1, <2>2 DEF RangeRequest
<1>4. ASSUME NEW n \in ReadSizes, RangeRead(w, n) PROVE IInv'
    <2>1. /\ pc[w] = "rangeBody" /\ off[w] + n - 1 <= last[w]
          /\ written' = written \cup off[w]..(off[w] + n - 1)
          /\ off' = [off EXCEPT ![w] = off[w] + n]
          /\ UNCHANGED <<have, used, status, owner, cancelled, dlErr, result>>
          /\ UNCHANGED <<pc, piece, blk, from, last, url, retry>>
        BY <1>4 DEF RangeRead
    <2>2. /\ last[w] \in 0..(FileSize - 1) /\ off[w] \in Nat /\ n \in Nat /\ FileSize \in Nat
          /\ from[w] \in Nat
        BY PieceAssumption DEF TypeOK
    <2>3. off[w] + n \in 0..FileSize /\ off[w]..(off[w] + n - 1) \subseteq 0..(FileSize - 1)
        BY <2>1, <2>2
    <2>4. TypeOK'
        BY <2>1, <2>3 DEF TypeOK
    <2>5. Placed'
        <3>1. PlacedAt(w)'
            <4>1. from[w] <= off[w] + n /\ off'[w] = off[w] + n
                BY <1>0, <2>1, <2>2 DEF PlacedAt, TypeOK
            <4> QED BY <1>0, <2>1, <4>1 DEF PlacedAt
        <3> QED BY <2>1, <3>1, StepKeepsPlaces DEF TypeOK
    <2>6. Ownership'
        <3>1. pc' = [pc EXCEPT ![w] = "rangeBody"]
            BY <2>1 DEF TypeOK
        <3> QED BY <2>1, <3>1, StepKeepsOwners DEF Owning
    <2> QED BY <2>4, <2>5, <2>6
<1>5. CASE RangeFails(w)
    <2>1. Bitmaps'
        BY <1>0, <1>5 DEF RangeFails, Bitmaps
    <2> QED BY <1>5, <2>1, FailKeepsInv DEF RangeFails
<1>6. CASE RangeEOF(w)
    <2> DEFINE p == piece[w]
               h == SetBit(p, Covered(w))
    <2>1. /\ pc[w] = "rangeBody"
          /\ have' = [have EXCEPT ![p] = h]
          /\ used' = [used EXCEPT ![p] = UnsetUseBit(p, Covered(w))]
          /\ UNCHANGED <<written, result, piece, blk, from, off, last>>
        BY <1>6 DEF RangeEOF
    <2>2. Covered(w) \subseteq Blocks(p) /\ UnsetUseBit(p, Covered(w)) \subseteq Blocks(p)
        BY <1>0, <2>1, CoveredInPiece DEF UnsetUseBit, Bitmaps
    <2>3. /\ Bitmaps' /\ have'[p] = h /\ \A q \in Pieces : have[q] \subseteq have'[q]
          /\ \A q \in Pieces : have[q] = Blocks(q) => have'[q] = Blocks(q)
        BY <1>0, <2>1, <2>2, BitsOfOnePiece
    <2>4. CASE /\ h = Blocks(p)
               /\ status' = [status EXCEPT ![p] = "complete"]
               /\ pc' = [pc EXCEPT ![w] = "top"]
               /\ UNCHANGED <<owner, cancelled, dlErr, url, retry>>
        <3>1. TypeOK'
            BY <2>1, <2>3, <2>4 DEF TypeOK, Bitmaps
        <3>2. Placed'
            BY <1>0, <2>1, <2>4, StepKeepsPlaces DEF TypeOK, PlacedAt
        <3>3. Ownership'
            BY <2>1, <2>3, <2>4, StepCompletes
        <3> QED BY <3>1, <3>2, <3>3
    <2>5. CASE Fail(w, "error")
        BY <2>1, <2>3, <2>5, FailKeepsInv
    <2> QED BY <1>6, <2>4, <2>5 DEF RangeEOF
<1> QED BY <1>1, <1>2, <1>3, <1>4, <1>5, <1>6

\* doDownload returns when all workers have left.  If nobody was cancelled
\* they left because there was no idle piece and none that is being worked on.
LEMMA ReturnsKeepsInv ==
    ASSUME IInv, Returns \/ Cancel
    PROVE  IInv'
<1> USE DEF IInv
<1>1. CASE Returns
    <2> USE <1>1 DEF Returns, local
    <2>1. TypeOK'
        BY DEF TypeOK
    <2>2. Placed'
        BY DEF Placed, PlacedAt
    <2>3. OneWorkerPerPiece' /\ IdleFree' /\ Ending' /\ IdleServed'
        BY DEF Ownership, OneWorkerPerPiece, IdleFree, Holding, Complete, Ending, IdleServed, Idle
    <2>4. Finished'
        BY DEF Finished
    <2>5. SuccessMeansComplete'
        <3>1. SUFFICES ASSUME ~cancelled, NEW p \in Pieces PROVE Complete(p)
            BY DEF SuccessMeansComplete, Complete
        <3>2. status[p] # "idle"
            BY <3>1 DEF Ownership, IdleServed, Idle
        <3>3. status[p] # "active"
            BY DEF Ownership, OneWorkerPerPiece, Holding
        <3>4. status[p] = "complete"
            BY <3>2, <3>3 DEF TypeOK
        <3> QED BY <3>4 DEF Ownership, OneWorkerPerPiece
    <2> QED BY <2>1, <2>2, <2>3, <2>4, <2>5 DEF Ownership
<1>2. CASE Cancel
    <2> USE <1>2 DEF Cancel, local
    <2>1. TypeOK'
        <3>1. cancelled' \in BOOLEAN
            BY Zenon
        <3> QED BY <3>1 DEF TypeOK
    <2>2. Placed'
        BY DEF Placed, PlacedAt
    <2>3. Ownership'
        BY DEF Ownership, OneWorkerPerPiece, IdleFree, Holding, Complete, Ending, IdleServed, Idle,
               Finished, SuccessMeansComplete
    <2> QED BY <2>1, <2>2, <2>3
<1> QED BY <1>1, <1>2

LEMMA InitIInv == Init => IInv
<1> SUFFICES ASSUME Init PROVE IInv
    OBVIOUS
<1>1. Bitmaps
    <2>1. \A p \in Pieces : Blocks(p) \subseteq Nat
        BY DEF Blocks
    <2>2. \A p \in Pieces : have[p] \subseteq Blocks(p)
        BY DEF Init
    <2>3. have \in [Pieces -> SUBSET Nat]
        <3>1. \A p \in Pieces : have[p] \in SUBSET Nat
            BY <2>1, <2>2
        <3>2. have = [p \in Pieces |-> have[p]]
            BY DEF Init
        <3> QED BY <3>1, <3>2
    <2> QED BY <2>2, <2>3 DEF Init, Bitmaps
<1>2. written \subseteq 0..(FileSize - 1)
    <2>1. ASSUME NEW p \in Pieces, NEW i \in Blocks(p) PROVE Units(p, i) \subseteq 0..(FileSize - 1)
        <3>1. /\ BlockStart(p, i) \in Nat /\ BlockLen(p, i) \in Nat
              /\ BlockStart(p, i) + BlockLen(p, i) <= PieceStart(p) + PieceLen(p)
              /\ PieceStart(p) + PieceLen(p) <= FileSize
              /\ PieceStart(p) \in Nat /\ PieceLen(p) \in Nat /\ FileSize \in Nat
            BY BlockGeometry, PieceGeometry, PieceAssumption
        <3> QED BY <3>1 DEF Units
    <2>2. written = UNION {UNION {Units(p, i) : i \in have[p]} : p \in Pieces}
        BY DEF Init
    <2> QED BY <1>1, <2>1, <2>2 DEF Bitmaps
<1>3. 0 \in Pieces /\ 0 \in 0..FileSize /\ 0 \in 0..(FileSize - 1) /\ 1 \in 1..Urls /\ 0 \in 0..MaxRetries
    <2>1. CeilDiv(FileSize, PieceLength) \in Nat \ {0}
        BY CeilDivBounds, PieceAssumption
    <2> QED BY <2>1, PieceAssumption DEF Pieces
<1>4. TypeOK
    BY <1>1, <1>2, <1>3 DEF Init, TypeOK, Bitmaps
<1>5. Placed
    BY DEF Init, Placed, PlacedAt
<1>6. Ownership
    BY PieceAssumption DEF Init, Ownership, OneWorkerPerPiece, IdleFree, Holding, Ending,
                           IdleServed, Finished, SuccessMeansComplete
<1> QED BY <1>4, <1>5, <1>6 DEF IInv

LEMMA NextIInv == ASSUME IInv, [Next]_vars PROVE IInv'
<1>1. CASE UNCHANGED vars
    BY <1>1 DEF vars, shared, local, IInv, TypeOK, Placed, PlacedAt, Ownership, Holding,
                OneWorkerPerPiece, IdleFree, Complete, Ending, IdleServed, Idle, Finished,
                SuccessMeansComplete
<1>2. ASSUME NEW w \in Conns, OwnStep(w) PROVE IInv'
    BY <1>2, LoopKeepsInv, AttemptKeepsInv, RangeKeepsInv DEF OwnStep
<1>3. ASSUME NEW w \in Conns, BodyStep(w) PROVE IInv'
    BY <1>3, ReadKeepsInv, RangeKeepsInv DEF BodyStep, BodyFails
<1> QED BY <1>1, <1>2, <1>3, ReturnsKeepsInv DEF Next

-----------------------------------------------------------------------------
(* Complete blocks are in the file, unless stolen ranges end early.         *)

\* A step of one worker; the file only gains data.
LEMMA StepKeepsWritten ==
    ASSUME WInv, NEW w \in Conns, written \subseteq written', CompleteIsWritten', WrittenAt(w)',
           \A v \in Conns \ {w} :
              /\ pc'[v] = pc[v] /\ piece'[v] = piece[v] /\ blk'[v] = blk[v]
              /\ from'[v] = from[v] /\ off'[v] = off[v]
    PROVE  WInv'
<1>1. ASSUME NEW v \in Conns \ {w} PROVE WrittenAt(v)'
    <2>1. WrittenAt(v)
        BY DEF WInv
    <2> QED BY <2>1 DEF WrittenAt
<1> QED BY <1>1 DEF WInv

LEMMA NewBlocksWritten ==
    ASSUME IInv, WInv, NEW p \in Pieces, NEW S, written \subseteq written',
           have' = [have EXCEPT ![p] = SetBit(p, S)],
           \A i \in S : Units(p, i) \subseteq written'
    PROVE  CompleteIsWritten'
<1>1. have \in [Pieces -> SUBSET Nat]
    BY DEF IInv, TypeOK
<1>2. ASSUME NEW q \in Pieces, NEW i \in have'[q] PROVE Units(q, i) \subseteq written'
    <2>1. CASE i \in have[q]
        BY <2>1 DEF WInv, CompleteIsWritten
    <2>2. CASE i \notin have[q]
        <3>1. q = p /\ i \in S
            BY <1>1, <1>2, <2>2 DEF SetBit
        <3> QED BY <3>1
    <2> QED BY <2>1, <2>2
<1> QED BY <1>2 DEF CompleteIsWritten

\* A step that neither reads nor marks blocks, and does not leave a response
\* open.
LEMMA QuietKeepsWritten ==
    ASSUME IInv, WInv, NEW w \in Conns, NEW b, b \notin {"body", "rangeBody"},
           pc' = [pc EXCEPT ![w] = b], UNCHANGED <<have, written>>,
           \A v \in Conns \ {w} : /\ piece'[v] = piece[v] /\ blk'[v] = blk[v]
                                  /\ from'[v] = from[v] /\ off'[v] = off[v]
    PROVE  WInv'
<1>1. \A v \in Conns : pc'[v] = IF v = w THEN b ELSE pc[v]
    BY DEF IInv, TypeOK
<1>2. WrittenAt(w)'
    BY <1>1 DEF WrittenAt
<1>3. CompleteIsWritten'
    BY DEF WInv, CompleteIsWritten
<1> QED BY <1>1, <1>2, <1>3, StepKeepsWritten

LEMMA FailKeepsWritten ==
    ASSUME IInv, WInv, NEW w \in Conns, NEW err, Fail(w, err), CompleteIsWritten',
           UNCHANGED <<written, piece, blk, from, off>>
    PROVE  WInv'
<1>1. PICK b \in {"attempt", "range", "done", "putBack"} : pc' = [pc EXCEPT ![w] = b]
    BY FailMoves DEF IInv
<1>2. \A v \in Conns : pc'[v] = IF v = w THEN b ELSE pc[v]
    BY <1>1 DEF IInv, TypeOK
<1>3. WrittenAt(w)'
    BY <1>2 DEF WrittenAt
<1> QED BY <1>2, <1>3, StepKeepsWritten

LEMMA LoopKeepsWritten ==
    ASSUME IInv, WInv, NEW w \in Conns,
           \/ Leaves(w) \/ GoesOn(w) \/ GetPieceForDownload(w) \/ TryStealPiece(w)
           \/ Admitted(w) \/ Refused(w) \/ Unthrottled(w) \/ PutBack(w) \/ Disown(w)
           \/ PieceDone(w) \/ NextUnusedBlock(w)
    PROVE  WInv'
<1>0. TypeOK
    BY DEF IInv
<1>1. CASE Leaves(w) \/ GoesOn(w) \/ Unthrottled(w) \/ PutBack(w) \/ Disown(w) \/ PieceDone(w)
    BY <1>1, QuietKeepsWritten DEF Leaves, GoesOn, Unthrottled, PutBack, Disown, PieceDone, Step,
                                   shared
<1>2. CASE GetPieceForDownload(w)
    <2>1. PICK b \in {"sem", "steal"} : pc' = [pc EXCEPT ![w] = b]
        BY <1>2 DEF GetPieceForDownload, Step
    <2>2. \A v \in Conns \ {w} : piece'[v] = piece[v]
        BY <1>0, <1>2 DEF GetPieceForDownload, TypeOK
    <2> QED BY <1>2, <2>1, <2>2, QuietKeepsWritten DEF GetPieceForDownload
<1>3. CASE TryStealPiece(w)
    <2>1. PICK b \in {"done", "rangeSem"} : pc' = [pc EXCEPT ![w] = b]
        BY <1>3 DEF TryStealPiece, Step
    <2>2. \A v \in Conns \ {w} : piece'[v] = piece[v] /\ from'[v] = from[v]
        BY <1>0, <1>3 DEF TryStealPiece, TypeOK
    <2>3. UNCHANGED <<have, written, blk, off>>
        BY <1>3 DEF TryStealPiece
    <2> QED BY <2>1, <2>2, <2>3, QuietKeepsWritten
<1>4. CASE Admitted(w)
    <2>1. PICK b \in {"attempt", "range"} : pc' = [pc EXCEPT ![w] = b]
        BY <1>4 DEF Admitted, PieceAdmitted, RangeAdmitted, Step
    <2> QED BY <1>4, <2>1, QuietKeepsWritten DEF Admitted, shared
<1>5. CASE Refused(w)
    <2>1. PICK b \in {"yield", "putBack", "throttled", "done"} : pc' = [pc EXCEPT ![w] = b]
        BY <1>5 DEF Refused, Step
    <2> QED BY <1>5, <2>1, QuietKeepsWritten DEF Refused, shared
<1>6. CASE NextUnusedBlock(w)
    <2>1. \A v \in Conns \ {w} : blk'[v] = blk[v] /\ off'[v] = off[v]
        BY <1>0, <1>6 DEF NextUnusedBlock, TypeOK
    <2>2. pc' = [pc EXCEPT ![w] = "request"] /\ UNCHANGED <<have, written, piece, from>>
        BY <1>6 DEF NextUnusedBlock, Step
    <2> QED BY <2>1, <2>2, QuietKeepsWritten
<1> QED BY <1>1, <1>2, <1>3, <1>4, <1>5, <1>6

LEMMA FailuresKeepWritten ==
    ASSUME IInv, WInv, NEW w \in Conns, NEW err, Fail(w, err),
           UNCHANGED <<have, written, piece, blk, from, off>>
    PROVE  WInv'
<1>1. CompleteIsWritten'
    BY DEF WInv, CompleteIsWritten
<1> QED BY <1>1, FailKeepsWritten

\* The requests: the response has delivered nothing yet.
LEMMA RequestKeepsWritten ==
    ASSUME IInv, WInv, NEW w \in Conns,
           \/ Request(w) \/ RangeRequest(w) \/ AttemptCancelled(w)
           \/ ReadFails(w) \/ ShortRead(w) \/ RangeFails(w)
    PROVE  WInv'
<1>0. TypeOK /\ PlacedAt(w) /\ piece[w] \in Pieces
    BY DEF IInv, TypeOK, Placed
<1>1. CASE \E err : Fail(w, err) /\ UNCHANGED <<have, written, piece, blk, from, off>>
    BY <1>1, FailuresKeepWritten
<1>2. CASE Step(w, "request", "body") /\ UNCHANGED <<shared, piece, blk, from, off>>
    <2>1. \A v \in Conns : pc'[v] = IF v = w THEN "body" ELSE pc[v]
        BY <1>0, <1>2 DEF Step, TypeOK
    <2>2. off[w] = BlockStart(piece[w], blk[w]) /\ off[w] \in Nat
        BY <1>0, <1>2 DEF PlacedAt, Step, TypeOK
    <2>3. BlockStart(piece[w], blk[w])..(off[w] - 1) = {}
        BY <2>2
    <2>4. WrittenAt(w)'
        BY <1>2, <2>1, <2>3 DEF WrittenAt
    <2>5. CompleteIsWritten'
        BY <1>2 DEF shared, WInv, CompleteIsWritten
    <2> QED BY <1>2, <2>1, <2>4, <2>5, StepKeepsWritten DEF shared
<1>3. CASE /\ Step(w, "range", "rangeBody") /\ off' = [off EXCEPT ![w] = from[w]]
           /\ UNCHANGED <<shared, piece, blk, from>>
    <2>1. \A v \in Conns : /\ pc'[v] = IF v = w THEN "rangeBody" ELSE pc[v]
                           /\ off'[v] = IF v = w THEN from[w] ELSE off[v]
        BY <1>0, <1>3 DEF Step, TypeOK
    <2>2. from[w] \in Nat
        BY <1>0 DEF TypeOK
    <2>3. from[w]..(from[w] - 1) = {}
        BY <2>2
    <2>4. WrittenAt(w)'
        BY <1>3, <2>1, <2>3 DEF WrittenAt
    <2>5. CompleteIsWritten'
        BY <1>3 DEF shared, WInv, CompleteIsWritten
    <2> QED BY <1>3, <2>1, <2>4, <2>5, StepKeepsWritten DEF shared
<1>4. CASE AttemptCancelled(w)
    <2>1. Fail(w, "other")
        BY <1>4 DEF AttemptCancelled, Fail
    <2> QED BY <1>1, <1>4, <2>1 DEF AttemptCancelled
<1> QED BY <1>1, <1>2, <1>3, <1>4 DEF Request, RangeRequest, ReadFails, ShortRead, RangeFails

\* A read extends what is written without a gap, so a block that it fills is
\* in the file as a whole.  The response goes on with another block only
\* where that block starts.
LEMMA ReadKeepsWritten ==
    ASSUME IInv, WInv, NEW w \in Conns, NEW n \in ReadSizes, Read(w, n)
    PROVE  WInv'
<1> DEFINE p == piece[w]
           i == blk[w]
           o == off[w] + n
<1>0. TypeOK /\ PlacedAt(w) /\ p \in Pieces
    BY DEF IInv, TypeOK, Placed
<1>1. /\ pc[w] = "body" /\ written' = written \cup off[w]..(o - 1)
      /\ off' = [off EXCEPT ![w] = o] /\ UNCHANGED <<piece, from>>
    BY DEF Read
<1>2. off[w] \in Nat /\ n \in Nat /\ o \in Nat
    BY <1>0, PieceAssumption DEF TypeOK
<1>3. /\ i \in Blocks(p) /\ BlockStart(p, i) <= off[w]
      /\ BlockStart(p, i) \in Nat /\ BlockLen(p, i) \in Nat
    BY <1>0, <1>1, BlockGeometry DEF PlacedAt
<1>4. BlockStart(p, i)..(o - 1) \subseteq written'
    <2>1. BlockStart(p, i)..(off[w] - 1) \subseteq written
        BY <1>1 DEF WInv, WrittenAt
    <2>2. BlockStart(p, i)..(o - 1) \subseteq BlockStart(p, i)..(off[w] - 1) \cup off[w]..(o - 1)
        BY <1>2, <1>3
    <2> QED BY <1>1, <2>1, <2>2
<1>5. written \subseteq written' /\ off'[w] = o /\ \A v \in Conns \ {w} : off'[v] = off[v]
    BY <1>0, <1>1 DEF TypeOK
<1>6. CASE UNCHANGED <<have, used, status, pc, blk>>
    <2>1. WrittenAt(w)'
        BY <1>1, <1>4, <1>5, <1>6 DEF WrittenAt
    <2>2. CompleteIsWritten'
        BY <1>5, <1>6 DEF WInv, CompleteIsWritten
    <2> QED BY <1>1, <1>5, <1>6, <2>1, <2>2, StepKeepsWritten
<1>7. CASE BlockFull(p, i, o) /\ BlockEnds(w, o)
    <2>1. Units(p, i) \subseteq written'
        <3>1. BlockStart(p, i) + BlockLen(p, i) <= o
            BY <1>2, <1>3, <1>7 DEF BlockFull
        <3>2. Units(p, i) \subseteq BlockStart(p, i)..(o - 1)
            <4> HIDE DEF o, p, i
            <4> QED BY <1>2, <1>3, <3>1 DEF Units
        <3> QED BY <1>4, <3>2
    <2>2. CompleteIsWritten'
        <3> DEFINE S == {i}
        <3>1. have' = [have EXCEPT ![p] = SetBit(p, S)]
            BY <1>7 DEF BlockEnds
        <3>2. \A j \in S : Units(p, j) \subseteq written'
            BY <2>1
        <3> HIDE DEF p, S, o
        <3> QED BY <1>0, <1>5, <3>1, <3>2, NewBlocksWritten
    <2>3. \/ pc' = [pc EXCEPT ![w] = "top"] /\ UNCHANGED blk
          \/ pc' = [pc EXCEPT ![w] = "attempt"] /\ UNCHANGED blk
          \/ \E j : /\ BlockStart(p, j) = o /\ blk' = [blk EXCEPT ![w] = j] /\ UNCHANGED pc
        BY <1>7 DEF BlockEnds, Continues
    <2>4. \A v \in Conns \ {w} : pc'[v] = pc[v] /\ blk'[v] = blk[v]
        BY <1>0, <2>3 DEF TypeOK
    <2>5. WrittenAt(w)'
        <3>1. CASE pc'[w] \notin {"body", "rangeBody"}
            BY <3>1 DEF WrittenAt
        <3>2. ASSUME NEW j, BlockStart(p, j) = o, blk' = [blk EXCEPT ![w] = j], UNCHANGED pc
              PROVE  WrittenAt(w)'
            <4>1. pc'[w] = "body" /\ blk'[w] = j /\ piece'[w] = p
                BY <1>0, <1>1, <3>2 DEF TypeOK
            <4>2. o..(o - 1) = {}
                BY <1>2
            <4> QED BY <1>5, <3>2, <4>1, <4>2 DEF WrittenAt
        <3>3. \/ pc' = [pc EXCEPT ![w] = "top"] \/ pc' = [pc EXCEPT ![w] = "attempt"]
              => pc'[w] \notin {"body", "rangeBody"}
            BY <1>0 DEF TypeOK
        <3> QED BY <2>3, <3>1, <3>2, <3>3
    <2> QED BY <1>1, <1>5, <2>2, <2>4, <2>5, StepKeepsWritten
<1> QED BY <1>6, <1>7 DEF Read

LEMMA RangeReadKeepsWritten ==
    ASSUME IInv, WInv, NEW w \in Conns, NEW n \in ReadSizes, RangeRead(w, n)
    PROVE  WInv'
<1> DEFINE o == off[w] + n
<1>0. TypeOK /\ PlacedAt(w)
    BY DEF IInv, Placed
<1>1. /\ pc[w] = "rangeBody" /\ written' = written \cup off[w]..(o - 1)
      /\ off' = [off EXCEPT ![w] = o] /\ UNCHANGED <<have, pc, piece, blk, from>>
    <2>1. off' = [off EXCEPT ![w] = off[w] + n]
        BY DEF RangeRead
    <2>2. pc[w] = "rangeBody" /\ written' = written \cup off[w]..(off[w] + n - 1)
        BY DEF RangeRead
    <2>3. UNCHANGED <<have, pc, piece, blk, from>>
        BY DEF RangeRead
    <2>4. off[w] \in Nat /\ n \in Nat
        BY <1>0, PieceAssumption DEF TypeOK
    <2> QED BY <2>1, <2>2, <2>3, <2>4
<1>2. off[w] \in Nat /\ n \in Nat /\ o \in Nat /\ from[w] \in Nat /\ from[w] <= off[w]
    BY <1>0, <1>1, PieceAssumption DEF TypeOK, PlacedAt
<1>3. from[w]..(o - 1) \subseteq written'
    <2>1. from[w]..(off[w] - 1) \subseteq written
        BY <1>1 DEF WInv, WrittenAt
    <2>2. from[w]..(o - 1) \subseteq from[w]..(off[w] - 1) \cup off[w]..(o - 1)
        BY <1>2
    <2> QED BY <1>1, <2>1, <2>2
<1>4. written \subseteq written' /\ off'[w] = o /\ \A v \in Conns \ {w} : off'[v] = off[v]
    BY <1>0, <1>1 DEF TypeOK
<1>5. WrittenAt(w)'
    BY <1>1, <1>3, <1>4 DEF WrittenAt
<1>6. CompleteIsWritten'
    BY <1>1, <1>4 DEF WInv, CompleteIsWritten
<1> QED BY <1>1, <1>4, <1>5, <1>6, StepKeepsWritten

\* A stolen range that has been read to its end is the rest of the piece, so
\* every block marked is in the file.
LEMMA RangeEOFKeepsWritten ==
    ASSUME IInv, WInv, NEW w \in Conns, RangeEOF(w), "shortRange" \notin Faults
    PROVE  WInv'
<1> DEFINE p == piece[w]
<1>0. TypeOK /\ PlacedAt(w) /\ p \in Pieces
    BY DEF IInv, TypeOK, Placed
<1>1. /\ pc[w] = "rangeBody" /\ off[w] > last[w]
      /\ have' = [have EXCEPT ![p] = SetBit(p, Covered(w))]
      /\ UNCHANGED <<written, piece, blk, from, off>>
      /\ pc' = [pc EXCEPT ![w] = "top"] \/ Fail(w, "error")
    BY DEF RangeEOF
<1>2. PICK k \in Blocks(p) : from[w] = BlockStart(p, k)
    BY <1>0, <1>1 DEF PlacedAt
<1>3. /\ off[w] \in Nat /\ last[w] = PieceEnd(p) /\ PieceEnd(p) \in Nat
      /\ k \in Nat /\ NumBlocks(p) \in Nat
    BY <1>0, <1>1, <1>2, PieceGeometry, BlockGeometry DEF TypeOK, PlacedAt
<1>4. ASSUME NEW i \in Covered(w) PROVE Units(p, i) \subseteq written'
    <2>1. i \in Blocks(p) /\ k <= i
        <3>1. i \in Blocks(p)
            BY <1>0, <1>1, CoveredInPiece
        <3>2. i \in BlockIndexForOffset(p, from[w])..BlockIndexForOffset(p, off[w] - 1)
            BY DEF Covered
        <3>3. BlockIndexForOffset(p, from[w]) = k
            BY <1>0, <1>2, BlockIndexOfStart
        <3> HIDE DEF p
        <3> QED BY <3>1, <3>2, <3>3
    <2>2. Units(p, i) \subseteq from[w]..PieceEnd(p)
        BY <1>0, <1>2, <2>1, BlocksUpToEnd
    <2>3. from[w]..PieceEnd(p) \subseteq from[w]..(off[w] - 1)
        <3>1. from[w] \in Nat
            BY <1>0 DEF TypeOK
        <3> QED BY <1>1, <1>3, <3>1
    <2>4. from[w]..(off[w] - 1) \subseteq written
        BY <1>1 DEF WInv, WrittenAt
    <2> QED BY <1>1, <2>2, <2>3, <2>4
<1>5. CompleteIsWritten'
    <2>1. written \subseteq written'
        BY <1>1
    <2> QED BY <1>0, <1>1, <1>4, <2>1, NewBlocksWritten
<1>6. CASE Fail(w, "error")
    BY <1>1, <1>5, <1>6, FailKeepsWritten
<1>7. CASE pc' = [pc EXCEPT ![w] = "top"]
    <2>1. \A v \in Conns : pc'[v] = IF v = w THEN "top" ELSE pc[v]
        BY <1>0, <1>7 DEF TypeOK
    <2>2. WrittenAt(w)'
        BY <2>1 DEF WrittenAt
    <2> QED BY <1>1, <1>5, <2>1, <2>2, StepKeepsWritten
<1> QED BY <1>1, <1>6, <1>7

LEMMA InitWInv == Init => WInv
<1> SUFFICES ASSUME Init PROVE WInv
    OBVIOUS
<1>1. CompleteIsWritten
    BY DEF Init, CompleteIsWritten
<1>2. \A w \in Conns : WrittenAt(w)
    BY DEF Init, WrittenAt
<1> QED BY <1>1, <1>2 DEF WInv

LEMMA NextWInv ==
    ASSUME IInv, WInv, [Next]_vars, "shortRange" \notin Faults
    PROVE  WInv'
<1>1. CASE UNCHANGED vars \/ Returns \/ Cancel
    BY <1>1 DEF vars, shared, local, Returns, Cancel, WInv, CompleteIsWritten, WrittenAt
<1>2. ASSUME NEW w \in Conns, OwnStep(w) PROVE WInv'
    BY <1>2, LoopKeepsWritten, RequestKeepsWritten DEF OwnStep
<1>3. ASSUME NEW w \in Conns, BodyStep(w) PROVE WInv'
    BY <1>3, RequestKeepsWritten, ReadKeepsWritten, RangeReadKeepsWritten, RangeEOFKeepsWritten
       DEF BodyStep, BodyFails
<1> QED BY <1>1, <1>2, <1>3 DEF Next

-----------------------------------------------------------------------------
(* The theorems.                                                            *)

\* The invariant holds throughout, whatever the servers do.
THEOREM PieceInvariant == Spec => []IInv
BY InitIInv, NextIInv, PTL DEF Spec

\* Whatever is put back, stolen or given up, no two workers have been given the
\* same piece, an active piece is with a worker and a complete one has all its
\* blocks.
THEOREM PieceOneWorker == Spec => []OneWorkerPerPiece
<1>1. IInv => OneWorkerPerPiece
    BY DEF IInv, Ownership
<1> QED BY PieceInvariant, <1>1, PTL

\* Success is reported only with every piece complete.
THEOREM PieceSuccessMeansComplete == Spec => []SuccessMeansComplete
<1>1. IInv => SuccessMeansComplete
    BY DEF IInv, Ownership
<1> QED BY PieceInvariant, <1>1, PTL

\* A block is called complete only when its data is in the file - for every
\* layout of pieces and blocks, and with stealing, reads across blocks,
\* failures and restored bitmaps; servers must send the ranges they promise.
THEOREM PieceCompleteIsWritten ==
    ASSUME "shortRange" \notin Faults
    PROVE  Spec => []CompleteIsWritten
<1>1. Init => IInv /\ WInv
    BY InitIInv, InitWInv
<1>2. IInv /\ WInv /\ [Next]_vars => (IInv /\ WInv)'
    BY NextIInv, NextWInv
<1>3. WInv => CompleteIsWritten
    BY DEF WInv
<1> QED BY <1>1, <1>2, <1>3, PTL DEF Spec

\* Every component of the state keeps its type, whatever the sizes.
THEOREM PieceTypeCorrect == Spec => []TypeOK
<1>1. IInv => TypeOK
    BY DEF IInv
<1> QED BY PieceInvariant, <1>1, PTL

=============================================================================
