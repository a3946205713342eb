------------------------------ MODULE FileHeader ------------------------------
(***************************************************************************)
(* FileHeader of filesys/filehdr.cc (built with USE_INDIRECT) on a BitMap  *)
(* of userprog/bitmap.cc: the sectors of a file are listed in the header   *)
(* (NumDirect of them), in one index block, and in a block of index        *)
(* blocks.  A call is one step here; FileSystem interleaves the calls.     *)
(* Sector contents are kept for index blocks only.                         *)
(***************************************************************************)
EXTENDS Integers, FiniteSets, SequencesExt

CONSTANTS
  File,       \* the headers in play
  NumDirect, LevelNum, SectorSize, NumSectors,
  MaxBytes,   \* bound on the length of a file
  Request,    \* the sizes that are asked for, at creation and at a growth
  Roomy       \* TRUE: nobody grows a file on a disk without room for its index

ASSUME FileHeaderAssumption ==
  /\ {NumDirect, LevelNum, SectorSize, NumSectors} \subseteq Nat \ {0}
  /\ MaxBytes \in 0..(SectorSize * (NumDirect + LevelNum + LevelNum * LevelNum))
  /\ Request \subseteq 0..MaxBytes
  /\ Roomy \in BOOLEAN

VARIABLES
  freeMap,    \* the sectors that are marked
  disk,       \* disk[s]: the entries of the index block in sector s
  hdr         \* hdr[f]: the header of f, or NoFile

vars == <<freeMap, disk, hdr>>

Sector   == 0..(NumSectors - 1)
Entry    == 0..(LevelNum - 1)
NoSector == -1           \* what Find returns when nothing is clear
Junk     == -2           \* an entry of a local array nobody has assigned
NoFile   == [numBytes |-> 0, numSectors |-> 0, dataSectors |-> <<>>]

OneLevelIdx == NumDirect
TwoLevelIdx == NumDirect + 1
JunkBlock   == [i \in Entry |-> Junk]
NewHeader   == [i \in 0..TwoLevelIdx |-> Junk]

divRoundUp(n, s) == (n + s - 1) \div s
Least(a, b) == IF a < b THEN a ELSE b

NumClear(map) == Cardinality(Sector \ map)

\* What n calls of BitMap::Find in a row return: the clear bits from below.
Find(map, n) ==
  LET clear == Sector \ map
  IN  [k \in 1..n |->
         IF k > Cardinality(clear) THEN NoSector
         ELSE CHOOSE s \in clear : Cardinality({c \in clear : c < s}) = k - 1]

\* for(i = lo; i < hi; ++i) block[i] = freeMap->Find();
FindInto(map, block, lo, hi) ==
  LET found == Find(map, hi - lo)
  IN  [map   |-> map \cup (ToSet(found) \ {NoSector}),
       block |-> [i \in DOMAIN block |->
                    IF lo <= i /\ i < hi THEN found[i - lo + 1] ELSE block[i]]]
-----------------------------------------------------------------------------
(* A file system `w' is a free map, the disk and the dataSectors of the     *)
(* header at hand.                                                          *)

FillDirect(w, lo, hi) ==
  LET r == FindInto(w.map, w.dataSectors, lo, hi)
  IN  [w EXCEPT !.map = r.map, !.dataSectors = r.block]

\* Fill entries lo..hi-1 of `block' and WriteSector it to `sector'.
FillIndex(w, sector, block, lo, hi) ==
  LET r == FindInto(w.map, block, lo, hi)
  IN  [w EXCEPT !.map = r.map, !.disk = [@ EXCEPT ![sector] = r.block]]

\* A wrong one-level case: does not read the index block it adds to.
FillOneLevelBlindly(w, prev, count) ==
  LET new == IF prev = 0 THEN FillDirect(w, OneLevelIdx, OneLevelIdx + 1) ELSE w
  IN  FillIndex(new, new.dataSectors[OneLevelIdx], JunkBlock, prev, count)

\* The one-level block from `prev' entries to `count'; new if there are none.
FillOneLevel(w, prev, count) ==
  LET new   == IF prev = 0 THEN FillDirect(w, OneLevelIdx, OneLevelIdx + 1) ELSE w
      index == new.dataSectors[OneLevelIdx]
  IN  FillIndex(new, index, IF prev = 0 THEN JunkBlock ELSE w.disk[index], prev, count)

\* One more second-level block, the i-th, for a file with `left' sectors there.
AddSecondLevel(acc, i, left) ==
  LET r == FindInto(acc.w.map, acc.two, i, i + 1)
  IN  [two |-> r.block,
       w   |-> FillIndex([acc.w EXCEPT !.map = r.map], r.block[i], JunkBlock,
                         0, Least(LevelNum, left - i * LevelNum))]

\* The two-level part from prev data sectors to left: the last second-level
\* block is filled up first, then new ones are added.
FillTwoLevel(w, prev, left) ==
  LET new     == IF prev = 0 THEN FillDirect(w, TwoLevelIdx, TwoLevelIdx + 1) ELSE w
      index   == new.dataSectors[TwoLevelIdx]
      two     == IF prev = 0 THEN JunkBlock ELSE w.disk[index]
      prevNum == divRoundUp(prev, LevelNum)
      num     == divRoundUp(left, LevelNum)
      last    == two[prevNum - 1]
      filled  == IF prev % LevelNum = 0 THEN new
                 ELSE FillIndex(new, last, w.disk[last], prev % LevelNum,
                                Least(LevelNum, left - (prevNum - 1) * LevelNum))
      Add(acc, i) == AddSecondLevel(acc, i, left)
      all     == FoldLeft(Add, [w |-> filled, two |-> two],
                          [k \in 1..(num - prevNum) |-> prevNum + k - 1])
  IN  [all.w EXCEPT !.disk = [@ EXCEPT ![index] = all.two]]

\* The data sectors of a file of n sectors at each level.
Direct(n)   == Least(n, NumDirect)
OneLevel(n) == Least(n - Direct(n), LevelNum)
TwoLevel(n) == n - Direct(n) - OneLevel(n)

\* The loops of Allocate (from 0) and of the five cases of ExpandFileSize, in
\* the order in which they call Find.
Fill(w, from, to) ==
  LET direct == FillDirect(w, from, Direct(to))
      one    == IF OneLevel(to) > OneLevel(from)
                THEN FillOneLevel(direct, OneLevel(from), OneLevel(to)) ELSE direct
  IN  IF TwoLevel(to) > TwoLevel(from)
      THEN FillTwoLevel(one, TwoLevel(from), TwoLevel(to)) ELSE one

\* The tests for room at the head of Allocate and of its cases.
AllocateRefuses(numClear, n) ==
  \/ numClear < n
  \/ OneLevel(n) > 0 /\ TwoLevel(n) = 0 /\ numClear < n + 1
  \/ TwoLevel(n) > 0 /\ numClear < n + 1 + 1 + divRoundUp(TwoLevel(n), LevelNum)

\* The tests for room of ExpandFileSize, case by case: 0 to 1, 0 to 2, 1 to 2
\* and 2 to 2.  (The other two cases have none beyond the first.)
ExpandRefuses(numClear, from, to) ==
  LET SecondLevelNum == divRoundUp(TwoLevel(to), LevelNum)
  IN  \/ numClear < to - from
      \/ /\ OneLevel(from) = 0 /\ OneLevel(to) > 0 /\ TwoLevel(to) = 0
         /\ numClear < to - from + 1
      \/ /\ OneLevel(from) = 0 /\ TwoLevel(to) > 0
         /\ numClear < from + 1 + 1 + SecondLevelNum
      \/ /\ OneLevel(from) > 0 /\ TwoLevel(from) = 0 /\ TwoLevel(to) > 0
         /\ numClear < from + 1 + SecondLevelNum
      \/ /\ TwoLevel(from) > 0
         /\ SecondLevelNum > divRoundUp(TwoLevel(from), LevelNum)
         /\ numClear < to - from + 1

\* The index blocks a file of n sectors has, and so the sectors growth takes.
IndexBlocks(n) ==
  (IF OneLevel(n) > 0 THEN 1 ELSE 0)
  + (IF TwoLevel(n) > 0 THEN 1 + divRoundUp(TwoLevel(n), LevelNum) ELSE 0)
Needed(from, to) == (to - from) + (IndexBlocks(to) - IndexBlocks(from))
-----------------------------------------------------------------------------
\* ByteToSector, which reads the index blocks off the disk.
ByteToSector(h, d, offset) ==
  LET block == offset \div SectorSize
      left  == block - NumDirect - LevelNum
  IN  IF block < NumDirect THEN h.dataSectors[block]
      ELSE IF block < NumDirect + LevelNum
      THEN d[h.dataSectors[OneLevelIdx]][block - NumDirect]
      ELSE d[d[h.dataSectors[TwoLevelIdx]][left \div LevelNum]][left % LevelNum]

\* The sectors Deallocate clears below the one-level and the two-level index.
OneLevelSectors(h, d) ==
  LET index == h.dataSectors[OneLevelIdx]
  IN  {index} \cup {d[index][i] : i \in 0..(OneLevel(h.numSectors) - 1)}

TwoLevelSectors(h, d) ==
  LET index == h.dataSectors[TwoLevelIdx]
      left  == TwoLevel(h.numSectors)
  IN  {index} \cup UNION {
        {d[index][i]} \cup
        {d[d[index][i]][j] : j \in 0..(Least(LevelNum, left - i * LevelNum) - 1)}
          : i \in 0..(divRoundUp(left, LevelNum) - 1)}

\* A wrong Deallocate: keeps the index blocks' own sectors.
DataOnly(h, d) ==
  {ByteToSector(h, d, i * SectorSize) : i \in 0..(h.numSectors - 1)}

\* The sectors Deallocate asserts to be marked, and clears.
Cleared(h, d) ==
  {h.dataSectors[i] : i \in 0..(Direct(h.numSectors) - 1)}
  \cup (IF OneLevel(h.numSectors) > 0 THEN OneLevelSectors(h, d) ELSE {})
  \cup (IF TwoLevel(h.numSectors) > 0 THEN TwoLevelSectors(h, d) ELSE {})
-----------------------------------------------------------------------------
Init ==
  /\ freeMap = {}
  /\ disk = [s \in Sector |-> JunkBlock]
  /\ hdr = [f \in File |-> NoFile]

Install(f, w, bytes) ==
  /\ freeMap' = w.map
  /\ disk' = w.disk
  /\ hdr' = [hdr EXCEPT ![f] = [numBytes |-> bytes,
                                numSectors |-> divRoundUp(bytes, SectorSize),
                                dataSectors |-> w.dataSectors]]

Allocate(f, fileSize) ==
  LET n == divRoundUp(fileSize, SectorSize)
  IN  /\ hdr[f] = NoFile
      /\ ~AllocateRefuses(NumClear(freeMap), n)
      /\ Install(f, Fill([map |-> freeMap, disk |-> disk, dataSectors |-> NewHeader],
                         0, n), fileSize)

\* A call that is refused changes nothing.  The sum is checked against the
\* bound; the code runs into ASSERT(FALSE) at the largest file.
ExpandFileSize(f, ExpandBytes) ==
  LET h    == hdr[f]
      to   == h.numBytes + ExpandBytes
      n    == divRoundUp(to, SectorSize)
  IN  /\ h # NoFile
      /\ to <= MaxBytes
      /\ ~ExpandRefuses(NumClear(freeMap), h.numSectors, n)
      /\ Roomy => Needed(h.numSectors, n) <= NumClear(freeMap)
      /\ Install(f, Fill([map |-> freeMap, disk |-> disk,
                          dataSectors |-> h.dataSectors], h.numSectors, n), to)

\* What a cleared sector holds is junk from then on: whoever gets it next may
\* write anything there.
Deallocate(f) ==
  LET cleared == Cleared(hdr[f], disk)
  IN  /\ hdr[f] # NoFile
      /\ freeMap' = freeMap \ cleared
      /\ disk' = [s \in Sector |-> IF s \in cleared THEN JunkBlock ELSE disk[s]]
      /\ hdr' = [hdr EXCEPT ![f] = NoFile]

Next ==
  \E f \in File :
    \/ \E bytes \in Request : Allocate(f, bytes) \/ ExpandFileSize(f, bytes)
    \/ Deallocate(f)

Spec == Init /\ [][Next]_vars
-----------------------------------------------------------------------------
Block(h, d, i) == ByteToSector(h, d, i * SectorSize)

\* The places a sector is used at: <<f, i>> for the i-th data sector of f, and
\* the index blocks.
DataPlaces  == UNION {{f} \X (0..(hdr[f].numSectors - 1)) : f \in File}
IndexOf(f)  == Cleared(hdr[f], disk) \ DataOnly(hdr[f], disk)

(***************************************************************************)
(* The accounting of sectors: every byte of every file lies in a marked    *)
(* sector that ByteToSector finds, no two data sectors coincide, a file    *)
(* has as many index blocks as its length calls for, disjoint from all     *)
(* else, and nothing else is marked, so that Deallocate clears what        *)
(* Allocate and ExpandFileSize took: neither sharing nor a leak, through   *)
(* every sequence of growths across the three levels and removals.         *)
(***************************************************************************)
SectorsAccounted ==
  LET At(p) == Block(hdr[p[1]], disk, p[2])
      index == UNION {IndexOf(f) : f \in File}
      data  == {At(p) : p \in DataPlaces}
  IN  /\ Cardinality(data) = Cardinality(DataPlaces)
      /\ \A f \in File : Cardinality(IndexOf(f)) = IndexBlocks(hdr[f].numSectors)
      /\ \A f, g \in File : f # g => IndexOf(f) \cap IndexOf(g) = {}
      /\ data \cap index = {}
      /\ freeMap = data \cup index
      /\ freeMap \subseteq Sector

(***************************************************************************)
(* Growing a file, or doing anything to another, leaves each of its data   *)
(* sectors where it was: the bytes written so far are still found.         *)
(***************************************************************************)
BlocksStay ==
  [][\A f \in File :
       hdr[f] # NoFile /\ hdr'[f] # NoFile =>
         \A i \in 0..(hdr[f].numSectors - 1) :
           Block(hdr'[f], disk', i) = Block(hdr[f], disk, i)]_vars
===============================================================================
