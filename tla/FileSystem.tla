------------------------------ MODULE FileSystem ------------------------------
(***************************************************************************)
(* FileSystem of filesys/filesys.cc (built with MULTI_LEVEL_DIR), with     *)
(* Directory and OpenFile.  A step is what a thread does from one wait for *)
(* the disk to the next; between two steps the others run, and any calls   *)
(* may overlap: nothing but the lock of a file that is written keeps them  *)
(* apart.  A header is its extension and the sectors of its file           *)
(* (FileHeader says how those are found); the table of a directory is kept *)
(* under the sector of its header.  What files hold is left out.           *)
(***************************************************************************)
EXTENDS Integers, Sequences, FiniteSets, FiniteSetsExt, Functions

CONSTANTS
  Thread,
  Path,           \* the paths that are used: sequences of names
  DirPath,        \* those of them that are created as directories
  NumSectors, NumDirEntries,
  InitialSize,    \* the blocks a file is created with
  MaxBlocks,      \* bound on the sectors of a file
  MaxVisits       \* bound on the visitors, whom some paths never count out

VARIABLES
  map,            \* on disk: the sectors marked in the free map
  hdr,            \* on disk: hdr[s], the header in sector s
  table,          \* on disk: table[s], the directory whose header is in s
  visitorCnt,     \* SynchDisk::visitorCnt
  handle,         \* handle[t]: the OpenFile that t holds, or NoHandle
  call,           \* call[t]: the call t is in, with its local variables
  overtaken       \* history: two calls have had to do with one thing at once

vars == <<map, hdr, table, visitorCnt, handle, call, overtaken>>

Sector          == 0..(NumSectors - 1)
FreeMapSector   == 0
DirectorySector == 1
PipeSector      == 2
Reserved        == {FreeMapSector, DirectorySector, PipeSector}
NoSector        == -1
NoHeader        == [ext |-> "none", blocks |-> {}]
NoHandle        == [sector |-> NoSector, hdr |-> NoHeader]
EmptyTable      == [n \in {} |-> NoSector]

\* dir and tab: the directory the call is at and its copy of the table; file: the
\* OpenFile of that directory, when it has one; sector and hdr: of the file.
NewCall(op, p, pc) ==
  [op |-> op, path |-> p, pc |-> pc, level |-> 1, dir |-> DirectorySector,
   tab |-> EmptyTable, file |-> NoHandle, sector |-> NoSector, hdr |-> NoHeader, map |-> {}]
Idle == [NewCall("none", <<>>, "idle") EXCEPT !.dir = NoSector]

Base(p) == p[Len(p)]

Find(tab, name) == IF name \in DOMAIN tab THEN tab[name] ELSE NoSector
CanAdd(tab) == Cardinality(DOMAIN tab) < NumDirEntries
Add(tab, name, s) == [n \in DOMAIN tab \cup {name} |-> IF n = name THEN s ELSE tab[n]]
Remove(tab, name) == [n \in DOMAIN tab \ {name} |-> tab[n]]
IsEmpty(tab) == DOMAIN tab = {}

\* The n clear sectors BitMap::Find returns one after the other.
Lowest(clear, n) == {s \in clear : Cardinality({c \in clear : c < s}) < n}

\* The file system is formatted: three headers, and nothing in the root.  (The
\* blocks of the map, the root and the pipe are counted in with their headers.)
Init ==
  /\ map = Reserved
  /\ hdr = [s \in Sector |-> IF s \in Reserved THEN [ext |-> "sys", blocks |-> {}]
                             ELSE NoHeader]
  /\ table = [s \in Sector |-> EmptyTable]
  /\ visitorCnt = [s \in Sector |-> 0]
  /\ handle = [t \in Thread |-> NoHandle]
  /\ call = [t \in Thread |-> Idle]
  /\ overtaken = FALSE

\* The visitors of the map and of the root are not counted: both stay open, and
\* no call looks at their numbers.
Goto(t, pc)    == call' = [call EXCEPT ![t].pc = pc]
Return(t)      == call' = [call EXCEPT ![t] = Idle]
Visit(s)       == /\ SumFunction(visitorCnt) < MaxVisits
                  /\ visitorCnt' = [visitorCnt EXCEPT ![s] = @ + 1]
Leave(s)       == visitorCnt' = [visitorCnt EXCEPT ![s] = @ - 1]
At(t, pc, ops) == call[t].pc = pc /\ call[t].op \in ops
DiskSame       == UNCHANGED <<map, hdr, table>>
-----------------------------------------------------------------------------
\* A call is halfway through its writes.
Writing(t) == call[t].pc \in {"writeHdr", "writeSub", "writeDir", "writeMap"}

\* A call has read the table of a directory, which it is to write.
Changing(t) == /\ call[t].op \in {"Create", "Remove", "RemoveDir"}
               /\ call[t].pc \in {"fetchHdr", "readSub", "test", "fetchMap"} \/ Writing(t)

\* A removal has made up its mind.
Removing(t) == /\ call[t].op \in {"Remove", "RemoveDir"}
               /\ call[t].pc = "fetchMap" \/ Writing(t)

Growing(t) == call[t].op = "Grow"

\* t and u have to do with one thing at once, and t changes it.
Overlap(t, u) ==
  LET s == call[t].sector
  IN  \/ t # u /\ Writing(t) /\ Writing(u)
      \/ t # u /\ Changing(t) /\ Changing(u) /\ call[t].dir = call[u].dir
      \/ t # u /\ (Removing(t) \/ Growing(t)) /\ s \in {call[u].sector, call[u].dir}
      \/ t # u /\ Growing(t) /\ handle[u].sector = s
      \/ Removing(t) /\ call[t].op = "RemoveDir" /\ handle[u].sector = s

NoteOverlap == overtaken' = (overtaken \/ \E t, u \in Thread : Overlap(t, u)')

\* A file is opened by a thread that holds none.
Call(t, op, p) ==
  /\ op \in {"Create", "Open", "Remove", "RemoveDir"}
  /\ call[t] = Idle
  /\ op = "Open" => handle[t] = NoHandle
  /\ call' = [call EXCEPT ![t] = NewCall(op, p, "read")]
  /\ DiskSame /\ UNCHANGED <<visitorCnt, handle>>
  /\ NoteOverlap
-----------------------------------------------------------------------------
(***************************************************************************)
(* FindDirSector and FindDir, a directory of the path at a time: but for   *)
(* the root, an OpenFile is made (its header is read, then it is counted   *)
(* in), the table is read, and the OpenFile is deleted again (the header   *)
(* is written back, then it is counted out).                               *)
(***************************************************************************)
OpenDirectory(t) ==
  LET d == call[t].dir
  IN  /\ At(t, "open", {"Create", "Open", "Remove", "RemoveDir"})
      /\ call' = [call EXCEPT ![t].file = [sector |-> d, hdr |-> hdr[d]], ![t].pc = "read"]
      /\ DiskSame /\ UNCHANGED <<visitorCnt, handle>>
      /\ NoteOverlap

\* What a call does when it is through with a directory of its path.
Onward(c) ==
  IF c.level < Len(c.path)
  THEN [c EXCEPT !.dir = c.sector, !.level = @ + 1, !.pc = "open",
                 !.sector = NoSector, !.file = NoHandle]
  ELSE IF c.op = "Open" /\ c.sector # NoSector
       THEN [c EXCEPT !.file = NoHandle, !.pc = "fetchHdr"]
       ELSE Idle

\* A directory that is not found leaves the one before open (Create asserts that
\* there is none such).  Create and RemoveDir keep the last directory open, and
\* return without closing it when the name is there, or is not.  Remove wants a
\* file of the root.
ReadDirectory(t) ==
  LET found == Find(table[call[t].dir], call[t].path[call[t].level])
      c     == [call[t] EXCEPT !.sector = found]
      root  == c.dir = DirectorySector
      last  == c.level = Len(c.path)
      keeps == last /\ (c.op \in {"Create", "RemoveDir"} \/ (c.op = "Remove" /\ root))
      goes  == [c EXCEPT !.tab = table[c.dir],
                         !.pc = IF c.op = "Create" THEN "fetchMap" ELSE "fetchHdr"]
  IN  /\ At(t, "read", {"Create", "Open", "Remove", "RemoveDir"})
      /\ IF root THEN UNCHANGED visitorCnt ELSE Visit(c.dir)
      /\ \/ /\ ~last /\ found = NoSector /\ c.op # "Create"
            /\ Return(t)
         \/ /\ keeps
            /\ call' = [call EXCEPT ![t] =
                          IF (c.op = "Create") = (found = NoSector) THEN goes ELSE Idle]
         \/ /\ ~keeps /\ (last \/ found # NoSector)
            /\ call' = [call EXCEPT ![t] = IF root THEN Onward(c) ELSE [c EXCEPT !.pc = "close"]]
      /\ DiskSame /\ UNCHANGED handle
      /\ NoteOverlap

CloseDirectory(t) ==
  LET f == call[t].file
  IN  /\ call[t].pc = "close"
      /\ hdr' = [hdr EXCEPT ![f.sector] = f.hdr]
      /\ Goto(t, "leave")
      /\ UNCHANGED <<map, table, visitorCnt, handle>>
      /\ NoteOverlap

LeaveDirectory(t) ==
  /\ call[t].pc = "leave"
  /\ Leave(call[t].file.sector)
  /\ call' = [call EXCEPT ![t] = Onward(@)]
  /\ DiskSame /\ UNCHANGED handle
  /\ NoteOverlap

\* The end of a call that has done what it should: delete DirFile, if it has one.
Finish(t) ==
  call' = [call EXCEPT ![t] = IF @.file = NoHandle THEN Idle
             ELSE [@ EXCEPT !.pc = "close", !.sector = NoSector, !.tab = EmptyTable,
                            !.hdr = NoHeader, !.map = {}]]
-----------------------------------------------------------------------------
\* Open ends in OpenFile's constructor, which reads the header and then counts
\* itself in; Remove and RemoveDir read it too, and open a directory.
FetchHeader(t) ==
  LET c == call[t]
      h == hdr[c.sector]
  IN  /\ At(t, "fetchHdr", {"Open", "Remove", "RemoveDir"})
      /\ call' = [call EXCEPT ![t].hdr = h,
                    ![t].pc = CASE c.op = "Open"   -> "count"
                                [] h.ext = "dir" /\ c.op # "Open" -> "readSub"
                                [] h.ext # "dir" /\ c.op = "Remove" -> "test"
                                [] OTHER           -> "fetchMap"]
      /\ DiskSame /\ UNCHANGED <<visitorCnt, handle>>
      /\ NoteOverlap

OpenFile(t) ==
  LET c == call[t]
  IN  /\ At(t, "count", {"Open"})
      /\ Visit(c.sector)
      /\ handle' = [handle EXCEPT ![t] = [sector |-> c.sector, hdr |-> c.hdr]]
      /\ Return(t)
      /\ DiskSame
      /\ NoteOverlap

\* A directory is removed only if it is empty.  SubDirFile stays open when it is:
\* Remove is then sure to be refused below, RemoveDir frees a sector whose
\* visitorCnt does not go back to 0.
ReadSubDirectory(t) ==
  LET c == call[t]
  IN  /\ At(t, "readSub", {"Remove", "RemoveDir"})
      /\ Visit(c.sector)
      /\ Goto(t, CASE ~IsEmpty(table[c.sector]) -> "closeSub"
                   [] IsEmpty(table[c.sector]) /\ c.op = "Remove" -> "test"
                   [] OTHER -> "fetchMap")
      /\ DiskSame /\ UNCHANGED handle
      /\ NoteOverlap

CloseSubDirectory(t) ==
  /\ At(t, "closeSub", {"Remove", "RemoveDir"})
  /\ hdr' = [hdr EXCEPT ![call[t].sector] = call[t].hdr]
  /\ Goto(t, "leaveSub")
  /\ UNCHANGED <<map, table, visitorCnt, handle>>
  /\ NoteOverlap

LeaveSubDirectory(t) ==
  /\ At(t, "leaveSub", {"Remove", "RemoveDir"})
  /\ Leave(call[t].sector)
  /\ Finish(t)
  /\ DiskSame /\ UNCHANGED handle
  /\ NoteOverlap

\* A wrong test, which looks for a second visitor.
TestVisitorsLate(t) ==
  /\ At(t, "test", {"Remove"})
  /\ IF visitorCnt[call[t].sector] > 1 THEN Return(t) ELSE Goto(t, "fetchMap")
  /\ DiskSame /\ UNCHANGED <<visitorCnt, handle>>
  /\ NoteOverlap

TestVisitors(t) ==
  /\ At(t, "test", {"Remove"})
  /\ IF visitorCnt[call[t].sector] # 0 THEN Return(t) ELSE Goto(t, "fetchMap")
  /\ DiskSame /\ UNCHANGED <<visitorCnt, handle>>
  /\ NoteOverlap
-----------------------------------------------------------------------------
\* Create reads the map and takes from it a header and its blocks (one for a
\* directory); it gives up, leaving DirFile open, when there is no room.
CreateFetchMap(t, initialSize) ==
  LET c     == call[t]
      isDir == c.path \in DirPath
      size  == IF isDir THEN 1 ELSE initialSize
      clear == Sector \ map
      head  == Min(clear)
      data  == Lowest(clear \ {head}, size)
  IN  /\ At(t, "fetchMap", {"Create"})
      /\ IF Cardinality(clear) < size + 1 \/ ~CanAdd(c.tab) THEN Return(t)
         ELSE call' = [call EXCEPT ![t].map = map \cup {head} \cup data,
                         ![t].sector = head,
                         ![t].hdr = [ext |-> IF isDir THEN "dir" ELSE "file", blocks |-> data],
                         ![t].tab = Add(c.tab, Base(c.path), head),
                         ![t].pc = "writeHdr"]
      /\ DiskSame /\ UNCHANGED <<visitorCnt, handle>>
      /\ NoteOverlap

\* A wrong removal: the header's own sector stays marked.
RemoveFetchMapNoClear(t) ==
  LET c == call[t]
  IN  /\ At(t, "fetchMap", {"Remove", "RemoveDir"})
      /\ c.hdr.blocks \subseteq map
      /\ call' = [call EXCEPT ![t].map = map \ c.hdr.blocks,
                    ![t].tab = Remove(c.tab, Base(c.path)),
                    ![t].pc = "writeMap"]
      /\ DiskSame /\ UNCHANGED <<visitorCnt, handle>>
      /\ NoteOverlap

\* Remove and RemoveDir: Deallocate the blocks, which asserts that they are
\* marked, and Clear the header.
RemoveFetchMap(t) ==
  LET c == call[t]
  IN  /\ At(t, "fetchMap", {"Remove", "RemoveDir"})
      /\ c.hdr.blocks \subseteq map
      /\ call' = [call EXCEPT ![t].map = map \ (c.hdr.blocks \cup {c.sector}),
                    ![t].tab = Remove(c.tab, Base(c.path)),
                    ![t].pc = "writeMap"]
      /\ DiskSame /\ UNCHANGED <<visitorCnt, handle>>
      /\ NoteOverlap

\* A Write past the end: the thread has taken the file's lock (PlusWriter), which
\* it keeps to the end.
CallGrow(t) ==
  /\ handle[t] # NoHandle /\ call[t] = Idle
  /\ Cardinality(handle[t].hdr.blocks) < MaxBlocks
  /\ handle[t].hdr.ext = "file"
  /\ \A u \in Thread : ~(call[u].op = "Grow" /\ call[u].sector = handle[t].sector)
  /\ call' = [call EXCEPT ![t] = [NewCall("Grow", <<>>, "fetchMap") EXCEPT
                                    !.dir = NoSector, !.sector = handle[t].sector]]
  /\ DiskSame /\ UNCHANGED <<visitorCnt, handle>>
  /\ NoteOverlap

\* WriteAt fetches the map through an OpenFile of its own and expands the header
\* of the handle.  A failure is asserted not to happen.
GrowFetchMap(t) ==
  LET new == Lowest(Sector \ map, 1)
      to  == [handle[t].hdr EXCEPT !.blocks = @ \cup new]
  IN  /\ At(t, "fetchMap", {"Grow"})
      /\ new # {}
      /\ call' = [call EXCEPT ![t].map = map \cup new, ![t].hdr = to, ![t].pc = "writeHdr"]
      /\ handle' = [handle EXCEPT ![t].hdr = to]
      /\ DiskSame /\ UNCHANGED visitorCnt
      /\ NoteOverlap
-----------------------------------------------------------------------------
\* The writes, in the order of each call: Create header, (empty directory,)
\* directory, map; the removals map, directory; Grow header, map.
WriteHeader(t) ==
  LET c == call[t]
  IN  /\ At(t, "writeHdr", {"Create", "Grow"})
      /\ hdr' = [hdr EXCEPT ![c.sector] = c.hdr]
      /\ Goto(t, CASE c.op = "Grow" -> "writeMap"
                   [] c.op # "Grow" /\ c.hdr.ext = "dir" -> "writeSub"
                   [] OTHER -> "writeDir")
      /\ UNCHANGED <<map, table, visitorCnt, handle>>
      /\ NoteOverlap

\* subDir is opened, written and deleted here: visitorCnt is as before.
WriteSubDirectory(t) ==
  /\ At(t, "writeSub", {"Create"})
  /\ table' = [table EXCEPT ![call[t].sector] = EmptyTable]
  /\ Goto(t, "writeDir")
  /\ UNCHANGED <<map, hdr, visitorCnt, handle>>
  /\ NoteOverlap

\* The header of a sector that is freed is forgotten, unless a call may still read
\* it: whoever gets the sector writes it first.
WriteDirectory(t) ==
  LET c      == call[t]
      forgot == /\ c.op # "Create"
                /\ \A u \in Thread \ {t} : c.sector \notin {call[u].dir, call[u].sector}
  IN  /\ At(t, "writeDir", {"Create", "Remove", "RemoveDir"})
      /\ table' = [table EXCEPT ![c.dir] = c.tab]
      /\ hdr' = IF forgot THEN [hdr EXCEPT ![c.sector] = NoHeader] ELSE hdr
      /\ IF c.op = "Create" THEN Goto(t, "writeMap") ELSE Finish(t)
      /\ UNCHANGED <<map, visitorCnt, handle>>
      /\ NoteOverlap

WriteMap(t) ==
  LET c == call[t]
  IN  /\ At(t, "writeMap", {"Create", "Remove", "RemoveDir", "Grow"})
      /\ map' = c.map
      /\ IF c.op \in {"Create", "Grow"} THEN Finish(t)
         ELSE call' = [call EXCEPT ![t].map = {}, ![t].pc = "writeDir"]
      /\ UNCHANGED <<hdr, table, visitorCnt, handle>>
      /\ NoteOverlap

\* delete of an OpenFile: the handle's copy of the header is written back, then
\* the visitor is counted out.
CallClose(t) ==
  LET f == handle[t]
  IN  /\ f # NoHandle /\ call[t] = Idle
      /\ hdr' = [hdr EXCEPT ![f.sector] = f.hdr]
      /\ call' = [call EXCEPT ![t] = [Idle EXCEPT !.op = "Close", !.pc = "leaveFile"]]
      /\ UNCHANGED <<map, table, visitorCnt, handle>>
      /\ NoteOverlap

LeaveFile(t) ==
  /\ At(t, "leaveFile", {"Close"})
  /\ Leave(handle[t].sector)
  /\ handle' = [handle EXCEPT ![t] = NoHandle]
  /\ Return(t)
  /\ DiskSame
  /\ NoteOverlap

\* Nachos is halted between two calls and started again without formatting:
\* nothing is open.
Restart ==
  /\ \A t \in Thread : call[t] = Idle
  /\ visitorCnt' = [s \in Sector |-> 0]
  /\ handle' = [t \in Thread |-> NoHandle]
  /\ DiskSame /\ UNCHANGED call
  /\ NoteOverlap
-----------------------------------------------------------------------------
Next ==
  \/ \E t \in Thread, op \in {"Create", "Open", "Remove", "RemoveDir"}, p \in Path :
       Call(t, op, p)
  \/ \E t \in Thread :
       \/ OpenDirectory(t) \/ ReadDirectory(t) \/ CloseDirectory(t) \/ LeaveDirectory(t)
       \/ FetchHeader(t) \/ OpenFile(t)
       \/ ReadSubDirectory(t) \/ CloseSubDirectory(t) \/ LeaveSubDirectory(t)
       \/ TestVisitors(t)
       \/ \E size \in InitialSize : CreateFetchMap(t, size)
       \/ RemoveFetchMap(t)
       \/ CallGrow(t) \/ GrowFetchMap(t)
       \/ WriteHeader(t) \/ WriteSubDirectory(t) \/ WriteDirectory(t) \/ WriteMap(t)
       \/ CallClose(t) \/ LeaveFile(t)
  \/ Restart

Spec == Init /\ [][Next]_vars
-----------------------------------------------------------------------------
\* The headers the directories lead to, from the root.
SubDirs == {s \in {table[DirectorySector][n] : n \in DOMAIN table[DirectorySector]} :
              hdr[s].ext = "dir"}
Entries == {<<d, n>> \in ({DirectorySector} \cup SubDirs) \X
                         {Base(p) : p \in Path} : n \in DOMAIN table[d]}
Header(e) == table[e[1]][e[2]]
Used(e)   == {Header(e)} \cup hdr[Header(e)].blocks

(***************************************************************************)
(* As long as no two calls have had to do with one thing at once, two      *)
(* files never share a sector, not even while a call is halfway through    *)
(* its writes; and when none is, the sectors marked in the map are those   *)
(* of the files the directories lead to: nothing is lost, and nothing in   *)
(* use can be handed out.                                                  *)
(***************************************************************************)
MapMatchesFiles ==
  ~overtaken =>
    /\ \A e, f \in Entries : e # f => Used(e) \cap Used(f) = {}
    /\ (\A t \in Thread : ~Writing(t)) => map = Reserved \cup UNION {Used(e) : e \in Entries}

(***************************************************************************)
(* visitorCnt never falls behind the handles.  And as long as no two calls *)
(* have had to do with one thing at once, a file stays while somebody has  *)
(* it open: the header sector of a handle is that of a file in a           *)
(* directory, its blocks are marked, and no copy of the header is staler   *)
(* than the disk, so the copy that the destructor writes back undoes       *)
(* nothing.                                                                *)
(***************************************************************************)
HandlesLive ==
  /\ \A s \in Sector : visitorCnt[s] >= Cardinality({t \in Thread : handle[t].sector = s})
  /\ ~overtaken => \A t \in Thread : handle[t] # NoHandle =>
       /\ \E e \in Entries : Header(e) = handle[t].sector
       /\ (\A u \in Thread : ~Writing(u)) =>
            /\ handle[t].hdr = hdr[handle[t].sector]
            /\ handle[t].hdr.blocks \cup {handle[t].sector} \subseteq map

(***************************************************************************)
(* "ought to be marked!" (filehdr.cc:222): when a call is about to free    *)
(* the blocks of a file, and none is halfway through its writes, they are  *)
(* marked in the map.                                                      *)
(***************************************************************************)
BlocksMarked ==
  \A t \in Thread : Removing(t) /\ (\A u \in Thread : ~Writing(u)) =>
    call[t].hdr.blocks \subseteq map
===============================================================================
