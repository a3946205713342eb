-------------------------------- MODULE Paging --------------------------------
(***************************************************************************)
(* Virtual memory: the TLB and Translate of machine/translate.cc, the      *)
(* frames of machine/machine.cc, the fault handlers of                     *)
(* userprog/exception.cc and the address spaces of userprog/addrspace.cc,  *)
(* as built in vm/ (USE_TLB, USE_BITMAP, USE_DISK, FILESYS).  A page holds *)
(* one value.  A thread waits for the disk inside PageFaultHandler and, on *)
(* its way from Exec to its first instruction, before it has a space; it   *)
(* may be switched at every user instruction.                              *)
(***************************************************************************)
EXTENDS Integers, FiniteSets, FiniteSetsExt

CONSTANTS
  Space,           \* the address spaces, each with its thread
  NumPages,        \* pages of an address space
  NumPhysPages, TLBSize,
  Value,           \* what a page may hold; 0 is what the executable loads
  Policies         \* the TLB replacement policies that are looked at

None == "None"

ASSUME PagingAssumption ==
  /\ None \notin Space
  /\ {NumPages, NumPhysPages, TLBSize} \subseteq Nat \ {0}
  /\ 0 \in Value
  /\ Policies \subseteq {"index", "FIFO", "CLOCK"}

VARIABLES
  policy,          \* USE_FIFO, USE_CLOCK or neither; fixed
  bitmap,          \* Machine::bitmap: the frames in use
  mainMemory, tlb, Index,
  vm,              \* vm[s]: the file VMName of s
  pageTable,       \* pageTable[s]
  tableOf,         \* the space whose table Machine::pageTable is, or None: freed
  current,         \* the running thread, named by its space, or None
  state,           \* state[s]: "none"; "exec", a thread that Exec has made;
                   \*   "opening", one that has read its file's name; "user", or
                   \*   "fault", waiting for the disk
  fault,           \* fault[s]: the page whose fault s is handling
  written,         \* history: written[s][v], what s last wrote to v
  foreign,         \* history: the pages whose entry in the TLB was loaded by a
                   \*   thread that had no space
  spoiled          \* history: spoiled[s], the pages whose contents were replaced
                   \*   unsaved, or written through a foreign entry

history == <<written, foreign, spoiled>>
memory  == <<bitmap, mainMemory, vm, pageTable>>
threads == <<tableOf, current, state, fault>>
vars    == <<policy, memory, tlb, Index, threads, history>>

Page   == 0..(NumPages - 1)
Frame  == 0..(NumPhysPages - 1)
Slot   == 0..(TLBSize - 1)
NoFrame == -1
\* What an invalid entry of the TLB has in its other fields is never looked at.
NoEntry == [virtualPage |-> 0, physicalPage |-> NoFrame, valid |-> FALSE,
            use |-> FALSE, dirty |-> FALSE]
NoFault == 0
NewTable == [v \in Page |-> [NoEntry EXCEPT !.virtualPage = v]]
Image    == [v \in Page |-> 0]

Valid(table) == {v \in DOMAIN table : table[v].valid}
Frames(table) == {table[v].physicalPage : v \in Valid(table)}

\* The first entry of the program is a process with its image on disk.
Init ==
  /\ policy \in Policies
  /\ bitmap = {}
  /\ mainMemory = [f \in Frame |-> 0]
  /\ tlb = [i \in Slot |-> NoEntry]
  /\ Index = 0
  /\ vm = [s \in Space |-> Image]
  /\ pageTable = [s \in Space |-> NewTable]
  /\ current \in Space /\ tableOf = current
  /\ state = [s \in Space |-> IF s = current THEN "user" ELSE "none"]
  /\ fault = [s \in Space |-> NoFault]
  /\ written = [s \in Space |-> Image]
  /\ foreign = {}
  /\ spoiled = [s \in Space |-> {}]
-----------------------------------------------------------------------------
\* currentThread->space is not NULL.
HasSpace(s) == state[s] \in {"user", "fault"}

\* The entry Translate finds: the first valid one for the page.
Hits(v) == {i \in Slot : tlb[i].valid /\ tlb[i].virtualPage = v}
User(s) == current = s /\ state[s] = "user"

\* A use of page v through slot i; only CLOCK looks at the use bits, and nobody
\* at the dirty bits of the TLB, which never reach the page table.
Used(i) == IF policy = "CLOCK" THEN [tlb EXCEPT ![i].use = TRUE] ELSE tlb

ReadMem(s, v) ==
  /\ User(s) /\ Hits(v) # {}
  /\ tlb' = Used(Min(Hits(v)))
  /\ UNCHANGED <<policy, memory, Index, threads, history>>

\* The pages of s on frame f: a valid one, or one whose fault waits for the disk.
PagesOn(s, f) ==
  {v \in Page : /\ pageTable[s][v].physicalPage = f
                /\ pageTable[s][v].valid \/ (state[s] = "fault" /\ fault[s] = v)}

\* A write through a foreign entry spoils page v of s, which does not get it, and
\* the pages that do.
SpoiledBy(s, v, f) ==
  IF v \notin foreign THEN [spoiled EXCEPT ![s] = @ \ {v}]
  ELSE [t \in Space |-> spoiled[t] \cup PagesOn(t, f) \cup (IF t = s THEN {v} ELSE {})]

WriteMem(s, v, x) ==
  LET frame == tlb[Min(Hits(v))].physicalPage
  IN  /\ User(s) /\ Hits(v) # {}
      /\ tlb' = Used(Min(Hits(v)))
      /\ mainMemory' = [mainMemory EXCEPT ![frame] = x]
      /\ written' = [written EXCEPT ![s][v] = x]
      /\ spoiled' = SpoiledBy(s, v, frame)
      /\ UNCHANGED <<policy, bitmap, vm, pageTable, Index, threads, foreign>>
-----------------------------------------------------------------------------
TLBFIFO(page) ==
  LET free == {i \in Slot : ~tlb[i].valid}
  IN  /\ tlb' = IF free # {} THEN [tlb EXCEPT ![Min(free)] = page]
                ELSE [i \in Slot |-> IF i = TLBSize - 1 THEN page ELSE tlb[i + 1]]
      /\ UNCHANGED Index

\* The hand goes on from Index, taking use bits away, to the first entry that is
\* invalid or has none; after a whole turn that is the one at Index.
TLBClock(page) ==
  LET at(k)  == (Index + k) % TLBSize
      stops  == {k \in Slot : ~tlb[at(k)].valid \/ ~tlb[at(k)].use}
      turn   == IF stops = {} THEN TLBSize ELSE Min(stops)
      passed == {at(k) : k \in 0..(turn - 1)}
  IN  /\ Index' = at(turn)
      /\ tlb' = [i \in Slot |-> IF i = at(turn) THEN [page EXCEPT !.use = TRUE]
                                ELSE IF i \in passed THEN [tlb[i] EXCEPT !.use = FALSE]
                                ELSE tlb[i]]

Load(page) ==
  \/ policy = "FIFO" /\ TLBFIFO(page)
  \/ policy = "CLOCK" /\ TLBClock(page)
  \/ policy = "index" /\ tlb' = [tlb EXCEPT ![Index] = page]
                      /\ Index' = (Index + 1) % TLBSize

\* TLBMissHandler for a page in memory.  The instruction is run again.
TLBMissHandler(s, v) ==
  /\ User(s) /\ Hits(v) = {} /\ pageTable[s][v].valid
  /\ Load(pageTable[s][v])
  /\ foreign' = foreign \ {v}
  /\ UNCHANGED <<policy, memory, threads, written, spoiled>>

\* A wrong SaveState, which leaves the TLB as it is.
SaveNothing == tlb

\* AddrSpace::SaveState: the TLB without a valid entry.
SaveState == [i \in Slot |-> NoEntry]

\* ReplacePage takes the first valid page that is not dirty, else the first valid
\* page, which it writes back.
Victim(table) ==
  LET clean == {v \in Valid(table) : ~table[v].dirty}
  IN  IF clean # {} THEN Min(clean) ELSE Min(Valid(table))

\* PageFaultHandler up to its wait for the disk, for which the thread sleeps:
\* Scheduler::Run, even when it comes back to the same thread, saves the TLB.
\* With no free frame and no page of its own in memory, the handler would go on
\* with frame -1: not modelled.
PageFaultHandler(s, v) ==
  LET free   == Frame \ bitmap
      victim == Victim(pageTable[s])
      old    == pageTable[s][victim]
      frame  == IF free # {} THEN Min(free) ELSE old.physicalPage
      kept   == IF free # {} THEN pageTable[s]
                ELSE [pageTable[s] EXCEPT ![victim].valid = FALSE]
      lost   == free = {} /\ ~old.dirty /\ mainMemory[frame] # vm[s][victim]
  IN  /\ User(s) /\ Hits(v) = {} /\ ~pageTable[s][v].valid
      /\ free # {} \/ Valid(pageTable[s]) # {}
      /\ fault' = [fault EXCEPT ![s] = v]
      /\ bitmap' = bitmap \cup {frame}
      /\ pageTable' = [pageTable EXCEPT ![s] = [kept EXCEPT ![v].physicalPage = frame]]
      /\ vm' = IF free = {} /\ old.dirty
               THEN [vm EXCEPT ![s][victim] = mainMemory[frame]] ELSE vm
      /\ state' = [state EXCEPT ![s] = "fault"]
      /\ tlb' = SaveState
      /\ foreign' = {}
      /\ spoiled' = IF lost THEN [spoiled EXCEPT ![s] = @ \cup {victim}] ELSE spoiled
      /\ UNCHANGED <<policy, mainMemory, Index, tableOf, current, written>>

\* The page has been read.  The handlers return, and TLBMissHandler loads the
\* entry it had copied before the fault: an invalid one, so that the access
\* misses once more.
PageLoaded(s) ==
  LET v     == fault[s]
      entry == pageTable[s][v]
  IN  /\ current = s /\ state[s] = "fault"
      /\ mainMemory' = [mainMemory EXCEPT ![entry.physicalPage] = vm[s][v]]
      /\ pageTable' = [pageTable EXCEPT ![s][v] = [entry EXCEPT !.valid = TRUE,
                         !.use = FALSE, !.dirty = FALSE]]
      /\ Load(NoEntry)
      /\ state' = [state EXCEPT ![s] = "user"]
      /\ fault' = [fault EXCEPT ![s] = NoFault]
      /\ UNCHANGED <<policy, bitmap, vm, tableOf, current, history>>
-----------------------------------------------------------------------------
\* Scheduler::Run to another thread, or to the same one after a wait that nobody
\* else used: SaveState and RestoreState, each of a thread that has a space.
Switch(t) ==
  LET saves == current # None /\ HasSpace(current)
  IN  /\ state[t] # "none"
      /\ tlb' = IF saves THEN SaveState ELSE tlb
      /\ foreign' = IF saves THEN {} ELSE foreign
      /\ tableOf' = IF HasSpace(t) THEN t ELSE tableOf
      /\ current' = t
      /\ UNCHANGED <<policy, memory, Index, state, fault, written, spoiled>>

\* Exec makes a thread that has no space yet.
ExecHandler(s, c) ==
  /\ User(s) /\ state[c] = "none"
  /\ state' = [state EXCEPT ![c] = "exec"]
  /\ UNCHANGED <<policy, memory, tlb, Index, tableOf, current, fault, history>>

\* GetFileName of the new thread: it reads the name of its executable, which lies
\* in one page v, through the TLB and the page table that the machine was left
\* with.  A freed table may hold any entry still; with an invalid one the handler
\* uses the space that the thread does not have, and the kernel is gone.
GetFileName(c, v) ==
  /\ current = c /\ state[c] = "exec"
  /\ state' = [state EXCEPT ![c] = "opening"]
  /\ \/ /\ Hits(v) # {}
        /\ tlb' = Used(Min(Hits(v)))
        /\ UNCHANGED <<Index, foreign>>
     \/ /\ Hits(v) = {}
        /\ \/ /\ tableOf # None
              /\ pageTable[tableOf][v].valid
              /\ Load(pageTable[tableOf][v])
           \/ /\ tableOf = None
              /\ \E f \in Frame : Load([NewTable[v] EXCEPT !.physicalPage = f,
                                                           !.valid = TRUE])
        /\ foreign' = foreign \cup {v}
  /\ UNCHANGED <<policy, memory, tableOf, current, fault, written, spoiled>>

\* The rest of ExecFunc, after the waits of Open and of the AddrSpace: a space with
\* the image of the executable.  RestoreState leaves the TLB as it is.
ExecFunc(c) ==
  /\ current = c /\ state[c] = "opening"
  /\ vm' = [vm EXCEPT ![c] = Image]
  /\ pageTable' = [pageTable EXCEPT ![c] = NewTable]
  /\ tableOf' = c
  /\ state' = [state EXCEPT ![c] = "user"]
  /\ written' = [written EXCEPT ![c] = Image]
  /\ spoiled' = [spoiled EXCEPT ![c] = {}]
  /\ UNCHANGED <<policy, bitmap, mainMemory, tlb, Index, current, fault, foreign>>

\* A wrong WriteBackAll: it trusts the dirty bits of the page table.
WriteBackDirty(s) ==
  [v \in Page |-> IF pageTable[s][v].valid /\ pageTable[s][v].dirty
                  THEN mainMemory[pageTable[s][v].physicalPage] ELSE vm[s][v]]

WriteBackAll(s) ==
  [v \in Page |-> IF pageTable[s][v].valid
                  THEN mainMemory[pageTable[s][v].physicalPage] ELSE vm[s][v]]

\* The memory part of the Fork system call: s writes its pages back, and the
\* child starts with a copy of the file.  The thread sleeps for the disk.
Fork(s, c) ==
  /\ User(s) /\ state[c] = "none"
  /\ vm' = [vm EXCEPT ![s] = WriteBackAll(s), ![c] = WriteBackAll(s)]
  /\ pageTable' = [pageTable EXCEPT ![c] = NewTable]
  /\ state' = [state EXCEPT ![c] = "user"]
  /\ tlb' = SaveState
  /\ written' = [written EXCEPT ![c] = written[s]]
  /\ spoiled' = [spoiled EXCEPT ![c] = spoiled[s]]
  /\ foreign' = {}
  /\ UNCHANGED <<policy, bitmap, mainMemory, Index, tableOf, current, fault>>

\* A wrong freeMem: it frees one frame for a table with several.
freeMemOne(s) == {f \in Frames(pageTable[s]) : \A g \in Frames(pageTable[s]) : f <= g}

\* The frames Machine::freeMem gives back.
freeMem(s) == Frames(pageTable[s])

\* The memory part of the Exit system call.  A frame that is given back is
\* filled before it is mapped again: what it holds is forgotten.  The table is
\* deleted, and the machine keeps its address.
Exit(s) ==
  /\ User(s)
  /\ bitmap' = bitmap \ freeMem(s)
  /\ tlb' = SaveState
  /\ pageTable' = [pageTable EXCEPT ![s] = NewTable]
  /\ vm' = [vm EXCEPT ![s] = Image]
  /\ state' = [state EXCEPT ![s] = "none"]
  /\ current' = None /\ tableOf' = None
  /\ mainMemory' = [f \in Frame |-> IF f \in freeMem(s) THEN 0 ELSE mainMemory[f]]
  /\ written' = [written EXCEPT ![s] = Image]
  /\ spoiled' = [spoiled EXCEPT ![s] = {}]
  /\ foreign' = {}
  /\ UNCHANGED <<policy, Index, fault>>

Next ==
  \E s \in Space :
    \/ \E v \in Page :
         \/ ReadMem(s, v) \/ TLBMissHandler(s, v) \/ PageFaultHandler(s, v)
         \/ GetFileName(s, v)
         \/ \E x \in Value : WriteMem(s, v, x)
    \/ PageLoaded(s) \/ Switch(s) \/ ExecFunc(s) \/ Exit(s)
    \/ \E c \in Space : ExecHandler(s, c) \/ Fork(s, c)

Spec == Init /\ [][Next]_vars
-----------------------------------------------------------------------------
\* The frames of s: those of its valid pages, and one that is being filled.
Owned(s) ==
  Frames(pageTable[s])
  \cup (IF state[s] = "fault" THEN {pageTable[s][fault[s]].physicalPage} ELSE {})

(***************************************************************************)
(* Every frame in use is the frame of one page of one space: no two pages  *)
(* share one, a fault that waits for the disk included, and what an exited *)
(* or evicted page had is not lost.                                        *)
(***************************************************************************)
FramesAccounted ==
  /\ bitmap = UNION {Owned(s) : s \in Space}
  /\ \A s, t \in Space : s # t => Owned(s) \cap Owned(t) = {}
  /\ \A s \in Space : Cardinality(Frames(pageTable[s])) = Cardinality(Valid(pageTable[s]))

(***************************************************************************)
(* Apart from the entries that a thread without a space has loaded, the    *)
(* TLB translates as the running thread's own table does, through context  *)
(* switches, faults, replacements, exits and the reuse of frames.          *)
(***************************************************************************)
Isolation ==
  \A i \in Slot : tlb[i].valid /\ tlb[i].virtualPage \notin foreign =>
    /\ current # None /\ HasSpace(current)
    /\ LET entry == pageTable[current][tlb[i].virtualPage]
       IN  entry.valid /\ entry.physicalPage = tlb[i].physicalPage

\* What page v of s holds, by its page table.
Holds(s, v) == IF pageTable[s][v].valid THEN mainMemory[pageTable[s][v].physicalPage]
               ELSE vm[s][v]

(***************************************************************************)
(* A page holds what its program, or the parent before its Fork, last      *)
(* wrote there, in memory or in the file of the space, whatever the others *)
(* do and whatever has been replaced, and that is what the program reads.  *)
(* It need not when the page was replaced with a write that its file did   *)
(* not have, or when a write or the read went through an entry that a      *)
(* thread without a space had loaded.                                      *)
(***************************************************************************)
ReadsLastWrite ==
  \A s \in Space : HasSpace(s) =>
    \A v \in Page \ spoiled[s] :
      /\ written[s][v] = Holds(s, v)
      /\ \A i \in Hits(v) : current = s /\ v \notin foreign =>
           mainMemory[tlb[i].physicalPage] = written[s][v]
===============================================================================
