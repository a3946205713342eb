----------------------------- MODULE PagingProofs -----------------------------
(***************************************************************************)
(* Proofs about Paging, for every number of address spaces, pages, frames  *)
(* and TLB entries and under each replacement policy of the TLB: frames    *)
(* are accounted for, the TLB translates as the running thread's table     *)
(* does but for what a thread without a space has loaded, and a page that  *)
(* is not spoiled holds the last write.                                    *)
(***************************************************************************)
EXTENDS Paging, FiniteSetTheorems, NaturalsInduction, TLAPS

-----------------------------------------------------------------------------
(***************************************************************************)
(* Least elements, on which the search for a TLB entry, for a free frame   *)
(* and for a victim rest.                                                  *)
(***************************************************************************)

\* Min of a set of numbers is one of them.
LEMMA MinIn ==
  ASSUME NEW S, S \subseteq Nat, S # {}
  PROVE  Min(S) \in S
<1>1. IsWellFoundedOn({p \in Nat \X Nat : p[1] < p[2]}, Nat)
  BY NatLessThanWellFounded, Zenon DEF OpToRel
<1>2. PICK x \in S : \A y \in S : ~(<<y, x>> \in {p \in Nat \X Nat : p[1] < p[2]})
  BY <1>1, WFMin
<1>3. ASSUME NEW y \in S PROVE x <= y
  <2>1. y \in Nat /\ x \in Nat
    OBVIOUS
  <2>2. <<y, x>> \in Nat \X Nat /\ <<y, x>>[1] = y /\ <<y, x>>[2] = x
    BY <2>1
  <2>3. ~(<<y, x>>[1] < <<y, x>>[2])
    BY <1>2, <2>2, Zenon
  <2> QED
    BY <2>1, <2>2, <2>3
<1> QED
  BY <1>3 DEF Min

\* The sizes are positive numbers.
LEMMA Sizes ==
  /\ NumPages \in Nat /\ NumPages > 0
  /\ NumPhysPages \in Nat /\ NumPhysPages > 0
  /\ TLBSize \in Nat /\ TLBSize > 0
  /\ None \notin Space /\ 0 \in Value
BY PagingAssumption
-----------------------------------------------------------------------------
(***************************************************************************)
(* Types.                                                                  *)
(***************************************************************************)
TranslationEntry ==
  [virtualPage : Page, physicalPage : Frame \cup {NoFrame}, valid : BOOLEAN,
   use : BOOLEAN, dirty : BOOLEAN]

TypeOK ==
  /\ policy \in Policies
  /\ bitmap \subseteq Frame
  /\ mainMemory \in [Frame -> Value]
  /\ tlb \in [Slot -> TranslationEntry]
  /\ Index \in Slot
  /\ vm \in [Space -> [Page -> Value]]
  /\ pageTable \in [Space -> [Page -> TranslationEntry]]
  /\ tableOf \in Space \cup {None}
  /\ current \in Space \cup {None}
  /\ state \in [Space -> {"none", "exec", "opening", "user", "fault"}]
  /\ fault \in [Space -> Page]
  /\ written \in [Space -> [Page -> Value]]
  /\ foreign \subseteq Page
  /\ spoiled \in [Space -> SUBSET Page]

\* The entries that the program starts from are translation entries.
LEMMA NewEntries ==
  /\ 0 \in Page /\ 0 \in Slot
  /\ NoEntry \in TranslationEntry /\ ~NoEntry.valid
  /\ NewTable \in [Page -> TranslationEntry]
  /\ \A v \in Page : ~NewTable[v].valid /\ NewTable[v].virtualPage = v
  /\ Image \in [Page -> Value]
<1>1. 0 \in Page /\ 0 \in Slot
  BY Sizes DEF Page, Slot
<1>2. NoEntry \in TranslationEntry /\ ~NoEntry.valid
  BY <1>1 DEF NoEntry, TranslationEntry, NoFrame
<1>3. \A v \in Page : /\ [NoEntry EXCEPT !.virtualPage = v] \in TranslationEntry
                     /\ ~[NoEntry EXCEPT !.virtualPage = v].valid
                     /\ [NoEntry EXCEPT !.virtualPage = v].virtualPage = v
  BY <1>2 DEF TranslationEntry
<1>4. NewTable \in [Page -> TranslationEntry]
  BY <1>3 DEF NewTable
<1>5. \A v \in Page : ~NewTable[v].valid /\ NewTable[v].virtualPage = v
  BY <1>3 DEF NewTable
<1>6. Image \in [Page -> Value]
  BY Sizes DEF Image
<1> QED
  BY <1>1, <1>2, <1>4, <1>5, <1>6

\* The slot that Translate finds is a slot with a valid entry for the page.
LEMMA HitIn ==
  ASSUME NEW v \in Page, Hits(v) # {}
  PROVE  Min(Hits(v)) \in Slot /\ tlb[Min(Hits(v))].valid /\ tlb[Min(Hits(v))].virtualPage = v
<1>1. Hits(v) \subseteq Nat
  BY Sizes DEF Hits, Slot
<1>2. Min(Hits(v)) \in Hits(v)
  BY <1>1, MinIn
<1> QED
  BY <1>2 DEF Hits

\* What a step may do to the TLB: an entry that is valid afterwards translates
\* as one that was valid before, or as `page', the entry that is loaded.
Translates(e, f) == e.virtualPage = f.virtualPage /\ e.physicalPage = f.physicalPage

Loaded(page) ==
  \A i \in Slot : tlb'[i].valid =>
    \/ page.valid /\ Translates(tlb'[i], page)
    \/ \E j \in Slot : tlb[j].valid /\ Translates(tlb'[i], tlb[j])

\* A use sets a use bit and changes no translation.
LEMMA UsedKeeps ==
  ASSUME tlb \in [Slot -> TranslationEntry], NEW k \in Slot
  PROVE  /\ Used(k) \in [Slot -> TranslationEntry]
         /\ \A i \in Slot : Used(k)[i].valid = tlb[i].valid /\ Translates(Used(k)[i], tlb[i])
BY DEF Used, Translates, TranslationEntry

\* TLBFIFO, TLBClock and the replacement in index order, whatever the TLB holds:
\* no translation appears that is not the page's or was there before.
LEMMA LoadKeeps ==
  ASSUME tlb \in [Slot -> TranslationEntry], Index \in Slot,
         NEW page \in TranslationEntry, Load(page)
  PROVE  /\ tlb' \in [Slot -> TranslationEntry]
         /\ Index' \in Slot
         /\ Loaded(page)
<1>0. TLBSize \in Nat /\ TLBSize > 0 /\ Slot = 0..(TLBSize - 1) /\ Slot \subseteq Nat
  BY Sizes DEF Slot
<1>1. CASE policy = "FIFO" /\ TLBFIFO(page)
  <2> DEFINE free == {i \in Slot : ~tlb[i].valid}
  <2>1. Index' = Index
    BY <1>1 DEF TLBFIFO
  <2>2. CASE free # {}
    <3>1. Min(free) \in Slot
      BY <1>0, <2>2, MinIn
    <3>2. tlb' = [tlb EXCEPT ![Min(free)] = page]
      BY <1>1, <2>2 DEF TLBFIFO
    <3> QED
      BY <2>1, <3>1, <3>2 DEF Loaded, Translates
  <2>3. CASE free = {}
    <3>1. tlb' = [i \in Slot |-> IF i = TLBSize - 1 THEN page ELSE tlb[i + 1]]
      BY <1>1, <2>3 DEF TLBFIFO
    <3>2. \A i \in Slot : i # TLBSize - 1 => i + 1 \in Slot
      BY <1>0
    <3> QED
      BY <2>1, <3>1, <3>2 DEF Loaded, Translates
  <2> QED
    BY <2>2, <2>3
<1>2. CASE policy = "CLOCK" /\ TLBClock(page)
  <2> DEFINE at(k)  == (Index + k) % TLBSize
             stops  == {k \in Slot : ~tlb[at(k)].valid \/ ~tlb[at(k)].use}
             turn   == IF stops = {} THEN TLBSize ELSE Min(stops)
             passed == {at(k) : k \in 0..(turn - 1)}
  <2>1. turn \in Nat
    BY <1>0, MinIn
  <2>2. at(turn) \in Slot
    BY <1>0, <2>1
  <2>3. /\ Index' = at(turn)
        /\ tlb' = [i \in Slot |-> IF i = at(turn) THEN [page EXCEPT !.use = TRUE]
                                  ELSE IF i \in passed THEN [tlb[i] EXCEPT !.use = FALSE]
                                  ELSE tlb[i]]
    BY <1>2 DEF TLBClock
  <2> HIDE DEF at, stops, turn, passed
  <2>4. \A e \in TranslationEntry, b \in BOOLEAN :
          /\ [e EXCEPT !.use = b] \in TranslationEntry
          /\ [e EXCEPT !.use = b].valid = e.valid
          /\ Translates([e EXCEPT !.use = b], e)
    BY DEF TranslationEntry, Translates
  <2>5. tlb' \in [Slot -> TranslationEntry]
    BY <2>3, <2>4
  <2>6. ASSUME NEW i \in Slot, tlb'[i].valid
        PROVE  \/ page.valid /\ Translates(tlb'[i], page)
               \/ \E j \in Slot : tlb[j].valid /\ Translates(tlb'[i], tlb[j])
    <3>1. CASE i = at(turn)
      BY <2>3, <2>4, <2>6, <3>1
    <3>2. CASE i # at(turn)
      <4>1. tlb'[i] = [tlb[i] EXCEPT !.use = FALSE] \/ tlb'[i] = tlb[i]
        BY <2>3, <3>2
      <4>2. tlb[i].valid /\ Translates(tlb'[i], tlb[i])
        BY <2>4, <2>6, <4>1 DEF Translates
      <4> QED
        BY <4>2
    <3> QED
      BY <3>1, <3>2
  <2> QED
    BY <2>2, <2>3, <2>5, <2>6 DEF Loaded
<1>3. CASE policy = "index" /\ tlb' = [tlb EXCEPT ![Index] = page]
                            /\ Index' = (Index + 1) % TLBSize
  <2>1. Index' \in Slot
    BY <1>0, <1>3
  <2> QED
    BY <1>3, <2>1 DEF Loaded, Translates
<1> QED
  BY <1>1, <1>2, <1>3 DEF Load
-----------------------------------------------------------------------------
(***************************************************************************)
(* The inductive invariant.  A page occupies a frame when its entry is     *)
(* valid or when its fault has been given a frame and waits for the disk.  *)
(***************************************************************************)
Occupies(s, v) == pageTable[s][v].valid \/ (state[s] = "fault" /\ fault[s] = v)
Phys(s, v)     == pageTable[s][v].physicalPage

\* What is recorded of a thread that has no space and of a fault under way.
Records ==
  /\ \A s \in Space, v \in Page : pageTable[s][v].virtualPage = v
  /\ \A s \in Space : ~HasSpace(s) => \A v \in Page : ~pageTable[s][v].valid
  /\ \A s \in Space : state[s] = "fault" => ~pageTable[s][fault[s]].valid

\* A frame in use is occupied by one page of one space.
FramesUsed ==
  /\ \A s \in Space, v \in Page : Occupies(s, v) => Phys(s, v) \in bitmap
  /\ \A s, t \in Space, v, w \in Page :
       Occupies(s, v) /\ Occupies(t, w) /\ Phys(s, v) = Phys(t, w) => s = t /\ v = w
  /\ \A f \in bitmap : \E s \in Space, v \in Page : Occupies(s, v) /\ Phys(s, v) = f

\* The TLB translates as the running thread's page table does.
TLBTrue ==
  \A i \in Slot : tlb[i].valid /\ tlb[i].virtualPage \notin foreign =>
    /\ current # None /\ HasSpace(current)
    /\ pageTable[current][tlb[i].virtualPage].valid
    /\ Phys(current, tlb[i].virtualPage) = tlb[i].physicalPage

LastWritten ==
  \A s \in Space : HasSpace(s) =>
    \A v \in Page \ spoiled[s] : written[s][v] = Holds(s, v)

PagingInv == TypeOK /\ Records /\ FramesUsed /\ TLBTrue /\ LastWritten

\* The start: nothing is in memory.
LEMMA InitInv == Init => PagingInv
<1> SUFFICES ASSUME Init PROVE PagingInv
  OBVIOUS
<1>0. /\ \A s \in Space, v \in Page : ~pageTable[s][v].valid /\ pageTable[s][v].virtualPage = v
      /\ \A i \in Slot : ~tlb[i].valid
      /\ \A s \in Space : state[s] \in {"none", "user"}
      /\ bitmap = {}
  BY NewEntries DEF Init
<1>1. TypeOK
  BY NewEntries, Sizes DEF Init, TypeOK, NoFault
<1>2. Records
  BY <1>0 DEF Records
<1>3. FramesUsed
  BY <1>0 DEF FramesUsed, Occupies
<1>4. TLBTrue
  BY <1>0 DEF TLBTrue
<1>5. LastWritten
  BY <1>0 DEF LastWritten, Holds, Init, Image
<1> QED
  BY <1>1, <1>2, <1>3, <1>4, <1>5 DEF PagingInv
-----------------------------------------------------------------------------
(***************************************************************************)
(* One lemma per operation.                                                *)
(***************************************************************************)

\* SaveState leaves no valid entry in the TLB.
LEMMA SaveStateClears ==
  /\ SaveState \in [Slot -> TranslationEntry]
  /\ \A i \in Slot : ~SaveState[i].valid
BY NewEntries DEF SaveState

\* A step that changes nothing but the TLB: an entry that it loads is one of the
\* running thread's table or is recorded as foreign.
LEMMA TLBStep ==
  ASSUME PagingInv, NEW page \in TranslationEntry, Loaded(page),
         foreign' \subseteq Page,
         page.valid /\ page.virtualPage \notin foreign' =>
           /\ current # None /\ HasSpace(current)
           /\ page.virtualPage \in Page
           /\ page = pageTable[current][page.virtualPage],
         \A j \in Slot : tlb[j].valid /\ tlb[j].virtualPage \notin foreign' =>
           tlb[j].virtualPage \notin foreign,
         tlb' \in [Slot -> TranslationEntry], Index' \in Slot,
         state' \in [Space -> {"none", "exec", "opening", "user", "fault"}],
         \A s \in Space : /\ HasSpace(s)' <=> HasSpace(s)
                          /\ state'[s] = "fault" <=> state[s] = "fault",
         UNCHANGED <<policy, memory, tableOf, current, fault, written, spoiled>>
  PROVE  PagingInv'
<1>1. TypeOK'
  BY DEF PagingInv, TypeOK, memory
<1>2. Records' /\ FramesUsed' /\ LastWritten'
  BY DEF PagingInv, Records, FramesUsed, LastWritten, Occupies, Phys, Holds, memory
<1>3. TLBTrue'
  <2> SUFFICES ASSUME NEW i \in Slot, tlb'[i].valid, tlb'[i].virtualPage \notin foreign'
               PROVE  /\ current # None /\ HasSpace(current)'
                      /\ pageTable[current][tlb'[i].virtualPage].valid
                      /\ Phys(current, tlb'[i].virtualPage) = tlb'[i].physicalPage
    BY DEF TLBTrue, Phys, memory
  <2>1. /\ current # None /\ HasSpace(current)
        /\ pageTable[current][tlb'[i].virtualPage].valid
        /\ Phys(current, tlb'[i].virtualPage) = tlb'[i].physicalPage
    <3>1. CASE page.valid /\ Translates(tlb'[i], page)
      BY <3>1 DEF Translates, Phys
    <3>2. CASE \E j \in Slot : tlb[j].valid /\ Translates(tlb'[i], tlb[j])
      <4>1. PICK j \in Slot : tlb[j].valid /\ Translates(tlb'[i], tlb[j])
        BY <3>2
      <4>2. tlb[j].virtualPage \notin foreign
        BY <4>1 DEF Translates
      <4> QED
        BY <4>1, <4>2 DEF Translates, PagingInv, TLBTrue
    <3> QED
      BY <3>1, <3>2 DEF Loaded
  <2>2. current \in Space
    BY <2>1 DEF PagingInv, TypeOK
  <2> QED
    BY <2>1, <2>2
<1> QED
  BY <1>1, <1>2, <1>3 DEF PagingInv

LEMMA ReadMemKeeps ==
  ASSUME PagingInv, NEW s \in Space, NEW v \in Page, ReadMem(s, v)
  PROVE  PagingInv'
<1>1. Min(Hits(v)) \in Slot /\ tlb' = Used(Min(Hits(v)))
  BY HitIn DEF ReadMem
<1>2. tlb' \in [Slot -> TranslationEntry] /\ Loaded(NoEntry)
  BY <1>1, UsedKeeps DEF Loaded, PagingInv, TypeOK
<1>3. NoEntry \in TranslationEntry /\ ~NoEntry.valid
  BY NewEntries
<1>4. UNCHANGED <<policy, memory, tableOf, current, state, fault, foreign, written, spoiled, Index>>
  BY DEF ReadMem, threads, history
<1>5. Index' \in Slot /\ foreign' \subseteq Page
      /\ state' \in [Space -> {"none", "exec", "opening", "user", "fault"}]
  BY <1>4 DEF PagingInv, TypeOK
<1>6. \A t \in Space : /\ HasSpace(t)' <=> HasSpace(t)
                       /\ state'[t] = "fault" <=> state[t] = "fault"
  BY <1>4 DEF HasSpace
<1> QED
  BY <1>2, <1>3, <1>4, <1>5, <1>6, TLBStep

\* No entry for the page is in the TLB when its own is loaded.
LEMMA TLBMissKeeps ==
  ASSUME PagingInv, NEW s \in Space, NEW v \in Page, TLBMissHandler(s, v)
  PROVE  PagingInv'
<1>1. /\ current = s /\ s # None /\ HasSpace(s) /\ Load(pageTable[s][v])
      /\ Hits(v) = {} /\ foreign' = foreign \ {v}
      /\ UNCHANGED <<policy, memory, tableOf, current, state, fault, written, spoiled>>
  BY Sizes DEF TLBMissHandler, User, HasSpace, threads
<1>2. pageTable[s][v] \in TranslationEntry /\ pageTable[s][v].virtualPage = v
  BY DEF PagingInv, TypeOK, Records
<1>3. tlb' \in [Slot -> TranslationEntry] /\ Index' \in Slot /\ Loaded(pageTable[s][v])
  BY <1>1, <1>2, LoadKeeps DEF PagingInv, TypeOK
<1>4. \A j \in Slot : tlb[j].valid => tlb[j].virtualPage # v
  BY <1>1 DEF Hits
<1>5. foreign' \subseteq Page
      /\ state' \in [Space -> {"none", "exec", "opening", "user", "fault"}]
  BY <1>1 DEF PagingInv, TypeOK
<1>6. \A t \in Space : /\ HasSpace(t)' <=> HasSpace(t)
                       /\ state'[t] = "fault" <=> state[t] = "fault"
  BY <1>1 DEF HasSpace
<1> QED
  BY <1>1, <1>2, <1>3, <1>4, <1>5, <1>6, TLBStep

\* What GetFileName of a thread without a space loads is recorded as foreign.
LEMMA GetFileNameKeeps ==
  ASSUME PagingInv, NEW c \in Space, NEW v \in Page, GetFileName(c, v)
  PROVE  PagingInv'
<1>1. /\ state[c] = "exec" /\ state' = [state EXCEPT ![c] = "opening"]
      /\ UNCHANGED <<policy, memory, tableOf, current, fault, written, spoiled>>
  BY DEF GetFileName
<1>2. /\ state' \in [Space -> {"none", "exec", "opening", "user", "fault"}]
      /\ \A t \in Space : /\ HasSpace(t)' <=> HasSpace(t)
                          /\ state'[t] = "fault" <=> state[t] = "fault"
  BY <1>1 DEF PagingInv, TypeOK, HasSpace
<1>3. ASSUME Hits(v) # {}, tlb' = Used(Min(Hits(v))), UNCHANGED <<Index, foreign>>
      PROVE  PagingInv'
  <2>1. tlb' \in [Slot -> TranslationEntry] /\ Loaded(NoEntry)
    BY <1>3, HitIn, UsedKeeps DEF Loaded, PagingInv, TypeOK
  <2>2. NoEntry \in TranslationEntry /\ ~NoEntry.valid
    BY NewEntries
  <2>3. Index' \in Slot /\ foreign' \subseteq Page
    BY <1>3 DEF PagingInv, TypeOK
  <2> QED
    BY <1>1, <1>2, <1>3, <2>1, <2>2, <2>3, TLBStep
<1>4. ASSUME NEW page \in TranslationEntry, page.virtualPage = v, Load(page),
             foreign' = foreign \cup {v}
      PROVE  PagingInv'
  <2>1. tlb' \in [Slot -> TranslationEntry] /\ Index' \in Slot /\ Loaded(page)
    BY <1>4, LoadKeeps DEF PagingInv, TypeOK
  <2>2. foreign' \subseteq Page /\ v \in foreign' /\ foreign \subseteq foreign'
    BY <1>4 DEF PagingInv, TypeOK
  <2> QED
    BY <1>1, <1>2, <1>4, <2>1, <2>2, TLBStep
<1>5. ASSUME tableOf # None, Load(pageTable[tableOf][v]), foreign' = foreign \cup {v}
      PROVE  PagingInv'
  <2>1. pageTable[tableOf][v] \in TranslationEntry /\ pageTable[tableOf][v].virtualPage = v
    BY <1>5 DEF PagingInv, TypeOK, Records
  <2> QED
    BY <1>4, <1>5, <2>1
<1>6. ASSUME NEW f \in Frame, foreign' = foreign \cup {v},
             Load([NewTable[v] EXCEPT !.physicalPage = f, !.valid = TRUE])
      PROVE  PagingInv'
  <2> DEFINE page == [NewTable[v] EXCEPT !.physicalPage = f, !.valid = TRUE]
  <2>1. NewTable[v] \in TranslationEntry /\ NewTable[v].virtualPage = v
    BY NewEntries
  <2>2. page \in TranslationEntry /\ page.virtualPage = v
    BY <2>1 DEF TranslationEntry
  <2> HIDE DEF page
  <2>3. Load(page)
    BY <1>6 DEF page
  <2> QED
    BY <1>4, <1>6, <2>2, <2>3
<1> QED
  BY <1>3, <1>5, <1>6 DEF GetFileName

\* A thread that has been made by Exec has no space, before its first step as
\* after it.
LEMMA ExecHandlerKeeps ==
  ASSUME PagingInv, NEW s \in Space, NEW c \in Space, ExecHandler(s, c)
  PROVE  PagingInv'
<1>1. /\ state[c] = "none" /\ state' = [state EXCEPT ![c] = "exec"]
      /\ UNCHANGED <<policy, memory, tlb, Index, tableOf, current, fault, foreign, written, spoiled>>
  BY DEF ExecHandler, history
<1>2. /\ state' \in [Space -> {"none", "exec", "opening", "user", "fault"}]
      /\ \A t \in Space : /\ HasSpace(t)' <=> HasSpace(t)
                          /\ state'[t] = "fault" <=> state[t] = "fault"
  BY <1>1 DEF PagingInv, TypeOK, HasSpace
<1>3. NoEntry \in TranslationEntry /\ ~NoEntry.valid
  BY NewEntries
<1>4. tlb' \in [Slot -> TranslationEntry] /\ Index' \in Slot /\ foreign' \subseteq Page
  BY <1>1 DEF PagingInv, TypeOK
<1>5. Loaded(NoEntry)
  BY <1>1 DEF Loaded, Translates
<1> QED
  BY <1>1, <1>2, <1>3, <1>4, <1>5, TLBStep

\* A write through an entry of its own table goes to the frame of the page that it
\* means; through a foreign one, every page that it may harm is recorded as spoiled.
LEMMA WriteMemKeeps ==
  ASSUME PagingInv, NEW s \in Space, NEW v \in Page, NEW x \in Value, WriteMem(s, v, x)
  PROVE  PagingInv'
<1> DEFINE i == Min(Hits(v))
<1>0. PICK frame : frame = tlb[i].physicalPage
  OBVIOUS
<1>1. i \in Slot /\ tlb[i].valid /\ tlb[i].virtualPage = v /\ tlb' = Used(i)
  BY HitIn DEF WriteMem
<1>2. /\ current = s /\ s # None /\ state[s] = "user"
      /\ mainMemory' = [mainMemory EXCEPT ![frame] = x]
      /\ written' = [written EXCEPT ![s][v] = x]
      /\ spoiled' = SpoiledBy(s, v, frame)
      /\ UNCHANGED <<policy, bitmap, Index, vm, pageTable, tableOf, current, state, fault, foreign>>
  BY <1>0, Sizes DEF WriteMem, User, threads
<1> HIDE DEF i
<1>3. tlb' \in [Slot -> TranslationEntry] /\ Loaded(NoEntry)
  BY <1>1, UsedKeeps DEF Loaded, PagingInv, TypeOK
<1>4. spoiled' \in [Space -> SUBSET Page]
  BY <1>2 DEF SpoiledBy, PagesOn, PagingInv, TypeOK
<1>5. v \notin foreign => /\ pageTable[s][v].valid /\ Phys(s, v) = frame
                          /\ frame \in Frame
  <2>1. v \notin foreign => pageTable[s][v].valid /\ Phys(s, v) = frame
    BY <1>0, <1>1, <1>2 DEF PagingInv, TLBTrue
  <2> QED
    BY <2>1 DEF PagingInv, FramesUsed, TypeOK, Occupies
<1>7. TypeOK'
  BY <1>2, <1>3, <1>4 DEF PagingInv, TypeOK
<1>8. Records' /\ FramesUsed'
  BY <1>2 DEF PagingInv, Records, FramesUsed, Occupies, Phys, HasSpace
<1>9. TLBTrue'
  <2> SUFFICES ASSUME NEW k \in Slot, tlb'[k].valid, tlb'[k].virtualPage \notin foreign
               PROVE  /\ current # None /\ HasSpace(current)
                      /\ pageTable[current][tlb'[k].virtualPage].valid
                      /\ Phys(current, tlb'[k].virtualPage) = tlb'[k].physicalPage
    BY <1>2 DEF TLBTrue, Phys, HasSpace
  <2>1. PICK j \in Slot : tlb[j].valid /\ Translates(tlb'[k], tlb[j])
    BY <1>3, NewEntries DEF Loaded
  <2> QED
    BY <2>1 DEF Translates, PagingInv, TLBTrue
<1>10. LastWritten'
  <2> SUFFICES ASSUME NEW t \in Space, HasSpace(t), NEW u \in Page, u \notin spoiled'[t]
               PROVE  written'[t][u] = Holds(t, u)'
    BY <1>2 DEF LastWritten, HasSpace
  <2>1. CASE t = s /\ u = v
    <3>1. v \notin foreign
      BY <1>2, <2>1 DEF SpoiledBy
    <3>2. written'[t][u] = x
      BY <1>2, <2>1 DEF PagingInv, TypeOK
    <3>3. Holds(t, u)' = mainMemory'[frame]
      BY <1>2, <1>5, <2>1, <3>1 DEF Holds, Phys
    <3> QED
      BY <1>2, <1>5, <3>1, <3>2, <3>3 DEF PagingInv, TypeOK
  <2>2. CASE ~(t = s /\ u = v)
    <3>1. written'[t][u] = written[t][u]
      BY <1>2, <2>2 DEF PagingInv, TypeOK
    <3>2. u \notin spoiled[t]
      BY <1>2, <2>2 DEF SpoiledBy, PagingInv, TypeOK
    <3>3. written[t][u] = Holds(t, u)
      BY <3>2 DEF PagingInv, LastWritten
    <3>4. pageTable[t][u].valid => Phys(t, u) # frame /\ Phys(t, u) \in Frame
      <4>1. pageTable[t][u].valid => Occupies(t, u) /\ Phys(t, u) \in Frame
        BY DEF Occupies, PagingInv, FramesUsed, TypeOK
      <4>2. CASE v \in foreign
        BY <1>2, <4>1, <4>2 DEF SpoiledBy, PagesOn, Phys
      <4>3. CASE v \notin foreign
        <5>1. Occupies(s, v) /\ Phys(s, v) = frame
          BY <1>5, <4>3 DEF Occupies
        <5> QED
          BY <2>2, <4>1, <5>1 DEF PagingInv, FramesUsed
      <4> QED
        BY <4>2, <4>3
    <3>5. Holds(t, u)' = Holds(t, u)
      BY <1>2, <3>4 DEF Holds, Phys, PagingInv, TypeOK
    <3> QED
      BY <3>1, <3>3, <3>5
  <2> QED
    BY <2>1, <2>2
<1> QED
  BY <1>7, <1>8, <1>9, <1>10 DEF PagingInv

\* PageFaultHandler takes a free frame, or the frame of a page of its own space,
\* which then no longer occupies it.
LEMMA PageFaultKeeps ==
  ASSUME PagingInv, NEW s \in Space, NEW v \in Page, PageFaultHandler(s, v)
  PROVE  PagingInv'
<1> DEFINE free   == Frame \ bitmap
           victim == Victim(pageTable[s])
           old    == pageTable[s][victim]
           frame  == IF free # {} THEN Min(free) ELSE old.physicalPage
           kept   == IF free # {} THEN pageTable[s]
                     ELSE [pageTable[s] EXCEPT ![victim].valid = FALSE]
           lost   == free = {} /\ ~old.dirty /\ mainMemory[frame] # vm[s][victim]
<1>1. /\ current = s /\ s # None /\ state[s] = "user" /\ ~pageTable[s][v].valid
      /\ free # {} \/ Valid(pageTable[s]) # {}
      /\ fault' = [fault EXCEPT ![s] = v]
      /\ bitmap' = bitmap \cup {frame}
      /\ pageTable' = [pageTable EXCEPT ![s] = [kept EXCEPT ![v].physicalPage = frame]]
      /\ vm' = IF free = {} /\ old.dirty
               THEN [vm EXCEPT ![s][victim] = mainMemory[frame]] ELSE vm
      /\ state' = [state EXCEPT ![s] = "fault"]
      /\ tlb' = SaveState /\ foreign' = {}
      /\ spoiled' = IF lost THEN [spoiled EXCEPT ![s] = @ \cup {victim}] ELSE spoiled
      /\ UNCHANGED <<policy, mainMemory, Index, tableOf, current, written>>
  BY Sizes DEF PageFaultHandler, User
<1>2. pageTable[s] \in [Page -> TranslationEntry] /\ Page \subseteq Nat
  BY Sizes DEF PagingInv, TypeOK, Page
<1>3. free = {} => victim \in Page /\ pageTable[s][victim].valid /\ victim # v
  <2>1. free = {} => Valid(pageTable[s]) # {} /\ Valid(pageTable[s]) \subseteq Nat
    BY <1>1, <1>2 DEF Valid
  <2>2. free = {} => victim \in Valid(pageTable[s])
    BY <2>1, MinIn DEF Victim
  <2> QED
    BY <1>1, <1>2, <2>2 DEF Valid
<1>4. /\ frame \in Frame
      /\ free # {} => frame \notin bitmap
      /\ free = {} => Occupies(s, victim) /\ Phys(s, victim) = frame /\ frame \in bitmap
  <2>1. CASE free # {}
    <3>1. free \subseteq Nat
      BY Sizes DEF Frame
    <3>2. Min(free) \in free
      BY <2>1, <3>1, MinIn
    <3> QED
      BY <2>1, <3>2
  <2>2. CASE free = {}
    <3>1. Occupies(s, victim) /\ Phys(s, victim) = frame
      BY <1>3, <2>2 DEF Occupies, Phys
    <3> QED
      BY <1>3, <2>2, <3>1 DEF PagingInv, FramesUsed, TypeOK
  <2> QED
    BY <2>1, <2>2
<1> HIDE DEF victim, frame, free
<1>5. /\ pageTable' \in [Space -> [Page -> TranslationEntry]]
      /\ \A t \in Space, u \in Page :
           /\ (pageTable'[t][u].valid <=> pageTable[t][u].valid /\ ~(t = s /\ free = {} /\ u = victim))
           /\ pageTable'[t][u].virtualPage = pageTable[t][u].virtualPage
           /\ pageTable'[t][u].physicalPage = IF t = s /\ u = v THEN frame
                                              ELSE pageTable[t][u].physicalPage
  <2>1. /\ kept \in [Page -> TranslationEntry]
        /\ \A u \in Page :
             /\ (kept[u].valid <=> pageTable[s][u].valid /\ ~(free = {} /\ u = victim))
             /\ kept[u].virtualPage = pageTable[s][u].virtualPage
             /\ kept[u].physicalPage = pageTable[s][u].physicalPage
    BY <1>2, <1>3 DEF TranslationEntry
  <2> DEFINE new == [kept EXCEPT ![v].physicalPage = frame]
  <2> HIDE DEF kept
  <2>2. /\ new \in [Page -> TranslationEntry]
        /\ \A u \in Page :
             /\ (new[u].valid <=> kept[u].valid)
             /\ new[u].virtualPage = kept[u].virtualPage
             /\ new[u].physicalPage = IF u = v THEN frame ELSE kept[u].physicalPage
    BY <1>4, <2>1 DEF TranslationEntry
  <2>3. pageTable' = [pageTable EXCEPT ![s] = new]
    BY <1>1 DEF kept
  <2> HIDE DEF new
  <2> QED
    BY <2>1, <2>2, <2>3 DEF PagingInv, TypeOK
<1>6. \A t \in Space : /\ state'[t] = IF t = s THEN "fault" ELSE state[t]
                       /\ fault'[t] = IF t = s THEN v ELSE fault[t]
  BY <1>1 DEF PagingInv, TypeOK
<1>7. TypeOK'
  <2>1. victim \in Page \/ free # {}
    BY <1>3
  <2>2. vm' \in [Space -> [Page -> Value]]
    BY <1>1, <1>4, <2>1 DEF PagingInv, TypeOK
  <2>3. spoiled' \in [Space -> SUBSET Page]
    <3>1. CASE lost
      BY <1>1, <2>1, <3>1 DEF PagingInv, TypeOK
    <3>2. CASE ~lost
      BY <1>1, <3>2 DEF PagingInv, TypeOK
    <3> QED
      BY <3>1, <3>2
  <2>4. tlb' \in [Slot -> TranslationEntry] /\ foreign' \subseteq Page
    BY <1>1, SaveStateClears
  <2>5. state' \in [Space -> {"none", "exec", "opening", "user", "fault"}] /\ fault' \in [Space -> Page]
    BY <1>1 DEF PagingInv, TypeOK
  <2>6. bitmap' \subseteq Frame
    BY <1>1, <1>4 DEF PagingInv, TypeOK
  <2> QED
    BY <1>1, <1>5, <2>2, <2>3, <2>4, <2>5, <2>6 DEF PagingInv, TypeOK
<1>8. Records'
  <2>1. \A t \in Space, u \in Page : pageTable'[t][u].virtualPage = u
    BY <1>5 DEF PagingInv, Records
  <2>2. \A t \in Space : ~HasSpace(t)' => \A u \in Page : ~pageTable'[t][u].valid
    BY <1>5, <1>6 DEF PagingInv, Records, HasSpace
  <2>3. ASSUME NEW t \in Space, state'[t] = "fault" PROVE ~pageTable'[t][fault'[t]].valid
    <3>1. fault[t] \in Page
      BY DEF PagingInv, TypeOK
    <3> QED
      BY <1>1, <1>5, <1>6, <2>3, <3>1 DEF PagingInv, Records
  <2> QED
    BY <2>1, <2>2, <2>3 DEF Records
<1>9. /\ \A t \in Space, u \in Page :
           Occupies(t, u)' <=> IF t = s THEN u = v \/ (Occupies(s, u) /\ ~(free = {} /\ u = victim))
                               ELSE Occupies(t, u)
      /\ \A t \in Space, u \in Page : Phys(t, u)' = IF t = s /\ u = v THEN frame ELSE Phys(t, u)
  <2>1. ~Occupies(s, v) /\ \A u \in Page : Occupies(s, u) <=> pageTable[s][u].valid
    BY <1>1 DEF Occupies
  <2>2. \A u \in Page : Occupies(s, u)' <=> pageTable'[s][u].valid \/ u = v
    BY <1>6 DEF Occupies
  <2>3. \A t \in Space \ {s}, u \in Page : Occupies(t, u)' <=> Occupies(t, u)
    BY <1>5, <1>6 DEF Occupies
  <2>4. \A t \in Space, u \in Page : Phys(t, u)' = IF t = s /\ u = v THEN frame ELSE Phys(t, u)
    BY <1>5 DEF Phys
  <2> QED
    BY <1>5, <2>1, <2>2, <2>3, <2>4
<1>10. ~Occupies(s, v)
  BY <1>1 DEF Occupies
<1>11. \A t \in Space, u \in Page :
         Occupies(t, u) /\ Phys(t, u) = frame => free = {} /\ t = s /\ u = victim
  BY <1>3, <1>4 DEF PagingInv, FramesUsed
<1>12. FramesUsed'
  <2>1. \A t \in Space, u \in Page : Occupies(t, u)' => Phys(t, u)' \in bitmap'
    BY <1>1, <1>9 DEF PagingInv, FramesUsed
  <2>2. ASSUME NEW t1 \in Space, NEW t2 \in Space, NEW u1 \in Page, NEW u2 \in Page,
               Occupies(t1, u1)', Occupies(t2, u2)', Phys(t1, u1)' = Phys(t2, u2)'
        PROVE  t1 = t2 /\ u1 = u2
    BY <1>9, <1>11, <2>2 DEF PagingInv, FramesUsed
  <2>3. ASSUME NEW f \in bitmap' PROVE \E t \in Space, u \in Page : Occupies(t, u)' /\ Phys(t, u)' = f
    <3>1. CASE f = frame
      BY <1>9, <3>1
    <3>2. CASE f # frame
      <4>1. PICK t \in Space, u \in Page : Occupies(t, u) /\ Phys(t, u) = f
        BY <1>1, <2>3, <3>2 DEF PagingInv, FramesUsed
      <4>2. ~(t = s /\ free = {} /\ u = victim) /\ ~(t = s /\ u = v)
        BY <1>4, <1>10, <3>2, <4>1
      <4> QED
        BY <1>9, <4>1, <4>2
    <3> QED
      BY <3>1, <3>2
  <2> QED
    BY <2>1, <2>2, <2>3 DEF FramesUsed
<1>13. TLBTrue'
  BY <1>1, SaveStateClears DEF TLBTrue
<1>14. LastWritten'
  <2> SUFFICES ASSUME NEW t \in Space, HasSpace(t)', NEW u \in Page, u \notin spoiled'[t]
               PROVE  written'[t][u] = Holds(t, u)'
    BY DEF LastWritten
  <2>1. written[t][u] = Holds(t, u)
    <3>1. HasSpace(t)
      BY <1>1, <1>6 DEF HasSpace
    <3>2. u \notin spoiled[t]
      BY <1>1 DEF PagingInv, TypeOK
    <3> QED
      BY <3>1, <3>2 DEF PagingInv, LastWritten
  <2>2. written'[t][u] = written[t][u] /\ mainMemory' = mainMemory
    BY <1>1
  <2>3. CASE t = s /\ free = {} /\ u = victim
    <3>1. ~lost
      BY <1>1, <2>3 DEF PagingInv, TypeOK
    <3>2. vm'[t][u] = mainMemory[frame]
      BY <1>1, <1>3, <2>3, <3>1 DEF PagingInv, TypeOK
    <3>3. Holds(t, u) = mainMemory[frame]
      BY <1>3, <1>4, <2>3 DEF Holds, Phys
    <3>4. Holds(t, u)' = vm'[t][u]
      BY <1>3, <1>5, <2>3 DEF Holds
    <3> QED
      BY <2>1, <2>2, <2>3, <3>2, <3>3, <3>4
  <2>4. CASE ~(t = s /\ free = {} /\ u = victim)
    <3>1. vm'[t][u] = vm[t][u]
      BY <1>1, <2>4 DEF PagingInv, TypeOK
    <3>2. pageTable'[t][u].valid <=> pageTable[t][u].valid
      BY <1>5, <2>4
    <3>3. pageTable[t][u].valid => Phys(t, u)' = Phys(t, u)
      BY <1>1, <1>9
    <3> QED
      BY <2>1, <2>2, <3>1, <3>2, <3>3 DEF Holds, Phys
  <2> QED
    BY <2>3, <2>4
<1> QED
  BY <1>7, <1>8, <1>12, <1>13, <1>14 DEF PagingInv

\* PageLoaded fills the frame that the fault was given, and nobody else's.
LEMMA PageLoadedKeeps ==
  ASSUME PagingInv, NEW s \in Space, PageLoaded(s)
  PROVE  PagingInv'
<1> DEFINE v     == fault[s]
           entry == pageTable[s][v]
           frame == entry.physicalPage
           new   == [entry EXCEPT !.valid = TRUE, !.use = FALSE, !.dirty = FALSE]
<1>1. /\ current = s /\ s # None /\ state[s] = "fault"
      /\ mainMemory' = [mainMemory EXCEPT ![frame] = vm[s][v]]
      /\ pageTable' = [pageTable EXCEPT ![s][v] = new]
      /\ Load(NoEntry)
      /\ state' = [state EXCEPT ![s] = "user"]
      /\ fault' = [fault EXCEPT ![s] = NoFault]
      /\ UNCHANGED <<policy, bitmap, vm, tableOf, current, written, foreign, spoiled>>
  BY Sizes DEF PageLoaded, history
<1>2. v \in Page /\ entry \in TranslationEntry /\ ~entry.valid
  BY <1>1 DEF PagingInv, TypeOK, Records
<1>3. Occupies(s, v) /\ Phys(s, v) = frame /\ frame \in bitmap /\ frame \in Frame
  BY <1>1, <1>2 DEF PagingInv, TypeOK, FramesUsed, Occupies, Phys
<1>4. tlb' \in [Slot -> TranslationEntry] /\ Index' \in Slot /\ Loaded(NoEntry)
  BY <1>1, NewEntries, LoadKeeps DEF PagingInv, TypeOK
<1>5. /\ new \in TranslationEntry /\ new.valid
      /\ new.virtualPage = entry.virtualPage /\ new.physicalPage = frame
  BY <1>2 DEF TranslationEntry
<1> HIDE DEF new
<1>6. /\ pageTable' \in [Space -> [Page -> TranslationEntry]]
      /\ \A t \in Space, u \in Page :
           pageTable'[t][u] = IF t = s /\ u = v THEN new ELSE pageTable[t][u]
  BY <1>1, <1>2, <1>5 DEF PagingInv, TypeOK
<1>7. \A t \in Space : state'[t] = IF t = s THEN "user" ELSE state[t]
  BY <1>1 DEF PagingInv, TypeOK
<1>8. \A t \in Space : t # s => fault'[t] = fault[t]
  BY <1>1 DEF PagingInv, TypeOK
<1>9. TypeOK'
  <2>1. NoFault \in Page
    BY NewEntries DEF NoFault
  <2> QED
    BY <1>1, <1>2, <1>3, <1>4, <1>6, <2>1 DEF PagingInv, TypeOK
<1>10. Records'
  BY <1>1, <1>2, <1>5, <1>6, <1>7, <1>8 DEF PagingInv, Records, HasSpace
<1>11. \A t \in Space, u \in Page : Phys(t, u)' = Phys(t, u)
  BY <1>5, <1>6 DEF Phys
<1>12. \A t \in Space, u \in Page : Occupies(t, u)' <=> Occupies(t, u)
  <2>1. \A t \in Space, u \in Page : t # s => (Occupies(t, u)' <=> Occupies(t, u))
    BY <1>6, <1>7, <1>8 DEF Occupies
  <2>2. \A u \in Page : Occupies(s, u)' <=> pageTable'[s][u].valid
    BY <1>7 DEF Occupies
  <2>3. \A u \in Page : Occupies(s, u) <=> pageTable[s][u].valid \/ u = v
    BY <1>1 DEF Occupies
  <2> QED
    BY <1>5, <1>6, <2>1, <2>2, <2>3
<1>13. FramesUsed'
  BY <1>1, <1>11, <1>12 DEF PagingInv, FramesUsed
<1>14. TLBTrue'
  <2>1. \A u \in Page : pageTable[s][u].valid => pageTable'[s][u].valid
    BY <1>5, <1>6
  <2>2. current' = s /\ s # None /\ HasSpace(s)' /\ foreign' = foreign
    BY <1>1, <1>7 DEF HasSpace
  <2> HIDE DEF v, entry, frame
  <2>3. ASSUME NEW i \in Slot, tlb'[i].valid, tlb'[i].virtualPage \notin foreign
        PROVE  /\ pageTable'[s][tlb'[i].virtualPage].valid
               /\ pageTable'[s][tlb'[i].virtualPage].physicalPage = tlb'[i].physicalPage
    <3>1. PICK j \in Slot : tlb[j].valid /\ Translates(tlb'[i], tlb[j])
      BY <1>4, <2>3, NewEntries DEF Loaded
    <3>2. tlb'[i].virtualPage = tlb[j].virtualPage /\ tlb'[i].physicalPage = tlb[j].physicalPage
      BY <3>1 DEF Translates
    <3>3. pageTable[s][tlb[j].virtualPage].valid /\ Phys(s, tlb[j].virtualPage) = tlb[j].physicalPage
      BY <1>1, <2>3, <3>1, <3>2 DEF PagingInv, TLBTrue
    <3>4. PICK u \in Page : u = tlb[j].virtualPage
      BY DEF PagingInv, TypeOK, TranslationEntry
    <3>5. pageTable'[s][u].valid /\ Phys(s, u)' = tlb'[i].physicalPage
      BY <1>11, <2>1, <3>2, <3>3, <3>4
    <3>6. pageTable'[s][u].physicalPage = tlb'[i].physicalPage
      BY <3>5 DEF Phys
    <3> QED
      BY <3>2, <3>4, <3>5, <3>6
  <2>4. ASSUME NEW i \in Slot, tlb'[i].valid, tlb'[i].virtualPage \notin foreign'
        PROVE  /\ current' # None /\ HasSpace(current)'
               /\ pageTable'[current'][tlb'[i].virtualPage].valid
               /\ pageTable'[current'][tlb'[i].virtualPage].physicalPage = tlb'[i].physicalPage
    BY <2>2, <2>3, <2>4 DEF HasSpace
  <2> QED
    BY <2>4 DEF TLBTrue, Phys
<1>15. LastWritten'
  <2> SUFFICES ASSUME NEW t \in Space, HasSpace(t)', NEW u \in Page, u \notin spoiled[t]
               PROVE  written[t][u] = Holds(t, u)'
    BY <1>1 DEF LastWritten
  <2>1. written[t][u] = Holds(t, u)
    BY <1>1, <1>7 DEF PagingInv, LastWritten, HasSpace
  <2>2. CASE t = s /\ u = v
    <3>1. Holds(t, u)' = mainMemory'[frame]
      BY <1>3, <1>5, <1>6, <1>11, <2>2 DEF Holds, Phys
    <3>2. mainMemory'[frame] = vm[s][v]
      BY <1>1, <1>3 DEF PagingInv, TypeOK
    <3> QED
      BY <1>2, <2>1, <2>2, <3>1, <3>2 DEF Holds
  <2>3. CASE ~(t = s /\ u = v)
    <3>1. pageTable'[t][u].valid <=> pageTable[t][u].valid
      BY <1>6, <2>3
    <3>2. pageTable[t][u].valid => Phys(t, u) # frame /\ Phys(t, u) \in Frame
      <4>1. pageTable[t][u].valid => Occupies(t, u) /\ Phys(t, u) \in Frame
        BY DEF Occupies, PagingInv, FramesUsed, TypeOK
      <4> QED
        BY <1>2, <1>3, <2>3, <4>1 DEF PagingInv, FramesUsed
    <3>3. pageTable[t][u].valid => mainMemory'[Phys(t, u)] = mainMemory[Phys(t, u)]
      BY <1>1, <3>2 DEF PagingInv, TypeOK
    <3> QED
      BY <1>1, <1>11, <2>1, <3>1, <3>3 DEF Holds, Phys
  <2> QED
    BY <2>2, <2>3
<1> QED
  BY <1>9, <1>10, <1>13, <1>14, <1>15 DEF PagingInv

\* A context switch saves the TLB of a thread with a space; what one without a
\* space leaves there is foreign.
LEMMA SwitchKeeps ==
  ASSUME PagingInv, NEW t \in Space, Switch(t)
  PROVE  PagingInv'
<1> DEFINE saves == current # None /\ HasSpace(current)
<1>1. /\ tlb' = IF saves THEN SaveState ELSE tlb
      /\ foreign' = IF saves THEN {} ELSE foreign
      /\ tableOf' = IF HasSpace(t) THEN t ELSE tableOf
      /\ current' = t
      /\ UNCHANGED <<policy, bitmap, mainMemory, Index, vm, pageTable, state, fault,
                     written, spoiled>>
  BY DEF Switch, memory
<1>2. /\ tlb' \in [Slot -> TranslationEntry] /\ foreign' \subseteq Page
      /\ \A i \in Slot : tlb'[i].valid => tlb'[i].virtualPage \in foreign'
  <2>1. CASE saves
    BY <1>1, <2>1, SaveStateClears
  <2>2. CASE ~saves
    BY <1>1, <2>2 DEF PagingInv, TypeOK, TLBTrue
  <2> QED
    BY <2>1, <2>2
<1> HIDE DEF saves
<1>3. TypeOK'
  BY <1>1, <1>2 DEF PagingInv, TypeOK
<1>4. Records' /\ FramesUsed' /\ LastWritten'
  BY <1>1 DEF PagingInv, Records, FramesUsed, LastWritten, Occupies, Phys, Holds, HasSpace
<1>5. TLBTrue'
  BY <1>2 DEF TLBTrue
<1> QED
  BY <1>3, <1>4, <1>5 DEF PagingInv

\* A new space, of Exec or of Fork, has nothing in memory, and its file is what
\* was written: the image, or what the parent's pages hold.  What the TLB has by
\* then is foreign.
LEMMA NewSpaceKeeps ==
  ASSUME PagingInv, NEW c \in Space, ~HasSpace(c),
         vm' \in [Space -> [Page -> Value]], written' \in [Space -> [Page -> Value]],
         spoiled' \in [Space -> SUBSET Page], tableOf' \in Space \cup {None},
         tlb' \in [Slot -> TranslationEntry], foreign' \subseteq Page,
         \A i \in Slot : tlb'[i].valid => tlb'[i].virtualPage \in foreign',
         \A t \in Space \ {c} : spoiled'[t] = spoiled[t],
         \A t \in Space \ {c}, v \in Page :
           /\ written'[t][v] = written[t][v]
           /\ ~pageTable[t][v].valid => vm'[t][v] = vm[t][v],
         \A v \in Page : v \notin spoiled'[c] => written'[c][v] = vm'[c][v],
         pageTable' = [pageTable EXCEPT ![c] = NewTable],
         state' = [state EXCEPT ![c] = "user"],
         UNCHANGED <<policy, bitmap, mainMemory, Index, current, fault>>
  PROVE  PagingInv'
<1>2. \A v \in Page : ~NewTable[v].valid /\ NewTable[v].virtualPage = v
  BY NewEntries
<1>3. /\ pageTable' \in [Space -> [Page -> TranslationEntry]]
      /\ \A t \in Space \ {c} : pageTable'[t] = pageTable[t] /\ state'[t] = state[t]
      /\ pageTable'[c] = NewTable /\ state'[c] = "user"
  BY NewEntries DEF PagingInv, TypeOK
<1>4. TypeOK'
  BY <1>3 DEF PagingInv, TypeOK
<1>5. Records'
  BY <1>2, <1>3 DEF PagingInv, Records, HasSpace
<1>6. \A t \in Space \ {c}, v \in Page :
        (Occupies(t, v)' <=> Occupies(t, v)) /\ Phys(t, v)' = Phys(t, v)
  BY <1>3 DEF Occupies, Phys
<1>7. \A v \in Page : ~Occupies(c, v)' /\ ~Occupies(c, v)
  BY <1>2, <1>3 DEF Occupies, PagingInv, Records, HasSpace
<1>8. FramesUsed'
  <2>1. \A t \in Space, v \in Page : Occupies(t, v)' <=> t # c /\ Occupies(t, v)
    BY <1>6, <1>7
  <2>2. \A t \in Space, v \in Page : Occupies(t, v)' => Phys(t, v)' \in bitmap'
    BY <1>6, <2>1 DEF PagingInv, FramesUsed
  <2>3. ASSUME NEW t1 \in Space, NEW t2 \in Space, NEW v1 \in Page, NEW v2 \in Page,
               Occupies(t1, v1)', Occupies(t2, v2)', Phys(t1, v1)' = Phys(t2, v2)'
        PROVE  t1 = t2 /\ v1 = v2
    <3>1. Occupies(t1, v1) /\ Occupies(t2, v2) /\ Phys(t1, v1) = Phys(t2, v2)
      BY <1>6, <2>1, <2>3
    <3> QED
      BY <3>1 DEF PagingInv, FramesUsed
  <2>4. ASSUME NEW f \in bitmap' PROVE \E t \in Space, v \in Page : Occupies(t, v)' /\ Phys(t, v)' = f
    <3>1. PICK t \in Space, v \in Page : Occupies(t, v) /\ Phys(t, v) = f
      BY DEF PagingInv, FramesUsed
    <3> QED
      BY <1>6, <1>7, <3>1
  <2> QED
    BY <2>2, <2>3, <2>4 DEF FramesUsed
<1>9. TLBTrue'
  BY DEF TLBTrue
<1>10. LastWritten'
  <2> SUFFICES ASSUME NEW t \in Space, HasSpace(t)', NEW v \in Page, v \notin spoiled'[t]
               PROVE  written'[t][v] = Holds(t, v)'
    BY DEF LastWritten
  <2>1. CASE t = c
    <3>1. Holds(c, v)' = vm'[c][v]
      BY <1>2, <1>3 DEF Holds
    <3> QED
      BY <2>1, <3>1
  <2>2. CASE t # c
    <3>1. written[t][v] = Holds(t, v)
      BY <1>3, <2>2 DEF PagingInv, LastWritten, HasSpace
    <3>2. Holds(t, v)' = Holds(t, v)
      BY <1>3, <2>2 DEF Holds
    <3> QED
      BY <2>2, <3>1, <3>2
  <2> QED
    BY <2>1, <2>2
<1> QED
  BY <1>4, <1>5, <1>8, <1>9, <1>10 DEF PagingInv

LEMMA ExecFuncKeeps ==
  ASSUME PagingInv, NEW c \in Space, ExecFunc(c)
  PROVE  PagingInv'
<1>1. /\ current = c /\ state[c] = "opening" /\ tableOf' = c
      /\ vm' = [vm EXCEPT ![c] = Image] /\ written' = [written EXCEPT ![c] = Image]
      /\ spoiled' = [spoiled EXCEPT ![c] = {}]
      /\ pageTable' = [pageTable EXCEPT ![c] = NewTable]
      /\ state' = [state EXCEPT ![c] = "user"]
      /\ UNCHANGED <<policy, bitmap, mainMemory, tlb, Index, current, fault, foreign>>
  BY DEF ExecFunc
<1>2. /\ vm' \in [Space -> [Page -> Value]] /\ written' \in [Space -> [Page -> Value]]
      /\ spoiled' \in [Space -> SUBSET Page]
      /\ \A t \in Space \ {c} : /\ spoiled'[t] = spoiled[t]
                                /\ written'[t] = written[t] /\ vm'[t] = vm[t]
      /\ written'[c] = Image /\ vm'[c] = Image
  BY <1>1, NewEntries DEF PagingInv, TypeOK
<1>3. ~HasSpace(c)
  BY <1>1 DEF HasSpace
<1>4. /\ tlb' \in [Slot -> TranslationEntry] /\ foreign' \subseteq Page
      /\ \A i \in Slot : tlb'[i].valid => tlb'[i].virtualPage \in foreign'
  BY <1>1, <1>3 DEF PagingInv, TypeOK, TLBTrue
<1> QED
  BY <1>1, <1>2, <1>3, <1>4, NewSpaceKeeps

\* The parent writes its pages back before the child copies the file.
LEMMA ForkKeeps ==
  ASSUME PagingInv, NEW s \in Space, NEW c \in Space, Fork(s, c)
  PROVE  PagingInv'
<1>1. /\ User(s) /\ state[c] = "none"
      /\ vm' = [vm EXCEPT ![s] = WriteBackAll(s), ![c] = WriteBackAll(s)]
      /\ written' = [written EXCEPT ![c] = written[s]]
      /\ spoiled' = [spoiled EXCEPT ![c] = spoiled[s]]
      /\ pageTable' = [pageTable EXCEPT ![c] = NewTable]
      /\ state' = [state EXCEPT ![c] = "user"]
      /\ tlb' = SaveState /\ foreign' = {}
      /\ UNCHANGED <<policy, bitmap, mainMemory, Index, tableOf, current, fault>>
  BY DEF Fork
<1>2. s # c /\ HasSpace(s) /\ ~HasSpace(c)
  BY <1>1 DEF User, HasSpace
<1>3. \A v \in Page : WriteBackAll(s)[v] = Holds(s, v)
  BY DEF WriteBackAll, Holds
<1>4. \A v \in Page : Holds(s, v) \in Value
  <2>1. \A v \in Page : pageTable[s][v].valid => Phys(s, v) \in Frame
    BY DEF PagingInv, TypeOK, FramesUsed, Occupies
  <2> QED
    BY <2>1 DEF Holds, Phys, PagingInv, TypeOK
<1>5. WriteBackAll(s) \in [Page -> Value]
  BY <1>3, <1>4 DEF WriteBackAll
<1>6. /\ vm' \in [Space -> [Page -> Value]] /\ written' \in [Space -> [Page -> Value]]
      /\ spoiled' \in [Space -> SUBSET Page]
      /\ \A t \in Space \ {c} : written'[t] = written[t] /\ spoiled'[t] = spoiled[t]
      /\ \A t \in Space \ {c, s} : vm'[t] = vm[t]
      /\ vm'[s] = WriteBackAll(s) /\ vm'[c] = WriteBackAll(s)
      /\ written'[c] = written[s] /\ spoiled'[c] = spoiled[s]
  BY <1>1, <1>2, <1>5 DEF PagingInv, TypeOK
<1>7. \A t \in Space \ {c}, v \in Page : ~pageTable[t][v].valid => vm'[t][v] = vm[t][v]
  BY <1>3, <1>6 DEF Holds
<1>8. \A v \in Page : v \notin spoiled'[c] => written'[c][v] = vm'[c][v]
  <2>1. \A v \in Page : v \notin spoiled[s] => written[s][v] = Holds(s, v)
    BY <1>2 DEF PagingInv, LastWritten
  <2> QED
    BY <1>3, <1>6, <2>1
<1>9. \A t \in Space \ {c}, v \in Page :
        /\ written'[t][v] = written[t][v]
        /\ ~pageTable[t][v].valid => vm'[t][v] = vm[t][v]
  BY <1>6, <1>7
<1>10. /\ tlb' \in [Slot -> TranslationEntry] /\ foreign' \subseteq Page
       /\ \A i \in Slot : tlb'[i].valid => tlb'[i].virtualPage \in foreign'
       /\ tableOf' \in Space \cup {None}
  BY <1>1, SaveStateClears DEF PagingInv, TypeOK
<1>11. /\ pageTable' = [pageTable EXCEPT ![c] = NewTable]
       /\ state' = [state EXCEPT ![c] = "user"]
       /\ UNCHANGED <<policy, bitmap, mainMemory, Index, current, fault>>
  BY <1>1
<1> QED
  BY <1>2, <1>6, <1>8, <1>9, <1>10, <1>11, NewSpaceKeeps

\* Exit gives back the frames of its space, all of them and no others.
LEMMA ExitKeeps ==
  ASSUME PagingInv, NEW s \in Space, Exit(s)
  PROVE  PagingInv'
<1>1. /\ state[s] = "user"
      /\ bitmap' = bitmap \ freeMem(s)
      /\ tlb' = SaveState
      /\ pageTable' = [pageTable EXCEPT ![s] = NewTable]
      /\ vm' = [vm EXCEPT ![s] = Image]
      /\ written' = [written EXCEPT ![s] = Image]
      /\ state' = [state EXCEPT ![s] = "none"]
      /\ current' = None /\ tableOf' = None
      /\ mainMemory' = [f \in Frame |-> IF f \in freeMem(s) THEN 0 ELSE mainMemory[f]]
      /\ spoiled' = [spoiled EXCEPT ![s] = {}] /\ foreign' = {}
      /\ UNCHANGED <<policy, Index, fault>>
  BY DEF Exit, User
<1>2. \A f : f \in freeMem(s) <=> \E v \in Page : Occupies(s, v) /\ Phys(s, v) = f
  <2>1. DOMAIN pageTable[s] = Page
    BY DEF PagingInv, TypeOK
  <2>2. \A v \in Page : Occupies(s, v) <=> pageTable[s][v].valid
    BY <1>1 DEF Occupies
  <2> QED
    BY <2>1, <2>2 DEF freeMem, Frames, Valid, Phys
<1>3. tlb' \in [Slot -> TranslationEntry] /\ \A i \in Slot : ~tlb'[i].valid
  BY <1>1, SaveStateClears
<1>4. /\ pageTable' \in [Space -> [Page -> TranslationEntry]]
      /\ pageTable'[s] = NewTable /\ state'[s] = "none"
      /\ \A t \in Space \ {s} : pageTable'[t] = pageTable[t] /\ state'[t] = state[t]
  BY <1>1, NewEntries DEF PagingInv, TypeOK
<1>5. TypeOK'
  BY <1>1, <1>3, <1>4, NewEntries, Sizes DEF PagingInv, TypeOK
<1>6. Records'
  BY <1>1, <1>4, NewEntries DEF PagingInv, Records, HasSpace
<1>7. /\ \A v \in Page : ~Occupies(s, v)'
      /\ \A t \in Space \ {s}, v \in Page :
           (Occupies(t, v)' <=> Occupies(t, v)) /\ Phys(t, v)' = Phys(t, v)
  BY <1>1, <1>4, NewEntries DEF Occupies, Phys
<1>8. \A t \in Space \ {s}, v \in Page : Occupies(t, v) => Phys(t, v) \notin freeMem(s)
  BY <1>2 DEF PagingInv, FramesUsed
<1>9. FramesUsed'
  <2>1. \A t \in Space, v \in Page : Occupies(t, v)' => Phys(t, v)' \in bitmap'
    BY <1>1, <1>7, <1>8 DEF PagingInv, FramesUsed
  <2>2. ASSUME NEW t1 \in Space, NEW t2 \in Space, NEW v1 \in Page, NEW v2 \in Page,
               Occupies(t1, v1)', Occupies(t2, v2)', Phys(t1, v1)' = Phys(t2, v2)'
        PROVE  t1 = t2 /\ v1 = v2
    <3>1. Occupies(t1, v1) /\ Occupies(t2, v2) /\ Phys(t1, v1) = Phys(t2, v2)
      BY <1>7, <2>2
    <3> QED
      BY <3>1 DEF PagingInv, FramesUsed
  <2>3. ASSUME NEW f \in bitmap' PROVE \E t \in Space, v \in Page : Occupies(t, v)' /\ Phys(t, v)' = f
    <3>1. f \in bitmap /\ f \notin freeMem(s)
      BY <1>1
    <3>2. PICK t \in Space, v \in Page : Occupies(t, v) /\ Phys(t, v) = f
      BY <3>1 DEF PagingInv, FramesUsed
    <3>3. t # s
      BY <1>2, <3>1, <3>2
    <3> QED
      BY <1>7, <3>2, <3>3
  <2> QED
    BY <2>1, <2>2, <2>3 DEF FramesUsed
<1>10. TLBTrue'
  BY <1>3 DEF TLBTrue
<1>11. LastWritten'
  <2> SUFFICES ASSUME NEW t \in Space, HasSpace(t)', NEW v \in Page, v \notin spoiled'[t]
               PROVE  written'[t][v] = Holds(t, v)'
    BY DEF LastWritten
  <2>1. t # s
    BY <1>4 DEF HasSpace
  <2>2. v \notin spoiled[t] /\ HasSpace(t)
    BY <1>1, <1>4, <2>1 DEF HasSpace, PagingInv, TypeOK
  <2>3. written[t][v] = Holds(t, v)
    BY <2>2 DEF PagingInv, LastWritten
  <2>4. written'[t] = written[t] /\ vm'[t] = vm[t]
    BY <1>1, <2>1 DEF PagingInv, TypeOK
  <2>5. pageTable[t][v].valid => Phys(t, v) \in Frame /\ Phys(t, v) \notin freeMem(s)
    BY <1>8, <2>1 DEF Occupies, PagingInv, FramesUsed, TypeOK
  <2>6. pageTable[t][v].valid => mainMemory'[Phys(t, v)] = mainMemory[Phys(t, v)]
    BY <1>1, <2>5
  <2>7. Phys(t, v)' = Phys(t, v) /\ pageTable'[t] = pageTable[t]
    BY <1>4, <1>7, <2>1
  <2> QED
    BY <2>3, <2>4, <2>6, <2>7 DEF Holds, Phys
<1> QED
  BY <1>5, <1>6, <1>9, <1>10, <1>11 DEF PagingInv
-----------------------------------------------------------------------------
(***************************************************************************)
(* The theorems.                                                           *)
(***************************************************************************)

\* Every step keeps the invariant.
LEMMA NextInv == PagingInv /\ [Next]_vars => PagingInv'
<1> SUFFICES ASSUME PagingInv, [Next]_vars PROVE PagingInv'
  OBVIOUS
<1>1. ASSUME NEW s \in Space, NEW v \in Page,
             ReadMem(s, v) \/ TLBMissHandler(s, v) \/ PageFaultHandler(s, v) \/ GetFileName(s, v)
      PROVE  PagingInv'
  BY <1>1, ReadMemKeeps, TLBMissKeeps, PageFaultKeeps, GetFileNameKeeps
<1>2. ASSUME NEW s \in Space, NEW v \in Page, NEW x \in Value, WriteMem(s, v, x)
      PROVE  PagingInv'
  BY <1>2, WriteMemKeeps
<1>3. ASSUME NEW s \in Space, PageLoaded(s) \/ Switch(s) \/ ExecFunc(s) \/ Exit(s) PROVE PagingInv'
  BY <1>3, PageLoadedKeeps, SwitchKeeps, ExecFuncKeeps, ExitKeeps
<1>4. ASSUME NEW s \in Space, NEW c \in Space, ExecHandler(s, c) \/ Fork(s, c) PROVE PagingInv'
  BY <1>4, ExecHandlerKeeps, ForkKeeps
<1>5. CASE UNCHANGED vars
  BY <1>5 DEF vars, memory, threads, history, PagingInv, TypeOK, Records, FramesUsed, TLBTrue,
              LastWritten, Occupies, Phys, Holds, HasSpace
<1> QED
  BY <1>1, <1>2, <1>3, <1>4, <1>5 DEF Next

\* The invariant holds in every behaviour.
LEMMA Invariance == Spec => []PagingInv
BY InitInv, NextInv, PTL DEF Spec

\* Owned, in terms of the pages that occupy frames.
LEMMA OwnedFrames ==
  ASSUME PagingInv, NEW s \in Space
  PROVE  \A f : f \in Owned(s) <=> \E v \in Page : Occupies(s, v) /\ Phys(s, v) = f
<1>1. DOMAIN pageTable[s] = Page /\ fault[s] \in Page
  BY DEF PagingInv, TypeOK
<1> QED
  BY <1>1 DEF Owned, Frames, Valid, Occupies, Phys

\* Through faults, replacements, forks and exits every frame in use is the frame
\* of one page of one space, for any number of spaces, pages and frames: the
\* free map of machine.cc and the page tables of addrspace.cc never disagree.
THEOREM FramesAreAccounted == Spec => []FramesAccounted
<1>1. ASSUME PagingInv PROVE FramesAccounted
  <2>1. bitmap = UNION {Owned(s) : s \in Space}
    BY <1>1, OwnedFrames DEF PagingInv, FramesUsed
  <2>2. \A s, t \in Space : s # t => Owned(s) \cap Owned(t) = {}
    BY <1>1, OwnedFrames DEF PagingInv, FramesUsed
  <2>3. ASSUME NEW s \in Space
        PROVE  Cardinality(Frames(pageTable[s])) = Cardinality(Valid(pageTable[s]))
    <3> DEFINE table == pageTable[s]
               phys  == [v \in Valid(table) |-> table[v].physicalPage]
    <3>1. DOMAIN table = Page
      BY <1>1 DEF PagingInv, TypeOK
    <3>2. IsFiniteSet(Valid(table))
      <4>1. IsFiniteSet(Page)
        BY Sizes, FS_Interval DEF Page
      <4>2. Valid(table) \subseteq Page
        BY <3>1 DEF Valid
      <4> QED
        BY <4>1, <4>2, FS_Subset
    <3>3. phys \in Surjection(Valid(table), Frames(table))
      BY DEF Surjection, Frames
    <3>4. phys \in Injection(Valid(table), Frames(table))
      <4>1. \A v \in Valid(table) : v \in Page /\ Occupies(s, v) /\ Phys(s, v) = phys[v]
        BY <3>1 DEF Valid, Occupies, Phys
      <4>2. \A v, w \in Valid(table) : phys[v] = phys[w] => v = w
        BY <1>1, <4>1 DEF PagingInv, FramesUsed
      <4>3. phys \in [Valid(table) -> Frames(table)]
        BY DEF Frames
      <4> QED
        BY <4>2, <4>3 DEF Injection, IsInjective
    <3> QED
      BY <3>2, <3>3, <3>4, FS_Surjection
  <2> QED
    BY <2>1, <2>2, <2>3 DEF FramesAccounted
<1> QED
  BY <1>1, Invariance, PTL

\* For any number of programs, pages, frames and entries the TLB translates as the
\* running thread's own page table does: what switches, faults, replacements and
\* exits leave in it never does harm, and the entries that an Exec'd thread loads
\* before it has a space are the only ones that may be another program's.
THEOREM ProgramsAreIsolated == Spec => []Isolation
<1>1. PagingInv => Isolation
  BY DEF PagingInv, TLBTrue, Isolation, Phys
<1> QED
  BY <1>1, Invariance, PTL

\* A page that has not been spoiled holds and reads as what its program, or the
\* parent before its fork, last wrote, wherever it is and however often it has
\* been replaced: the loss of a modified page and the writes through a foreign
\* entry are the only ways to lose one.
THEOREM ReadsReturnLastWrite == Spec => []ReadsLastWrite
<1>1. ASSUME PagingInv PROVE ReadsLastWrite
  <2> SUFFICES ASSUME NEW s \in Space, HasSpace(s), NEW v \in Page \ spoiled[s]
               PROVE  /\ written[s][v] = Holds(s, v)
                      /\ \A i \in Hits(v) : current = s /\ v \notin foreign =>
                           mainMemory[tlb[i].physicalPage] = written[s][v]
    BY DEF ReadsLastWrite
  <2>1. written[s][v] = Holds(s, v)
    BY <1>1 DEF PagingInv, LastWritten
  <2>2. ASSUME NEW i \in Hits(v), current = s, v \notin foreign
        PROVE  mainMemory[tlb[i].physicalPage] = written[s][v]
    <3>1. i \in Slot /\ tlb[i].valid /\ tlb[i].virtualPage = v
      BY DEF Hits
    <3>2. pageTable[s][v].valid /\ Phys(s, v) = tlb[i].physicalPage
      BY <1>1, <2>2, <3>1 DEF PagingInv, TLBTrue
    <3> QED
      BY <2>1, <3>2 DEF Holds, Phys
  <2> QED
    BY <2>1, <2>2
<1> QED
  BY <1>1, Invariance, PTL
===============================================================================
