------------------------- MODULE OpenFileTableProofs --------------------------
(***************************************************************************)
(* DescriptorsHold and NothingOrphaned for any set of threads, any names   *)
(* and any size of the table.                                              *)
(***************************************************************************)
EXTENDS OpenFileTable, FiniteSetTheorems, NaturalsInduction, TLAPS

\* Min of a set of numbers is one of them.
LEMMA LeastIn ==
  ASSUME NEW S, S \subseteq Nat, S # {}
  PROVE  Min(S) \in S
<1>1. IsWellFoundedOn({p \in Nat \X Nat : p[1] < p[2]}, Nat)
  BY NatLessThanWellFounded, Zenon DEF OpToRel
<1>2. PICK x \in S : \A y \in S : ~(<<y, x>> \in {p \in Nat \X Nat : p[1] < p[2]})
  BY <1>1, WFMin
<1>3. ASSUME NEW y \in S PROVE x <= y
  <2>1. y \in Nat /\ x \in Nat
    OBVIOUS
  <2>2. <<y, x>> \in Nat \X Nat /\ <<y, x>>[1] = y /\ <<y, x>>[2] = x
    BY <2>1
  <2>3. ~(<<y, x>>[1] < <<y, x>>[2])
    BY <1>2, <2>2, Zenon
  <2> QED
    BY <2>1, <2>2, <2>3
<1> QED
  BY <1>3 DEF Min

(***************************************************************************)
(* A finite set of numbers has a k-th smallest element for every k up to   *)
(* its size: the number of smaller elements is an injection of the set     *)
(* into as many numbers, and so onto them.                                 *)
(***************************************************************************)
LEMMA NthIn ==
  ASSUME NEW S, S \subseteq Nat, IsFiniteSet(S), NEW k \in 1..Cardinality(S)
  PROVE  Nth(S, k) \in S /\ Cardinality({y \in S : y < Nth(S, k)}) = k - 1
<1> DEFINE n == Cardinality(S)
           Below(x) == {y \in S : y < x}
           rank == [x \in S |-> Cardinality(Below(x))]
<1>1. n \in Nat /\ n > 0
  BY FS_CardinalityType
<1>2. ASSUME NEW x \in S
      PROVE  IsFiniteSet(Below(x)) /\ Cardinality(Below(x)) \in 0..(n - 1)
  <2>1. Below(x) \in SUBSET S /\ x \notin Below(x)
    OBVIOUS
  <2>2. IsFiniteSet(Below(x)) /\ Cardinality(Below(x)) <= n /\ Cardinality(Below(x)) # n
    BY <2>1, FS_Subset
  <2>3. Cardinality(Below(x)) \in Nat
    BY <2>2, FS_CardinalityType
  <2> HIDE DEF n, Below
  <2> QED
    BY <1>1, <2>2, <2>3
<1>3. ASSUME NEW x \in S, NEW y \in S, x < y
      PROVE  Cardinality(Below(x)) < Cardinality(Below(y))
  <2>0. x \in Nat /\ y \in Nat /\ \A z \in S : z \in Nat
    OBVIOUS
  <2>1. x \in Below(y) /\ x \notin Below(x)
    BY <1>3, <2>0
  <2>4. \A z \in Below(x) : z \in Below(y)
    <3>1. ASSUME NEW z \in S, z < x PROVE z < y
      BY <1>3, <2>0, <3>1
    <3> QED
      BY <3>1, Zenon
  <2>5. Below(x) \in SUBSET Below(y)
    <3> HIDE DEF Below
    <3> QED
      BY <2>4
  <2>2. /\ Cardinality(Below(x)) <= Cardinality(Below(y))
        /\ Cardinality(Below(x)) # Cardinality(Below(y))
    BY <1>2, <2>1, <2>5, FS_Subset
  <2>3. Cardinality(Below(x)) \in Nat /\ Cardinality(Below(y)) \in Nat
    BY <1>2, FS_CardinalityType
  <2> HIDE DEF Below
  <2> QED
    BY <2>2, <2>3
<1>4. rank \in [S -> 0..(n - 1)]
  BY <1>2
<1>5. ASSUME NEW x \in S, NEW y \in S, rank[x] = rank[y]
      PROVE  x = y
  <2>1. rank[x] = Cardinality(Below(x)) /\ rank[y] = Cardinality(Below(y))
    OBVIOUS
  <2>2. rank[x] \in Int /\ x \in Nat /\ y \in Nat
    BY <1>4
  <2>3. ~(x < y) /\ ~(y < x)
    BY <1>3, <1>5, <2>1, <2>2
  <2> QED
    BY <2>2, <2>3
<1>6. rank \in Injection(S, 0..(n - 1))
  BY <1>4, <1>5 DEF Injection, IsInjective
<1>7. IsFiniteSet(0..(n - 1)) /\ Cardinality(0..(n - 1)) = n
  <2> HIDE DEF n
  <2>1. IsFiniteSet(0..(n - 1)) /\ Cardinality(0..(n - 1)) = IF 0 > n - 1 THEN 0 ELSE (n - 1) - 0 + 1
    BY <1>1, FS_Interval
  <2> QED
    BY <1>1, <2>1
<1>8. rank \in Surjection(S, 0..(n - 1))
  BY <1>6, <1>7, FS_Injection
<1>9. k - 1 \in 0..(n - 1)
  BY <1>1
<1>10. PICK x \in S : rank[x] = k - 1
  BY <1>8, <1>9 DEF Surjection
<1>11. \E z \in S : Cardinality({y \in S : y < z}) = k - 1
  BY <1>10
<1> QED
  BY <1>11 DEF Nth

\* The k-th and the m-th smallest are two elements when k and m differ.
LEMMA NthDiffer ==
  ASSUME NEW S, S \subseteq Nat, IsFiniteSet(S),
         NEW k \in 1..Cardinality(S), NEW m \in 1..Cardinality(S), Nth(S, k) = Nth(S, m)
  PROVE  k = m
<1>1. k - 1 = m - 1
  BY NthIn
<1>2. k \in Int /\ m \in Int
  BY FS_CardinalityType
<1> QED
  BY <1>1, <1>2

\* Every element is the k-th smallest for some k.
LEMMA NthAll ==
  ASSUME NEW S, S \subseteq Nat, IsFiniteSet(S), NEW x \in S
  PROVE  \E k \in 1..Cardinality(S) : Nth(S, k) = x
<1> DEFINE n == Cardinality(S)
           f == [k \in 1..n |-> Nth(S, k)]
<1>1. n \in Nat
  BY FS_CardinalityType
<1>2. f \in [1..n -> S]
  BY NthIn
<1>3. f \in Injection(1..n, S)
  BY <1>2, NthDiffer DEF Injection, IsInjective
<1>4. Cardinality(1..n) = n
  BY <1>1, FS_Interval
<1>5. f \in Surjection(1..n, S)
  BY <1>3, <1>4, FS_Injection
<1>6. PICK k \in 1..n : f[k] = x
  BY <1>5 DEF Surjection
<1> QED
  BY <1>6

-----------------------------------------------------------------------------
(***************************************************************************)
(* The inductive invariant.  Beside what the two properties say: a thread  *)
(* that reads or writes has its file in the table, or was robbed of it, an *)
(* object being opened is in nobody else's hands, and a child whose parent *)
(* has not copied the table for it lives, or was late.                     *)
(***************************************************************************)
File  == [name : Name, pos : 0..MaxPos]
Entry == [valid : BOOLEAN, file : Object \cup {NoObject},
          TID : Thread \cup {NoTID}, ForkFileID : Fd \cup {NoFd}]

TypeOK ==
  /\ OpenedFiles \in [Fd -> Entry]
  /\ heap \in [Object -> File \cup {Deleted}]
  /\ state \in [Thread -> {"none", "user", "opening", "io", "forking"}]
  /\ held \in [Thread -> Object \cup {NoObject}]
  /\ child \in [Thread -> Thread \cup {NoTID}]
  /\ returned \in [Thread -> SUBSET (Fd \X Object)]
  /\ inherited \in [Thread -> SUBSET (Fd \X File)]
  /\ robbed \in SUBSET Thread
  /\ late \in SUBSET Thread

\* Whom the table may belong to.
Owner(t) == state[t] # "none" \/ t \in late

Live(o)  == heap[o] # Deleted
Valid(i) == OpenedFiles[i].valid

EntriesLive ==
  \A i \in Fd :
    /\ ~Valid(i) => OpenedFiles[i] = NoEntry
    /\ Valid(i) => /\ OpenedFiles[i].file \in Object
                   /\ Live(OpenedFiles[i].file)
                   /\ OpenedFiles[i].TID \in Thread
                   /\ Owner(OpenedFiles[i].TID)

FilesDistinct ==
  \A i, j \in Fd : Valid(i) /\ Valid(j) /\ i # j =>
    OpenedFiles[i].file # OpenedFiles[j].file

OpenersHold ==
  \A t \in Thread : state[t] = "opening" =>
    /\ held[t] \in Object /\ Live(held[t])
    /\ \A i \in Fd : Valid(i) => OpenedFiles[i].file # held[t]
    /\ \A u \in Thread : state[u] = "opening" /\ held[u] = held[t] => u = t

UsersHold ==
  \A t \in Thread : state[t] = "io" /\ t \notin robbed =>
    \E i \in Fd : Valid(i) /\ OpenedFiles[i].TID = t /\ OpenedFiles[i].file = held[t]

ChildrenWait ==
  \A t \in Thread :
    /\ child[t] \in Thread <=> state[t] = "forking"
    /\ child[t] \in Thread => Owner(child[t])

ReturnedHold ==
  \A t \in Thread : \A r \in returned[t] :
    Valid(r[1]) /\ OpenedFiles[r[1]].TID = t /\ OpenedFiles[r[1]].file = r[2]

ObjectsPlaced ==
  \A o \in Object : Live(o) =>
    \/ \E i \in Fd : Valid(i) /\ OpenedFiles[i].file = o
    \/ \E t \in Thread : state[t] = "opening" /\ held[t] = o

\* Entry i is t's copy of the id r[1], of the file that was r[2].
IsCopy(i, t, r) ==
  /\ Valid(i) /\ OpenedFiles[i].TID = t /\ OpenedFiles[i].ForkFileID = r[1]
  /\ heap[OpenedFiles[i].file].name = r[2].name
  /\ heap[OpenedFiles[i].file].pos >= r[2].pos

InheritedHold ==
  \A t \in Thread : \A r \in inherited[t] : \E i \in Fd : IsCopy(i, t, r)

TableInv ==
  /\ TypeOK
  /\ EntriesLive /\ FilesDistinct
  /\ OpenersHold /\ UsersHold /\ ChildrenWait
  /\ ReturnedHold /\ ObjectsPlaced /\ InheritedHold

\* The invariant says what the two properties say.
LEMMA TableInvImplies == TableInv => DescriptorsHold /\ NothingOrphaned
<1> SUFFICES ASSUME TableInv PROVE DescriptorsHold /\ NothingOrphaned
  OBVIOUS
<1>1. \A t \in Thread : \A r \in returned[t] : r[1] \in Fd /\ r[2] \in Object
  BY DEF TableInv, TypeOK
<1>2. DescriptorsHold
  <2>1. ASSUME NEW t \in Thread, NEW r \in returned[t]
        PROVE  r[1] \in Mine(OpenedFiles, t) /\ OpenedFiles[r[1]].file = r[2]
    BY <1>1 DEF TableInv, ReturnedHold, Mine, Valid
  <2>2. ASSUME NEW t \in Thread, state[t] = "io", t \notin robbed
        PROVE  \E i \in Mine(OpenedFiles, t) : OpenedFiles[i].file = held[t]
    BY <2>2 DEF TableInv, UsersHold, Mine, Valid
  <2>3. \A i, j \in Fd \ Vacant(OpenedFiles) :
          /\ heap[OpenedFiles[i].file] # Deleted
          /\ i # j => OpenedFiles[i].file # OpenedFiles[j].file
    BY DEF TableInv, EntriesLive, FilesDistinct, Vacant, Valid, Live
  <2> QED
    BY <2>1, <2>2, <2>3 DEF DescriptorsHold
<1>3. NothingOrphaned
  <2>1. \A i \in Fd \ Vacant(OpenedFiles) :
          state[OpenedFiles[i].TID] # "none" \/ OpenedFiles[i].TID \in late
    BY DEF TableInv, EntriesLive, Owner, Vacant, Valid
  <2>2. \A o \in Object : heap[o] # Deleted =>
          \/ \E i \in Fd : OpenedFiles[i].valid /\ OpenedFiles[i].file = o
          \/ \E t \in Thread : state[t] = "opening" /\ held[t] = o
    BY DEF TableInv, ObjectsPlaced, Valid, Live
  <2>3. \A t \in Thread : \A r \in inherited[t] : \E i \in Forked(t, r[1]) :
          LET file == heap[OpenedFiles[i].file]
          IN  file.name = r[2].name /\ file.pos >= r[2].pos
    BY DEF TableInv, InheritedHold, IsCopy, Forked, Mine, Valid
  <2> QED
    BY <2>1, <2>2, <2>3 DEF NothingOrphaned
<1> QED
  BY <1>2, <1>3

\* The constants that stand for nothing are not what they are compared with.
LEMMA Nothing ==
  /\ Fd \subseteq Nat /\ NoFd \notin Fd /\ Object \subseteq Nat /\ NoObject \notin Object
  /\ NoTID \notin Thread
  /\ \A f \in File : f # Deleted
<1>1. \A f \in File : f # Deleted
  BY OpenFileTableAssumption DEF File, Deleted
<1> QED
  BY <1>1, OpenFileTableAssumption DEF Fd, NoFd, Object, NoObject, NoTID

\* A step that changes nothing keeps the invariant.
LEMMA TableStutters == TableInv /\ UNCHANGED vars => TableInv'
<1> SUFFICES ASSUME TableInv, UNCHANGED vars PROVE TableInv'
  OBVIOUS
<1> QED
  BY DEF vars, TableInv, TypeOK, EntriesLive, FilesDistinct, OpenersHold, UsersHold,
         ChildrenWait, ReturnedHold, ObjectsPlaced, InheritedHold, IsCopy, Live, Valid, Owner

LEMMA TableStarts == Init => TableInv
<1> SUFFICES ASSUME Init PROVE TableInv
  OBVIOUS
<1>1. TypeOK
  BY Nothing DEF Init, TypeOK, NoEntry, Entry
<1>2. \A i \in Fd : ~Valid(i) /\ OpenedFiles[i] = NoEntry
  BY DEF Init, Valid, NoEntry
<1>3. EntriesLive /\ FilesDistinct
  BY <1>2 DEF EntriesLive, FilesDistinct
<1>4. \A t \in Thread : state[t] \in {"user", "none"} /\ child[t] = NoTID
  BY DEF Init
<1>5. OpenersHold /\ UsersHold /\ ChildrenWait
  BY <1>4, Nothing DEF OpenersHold, UsersHold, ChildrenWait
<1>6. ReturnedHold /\ ObjectsPlaced /\ InheritedHold
  BY DEF Init, ReturnedHold, ObjectsPlaced, InheritedHold, Live
<1> QED
  BY <1>1, <1>3, <1>5, <1>6 DEF TableInv

-----------------------------------------------------------------------------
(***************************************************************************)
(* There are enough objects: an open file is in an entry or in the hands   *)
(* of a thread that opens it, so a thread that opens none finds more       *)
(* objects free than the table has vacant entries.                         *)
(***************************************************************************)
FreeObjects == {o \in Object : heap[o] = Deleted}

LEMMA TableFinite ==
  /\ IsFiniteSet(Fd) /\ Cardinality(Fd) = MAX_FILE_NUMBER - 2
  /\ IsFiniteSet(Object) /\ Cardinality(Object) = MAX_FILE_NUMBER - 2 + Cardinality(Thread)
  /\ IsFiniteSet(Thread) /\ Cardinality(Thread) \in Nat /\ MAX_FILE_NUMBER - 2 \in Nat
<1>1. IsFiniteSet(Thread) /\ Cardinality(Thread) \in Nat /\ MAX_FILE_NUMBER - 2 \in Nat
  BY OpenFileTableAssumption, FS_CardinalityType
<1> DEFINE c == Cardinality(Thread)
           b == MAX_FILE_NUMBER - 2 + c
<1> HIDE DEF c
<1>2. c \in Nat /\ b \in Nat /\ MAX_FILE_NUMBER \in Nat /\ MAX_FILE_NUMBER > 2 /\ b >= 1
  BY <1>1, OpenFileTableAssumption DEF c
<1>3. IsFiniteSet(2..(MAX_FILE_NUMBER - 1)) /\ Cardinality(2..(MAX_FILE_NUMBER - 1)) = MAX_FILE_NUMBER - 2
  <2>1. /\ IsFiniteSet(2..(MAX_FILE_NUMBER - 1))
        /\ Cardinality(2..(MAX_FILE_NUMBER - 1)) =
             IF 2 > MAX_FILE_NUMBER - 1 THEN 0 ELSE (MAX_FILE_NUMBER - 1) - 2 + 1
    BY <1>2, FS_Interval
  <2> QED
    BY <1>2, <2>1
<1>4. IsFiniteSet(1..b) /\ Cardinality(1..b) = b
  <2> HIDE DEF b
  <2>1. IsFiniteSet(1..b) /\ Cardinality(1..b) = IF 1 > b THEN 0 ELSE b - 1 + 1
    BY <1>2, FS_Interval
  <2> QED
    BY <1>2, <2>1
<1> QED
  BY <1>1, <1>3, <1>4 DEF Fd, Object, c

\* A finite set has no more images than elements.
LEMMA ImageBound ==
  ASSUME NEW S, IsFiniteSet(S), NEW f
  PROVE  LET T == {f[x] : x \in S} IN IsFiniteSet(T) /\ Cardinality(T) <= Cardinality(S)
<1> DEFINE T == {f[x] : x \in S}
           g == [x \in S |-> f[x]]
<1>1. g \in Surjection(S, T)
  BY DEF Surjection
<1> HIDE DEF T, g
<1>2. IsFiniteSet(T) /\ Cardinality(T) <= Cardinality(S)
  BY <1>1, FS_Surjection
<1> QED
  BY <1>2 DEF T

LEMMA ObjectsSpare ==
  ASSUME TableInv, NEW t \in Thread, state[t] # "opening"
  PROVE  /\ IsFiniteSet(FreeObjects)
         /\ Cardinality(FreeObjects) > Cardinality(Vacant(OpenedFiles))
<1> DEFINE full   == Fd \ Vacant(OpenedFiles)
           files  == {OpenedFiles[i].file : i \in full}
           others == Thread \ {t}
           hands  == {held[u] : u \in others}
           used   == Object \ FreeObjects
<1>1. /\ IsFiniteSet(Vacant(OpenedFiles)) /\ IsFiniteSet(full)
      /\ Cardinality(full) = MAX_FILE_NUMBER - 2 - Cardinality(Vacant(OpenedFiles))
      /\ Cardinality(Vacant(OpenedFiles)) \in Nat
  <2>1. Vacant(OpenedFiles) \in SUBSET Fd /\ full \in SUBSET Fd
    BY DEF Vacant
  <2>2. IsFiniteSet(Vacant(OpenedFiles)) /\ IsFiniteSet(full)
    BY <2>1, FS_Subset, TableFinite
  <2>3. /\ Cardinality(Vacant(OpenedFiles)) \in Nat /\ Cardinality(full) \in Nat
    BY <2>2, FS_CardinalityType
  <2>4. Vacant(OpenedFiles) \cup full = Fd /\ Vacant(OpenedFiles) \cap full = {}
    BY <2>1
  <2> HIDE DEF full
  <2>5. Cardinality(Fd) = Cardinality(Vacant(OpenedFiles)) + Cardinality(full) - Cardinality({})
    BY <2>2, <2>4, FS_Union
  <2>6. Cardinality({}) = 0
    BY FS_EmptySet
  <2> QED
    BY <2>2, <2>3, <2>5, <2>6, TableFinite
<1>2. IsFiniteSet(others) /\ Cardinality(others) = Cardinality(Thread) - 1
  BY TableFinite, FS_RemoveElement
<1>3. IsFiniteSet(files) /\ Cardinality(files) <= Cardinality(full) /\ Cardinality(files) \in Nat
  <2> HIDE DEF full
  <2> DEFINE f == [i \in full |-> OpenedFiles[i].file]
  <2>1. IsFiniteSet(files) /\ Cardinality(files) <= Cardinality(full)
    <3>1. files = {f[i] : i \in full}
      OBVIOUS
    <3> HIDE DEF f, files
    <3> QED
      BY <1>1, <3>1, ImageBound
  <2> QED
    BY <2>1, FS_CardinalityType
<1>4. IsFiniteSet(hands) /\ Cardinality(hands) <= Cardinality(others) /\ Cardinality(hands) \in Nat
  <2> HIDE DEF others
  <2>1. IsFiniteSet(hands) /\ Cardinality(hands) <= Cardinality(others)
    BY <1>2, ImageBound
  <2> QED
    BY <2>1, FS_CardinalityType
<1>5. used \subseteq files \cup hands
  BY DEF TableInv, ObjectsPlaced, Live, Valid, FreeObjects, Vacant
<1>6. /\ IsFiniteSet(FreeObjects) /\ IsFiniteSet(used)
      /\ Cardinality(FreeObjects) \in Nat /\ Cardinality(used) \in Nat
      /\ Cardinality(Object) = Cardinality(FreeObjects) + Cardinality(used)
  <2>1. FreeObjects \in SUBSET Object /\ used \in SUBSET Object
    BY DEF FreeObjects
  <2>2. IsFiniteSet(FreeObjects) /\ IsFiniteSet(used)
    BY <2>1, FS_Subset, TableFinite
  <2>3. Cardinality(FreeObjects) \in Nat /\ Cardinality(used) \in Nat
    BY <2>2, FS_CardinalityType
  <2>4. FreeObjects \cup used = Object /\ FreeObjects \cap used = {}
    BY <2>1
  <2> HIDE DEF used
  <2>5. Cardinality(Object) = Cardinality(FreeObjects) + Cardinality(used) - Cardinality({})
    BY <2>2, <2>4, FS_Union
  <2>6. Cardinality({}) = 0
    BY FS_EmptySet
  <2> QED
    BY <2>2, <2>3, <2>5, <2>6
<1>7. Cardinality(used) <= Cardinality(files) + Cardinality(hands)
  <2> HIDE DEF files, hands, used
  <2>1. /\ IsFiniteSet(files \cup hands)
        /\ Cardinality(files \cup hands)
             = Cardinality(files) + Cardinality(hands) - Cardinality(files \cap hands)
    BY <1>3, <1>4, FS_Union
  <2>2. IsFiniteSet(files \cap hands)
    BY <1>3, FS_Subset
  <2>3. Cardinality(files \cap hands) \in Nat /\ Cardinality(files \cup hands) \in Nat
    BY <2>1, <2>2, FS_CardinalityType
  <2>4. Cardinality(used) <= Cardinality(files \cup hands)
    BY <1>5, <2>1, FS_Subset
  <2> QED
    BY <1>3, <1>4, <1>6, <2>1, <2>3, <2>4
<1> HIDE DEF full, files, others, hands, used
<1> QED
  BY <1>1, <1>2, <1>3, <1>4, <1>6, <1>7, TableFinite

\* Open finds an object that is free.
LEMMA NewObjectIsFree ==
  ASSUME TableInv, NEW t \in Thread, state[t] # "opening"
  PROVE  NewObject \in Object /\ heap[NewObject] = Deleted
<1>1. IsFiniteSet(Vacant(OpenedFiles))
  BY TableFinite, FS_Subset DEF Vacant
<1>2. Cardinality(Vacant(OpenedFiles)) \in Nat /\ Cardinality(FreeObjects) # 0
  BY <1>1, ObjectsSpare, FS_CardinalityType
<1>3. FreeObjects # {}
  BY <1>2, FS_EmptySet
<1>4. FreeObjects \subseteq Nat
  BY Nothing DEF FreeObjects
<1>5. NewObject = Min(FreeObjects)
  BY DEF NewObject, FreeObjects
<1>6. NewObject \in FreeObjects
  BY <1>3, <1>4, <1>5, LeastIn
<1> QED
  BY <1>6 DEF FreeObjects

-----------------------------------------------------------------------------
(* What each operation does keeps the invariant. *)

LEMMA OpenKeeps ==
  ASSUME TableInv, NEW t \in Thread, NEW name \in Name, Open(t, name)
  PROVE  TableInv'
<1> DEFINE n == NewObject
<1>1. n \in Object /\ heap[n] = Deleted
  BY NewObjectIsFree DEF Open
<1> HIDE DEF n
<1>2. /\ state[t] = "user"
      /\ heap' = [heap EXCEPT ![n] = [name |-> name, pos |-> 0]]
      /\ held' = [held EXCEPT ![t] = n]
      /\ state' = [state EXCEPT ![t] = "opening"]
      /\ UNCHANGED <<OpenedFiles, child, returned, inherited, robbed, late>>
  BY DEF Open, history, n
<1>3. [name |-> name, pos |-> 0] \in File
  BY OpenFileTableAssumption DEF File
<1>4. TypeOK'
  BY <1>1, <1>2, <1>3 DEF TableInv, TypeOK
<1>5. heap'[n] # Deleted /\ \A o \in Object : o # n => heap'[o] = heap[o]
  BY <1>1, <1>2, <1>3, Nothing DEF TableInv, TypeOK
<1>6. /\ state'[t] = "opening" /\ held'[t] = n
      /\ \A u \in Thread : u # t => state'[u] = state[u] /\ held'[u] = held[u]
  BY <1>2 DEF TableInv, TypeOK
<1>7. \A i \in Fd : Valid(i) => OpenedFiles[i].file \in Object /\ OpenedFiles[i].file # n
  BY <1>1 DEF TableInv, EntriesLive, Live
<1>8. \A u \in Thread : state[u] = "opening" => held[u] \in Object /\ held[u] # n
  BY <1>1 DEF TableInv, OpenersHold, Live
<1>17. \A u \in Thread : Owner(u) => Owner(u)'
  BY <1>2, <1>6 DEF Owner
<1>9. EntriesLive'
  BY <1>2, <1>5, <1>7, <1>17 DEF TableInv, EntriesLive, Live, Valid
<1>10. FilesDistinct' /\ ReturnedHold'
  BY <1>2 DEF TableInv, FilesDistinct, ReturnedHold, Valid
<1>11. OpenersHold'
  BY <1>1, <1>2, <1>5, <1>6, <1>7, <1>8 DEF TableInv, OpenersHold, Live, Valid
<1>12. UsersHold'
  BY <1>2, <1>6 DEF TableInv, UsersHold, Valid
<1>13. ChildrenWait'
  BY <1>2, <1>6, <1>17 DEF TableInv, ChildrenWait
<1>15. ObjectsPlaced'
  BY <1>2, <1>5, <1>6 DEF TableInv, ObjectsPlaced, Live, Valid
<1>16. InheritedHold'
  BY <1>2, <1>5, <1>7 DEF TableInv, InheritedHold, IsCopy, Valid
<1> QED
  BY <1>4, <1>9, <1>10, <1>11, <1>12, <1>13, <1>15, <1>16 DEF TableInv

LEMMA OpenHandlerKeeps ==
  ASSUME TableInv, NEW t \in Thread, OpenHandler(t)
  PROVE  TableInv'
<1>1. PICK k \in Fd : k = Min(Vacant(OpenedFiles)) /\ ~Valid(k)
  <2>1. Vacant(OpenedFiles) \subseteq Nat /\ Vacant(OpenedFiles) # {}
    BY Nothing DEF OpenHandler, Vacant
  <2>2. Min(Vacant(OpenedFiles)) \in Vacant(OpenedFiles)
    BY <2>1, LeastIn
  <2> QED
    BY <2>2 DEF Vacant, Valid
<1>0. PICK o : o = held[t]
  OBVIOUS
<1>2. /\ OpenedFiles' = [OpenedFiles EXCEPT ![k] = [@ EXCEPT !.valid = TRUE, !.file = o, !.TID = t]]
      /\ returned' = [returned EXCEPT ![t] = @ \cup {<<k, o>>}]
      /\ held' = [held EXCEPT ![t] = NoObject]
      /\ state' = [state EXCEPT ![t] = "user"]
      /\ UNCHANGED <<heap, child, inherited, robbed, late>>
      /\ state[t] = "opening"
  BY <1>0, <1>1 DEF OpenHandler, AddNewFile
<1>3. /\ o \in Object /\ Live(o)
      /\ \A i \in Fd : Valid(i) => OpenedFiles[i].file # o
      /\ \A u \in Thread : state[u] = "opening" /\ held[u] = o => u = t
  BY <1>0, <1>2 DEF TableInv, OpenersHold
<1>4. \A i \in Fd : i # k => OpenedFiles'[i] = OpenedFiles[i]
  BY <1>2 DEF TableInv, TypeOK
<1>5. /\ OpenedFiles'[k] \in Entry
      /\ Valid(k)' /\ OpenedFiles'[k].file = o /\ OpenedFiles'[k].TID = t
      /\ OpenedFiles'[k].ForkFileID = NoFd
      /\ \A i \in Fd : i # k => (Valid(i)' <=> Valid(i))
  <2>1. OpenedFiles[k] = NoEntry /\ NoEntry.ForkFileID = NoFd
    <3>1. OpenedFiles[k] = NoEntry
      BY <1>1 DEF TableInv, EntriesLive
    <3> QED
      BY <3>1 DEF NoEntry
  <2>2. OpenedFiles[k] \in Entry
    BY <1>1 DEF TableInv, TypeOK
  <2>3. OpenedFiles'[k] = [OpenedFiles[k] EXCEPT !.valid = TRUE, !.file = o, !.TID = t]
    BY <1>1, <1>2, Zenon DEF TableInv, TypeOK
  <2>4. \A i \in Fd : i # k => (Valid(i)' <=> Valid(i))
    BY <1>4, Zenon DEF Valid
  <2>5. /\ OpenedFiles'[k] \in Entry /\ OpenedFiles'[k].valid /\ OpenedFiles'[k].file = o
        /\ OpenedFiles'[k].TID = t /\ OpenedFiles'[k].ForkFileID = OpenedFiles[k].ForkFileID
    <3>1. PICK e : e = OpenedFiles[k]
      OBVIOUS
    <3>2. PICK f : f = OpenedFiles'[k]
      OBVIOUS
    <3>3. e \in Entry /\ f = [e EXCEPT !.valid = TRUE, !.file = o, !.TID = t]
      BY <2>2, <2>3, <3>1, <3>2, Zenon
    <3>4. f \in Entry /\ f.valid /\ f.file = o /\ f.TID = t /\ f.ForkFileID = e.ForkFileID
      BY <1>3, <3>3 DEF Entry
    <3> QED
      BY <3>1, <3>2, <3>4
  <2> QED
    BY <2>1, <2>4, <2>5 DEF Valid
<1>6. /\ state'[t] = "user"
      /\ \A u \in Thread : u # t => state'[u] = state[u] /\ held'[u] = held[u]
  BY <1>2 DEF TableInv, TypeOK
<1>18. Owner(t)' /\ \A u \in Thread : Owner(u) => Owner(u)'
  BY <1>2, <1>6 DEF Owner
<1>7. TypeOK'
  <2>2. OpenedFiles' \in [Fd -> Entry]
    <3>1. OpenedFiles' = [OpenedFiles EXCEPT ![k] = OpenedFiles'[k]]
      BY <1>1, <1>2 DEF TableInv, TypeOK
    <3> QED
      BY <1>5, <3>1 DEF TableInv, TypeOK
  <2>3. returned' \in [Thread -> SUBSET (Fd \X Object)]
    BY <1>1, <1>2, <1>3 DEF TableInv, TypeOK
  <2> QED
    BY <1>2, <2>2, <2>3 DEF TableInv, TypeOK
<1>8. EntriesLive'
  <2>1. ASSUME NEW i \in Fd, i # k
        PROVE  /\ ~Valid(i)' => OpenedFiles'[i] = NoEntry
               /\ Valid(i)' => /\ OpenedFiles'[i].file \in Object
                               /\ Live(OpenedFiles[i].file)
                               /\ OpenedFiles'[i].TID \in Thread
                               /\ Owner(OpenedFiles[i].TID)
    BY <1>4, <1>5, <2>1 DEF TableInv, EntriesLive
  <2>2. \A i \in Fd : i # k => /\ OpenedFiles'[i].file = OpenedFiles[i].file
                               /\ OpenedFiles'[i].TID = OpenedFiles[i].TID
    BY <1>4
  <2> QED
    BY <1>2, <1>3, <1>5, <1>18, <2>1, <2>2 DEF EntriesLive, Live
<1>9. FilesDistinct'
  BY <1>3, <1>4, <1>5 DEF TableInv, FilesDistinct
<1>11. OpenersHold'
  <2>1. ASSUME NEW u \in Thread, state'[u] = "opening"
        PROVE  /\ u # t /\ state[u] = "opening" /\ held'[u] = held[u] /\ held[u] # o
    BY <1>3, <1>6, <2>1
  <2> QED
    BY <1>2, <1>4, <1>5, <1>6, <2>1 DEF TableInv, OpenersHold, Live
<1>12. UsersHold'
  BY <1>1, <1>2, <1>4, <1>5, <1>6 DEF TableInv, UsersHold
<1>13. ChildrenWait'
  BY <1>2, <1>6, <1>18 DEF TableInv, ChildrenWait
<1>15. ReturnedHold'
  <2>1. ASSUME NEW u \in Thread, NEW r \in returned'[u]
        PROVE  Valid(r[1])' /\ OpenedFiles'[r[1]].TID = u /\ OpenedFiles'[r[1]].file = r[2]
    <3>1. CASE r \in returned[u]
      <4>1. r[1] \in Fd /\ Valid(r[1]) /\ OpenedFiles[r[1]].TID = u /\ OpenedFiles[r[1]].file = r[2]
        BY <3>1 DEF TableInv, TypeOK, ReturnedHold
      <4> QED
        BY <1>1, <1>4, <1>5, <4>1
    <3>2. CASE r \notin returned[u]
      <4>1. u = t /\ r = <<k, o>>
        BY <1>2, <2>1, <3>2 DEF TableInv, TypeOK
      <4> QED
        BY <1>5, <4>1
    <3> QED
      BY <3>1, <3>2
  <2> QED
    BY <2>1 DEF ReturnedHold
<1>16. ObjectsPlaced'
  <2>1. ASSUME NEW p \in Object, Live(p)'
        PROVE  \/ \E i \in Fd : Valid(i)' /\ OpenedFiles'[i].file = p
               \/ \E u \in Thread : state'[u] = "opening" /\ held'[u] = p
    <3>1. Live(p)
      BY <1>2, <2>1 DEF Live
    <3>2. CASE p = o
      BY <1>1, <1>5, <3>2
    <3>3. CASE p # o
      <4>1. CASE \E i \in Fd : Valid(i) /\ OpenedFiles[i].file = p
        BY <1>1, <1>4, <1>5, <4>1
      <4>2. CASE \E u \in Thread : state[u] = "opening" /\ held[u] = p
        BY <1>0, <1>6, <3>3, <4>2
      <4> QED
        BY <3>1, <4>1, <4>2 DEF TableInv, ObjectsPlaced
    <3> QED
      BY <3>2, <3>3
  <2> QED
    BY <2>1 DEF ObjectsPlaced
<1>17. InheritedHold'
  <2>1. \A i \in Fd : \A u : \A r : IsCopy(i, u, r) => IsCopy(i, u, r)'
    BY <1>1, <1>2, <1>4, <1>5 DEF IsCopy
  <2> QED
    BY <1>2, <2>1 DEF TableInv, InheritedHold
<1> QED
  BY <1>7, <1>8, <1>9, <1>11, <1>12, <1>13, <1>15, <1>16, <1>17 DEF TableInv

\* Close(gone), where gone are entries of t: the files of the other entries and
\* the objects that are being opened stay as they are.
LEMMA ClosedOnly ==
  ASSUME TableInv, NEW t \in Thread, NEW gone \in SUBSET Mine(OpenedFiles, t), Close(gone)
  PROVE  /\ OpenedFiles' \in [Fd -> Entry] /\ heap' \in [Object -> File \cup {Deleted}]
         /\ \A i \in Fd : Valid(i)' <=> Valid(i) /\ i \notin gone
         /\ \A i \in Fd : ~Valid(i)' => OpenedFiles'[i] = NoEntry
         /\ \A i \in Fd : Valid(i)' => /\ OpenedFiles'[i] = OpenedFiles[i]
                                       /\ heap'[OpenedFiles[i].file] = heap[OpenedFiles[i].file]
         /\ \A o \in Object : Live(o)' =>
              Live(o) /\ \A i \in gone : OpenedFiles[i].file # o
         /\ \A u \in Thread : state[u] = "opening" => heap'[held[u]] = heap[held[u]]
<1>1. /\ heap' = [o \in Object |-> IF \E i \in gone : OpenedFiles[i].file = o
                                   THEN Deleted ELSE heap[o]]
      /\ OpenedFiles' = [i \in Fd |-> IF i \in gone THEN NoEntry ELSE OpenedFiles[i]]
  BY DEF Close
<1>2. gone \subseteq Fd /\ \A i \in gone : Valid(i)
  BY DEF Mine, Valid
<1>3. NoEntry \in Entry /\ ~NoEntry.valid
  BY DEF NoEntry, Entry
<1>4. OpenedFiles' \in [Fd -> Entry] /\ heap' \in [Object -> File \cup {Deleted}]
  BY <1>1, <1>3 DEF TableInv, TypeOK
<1>5. ASSUME NEW i \in Fd
      PROVE  /\ Valid(i)' <=> Valid(i) /\ i \notin gone
             /\ ~Valid(i)' => OpenedFiles'[i] = NoEntry
             /\ Valid(i)' => OpenedFiles'[i] = OpenedFiles[i]
  <2>1. CASE i \in gone
    <3>1. OpenedFiles'[i] = NoEntry
      BY <1>1, <2>1
    <3>2. ~Valid(i)'
      BY <1>3, <3>1, Zenon DEF Valid
    <3> QED
      BY <2>1, <3>1, <3>2
  <2>2. CASE i \notin gone
    <3>1. OpenedFiles'[i] = OpenedFiles[i]
      BY <1>1, <2>2
    <3>2. Valid(i)' <=> Valid(i)
      BY <3>1, Zenon DEF Valid
    <3> QED
      BY <2>2, <3>1, <3>2 DEF TableInv, EntriesLive
  <2> QED
    BY <2>1, <2>2
<1>6. ASSUME NEW i \in Fd, Valid(i)'
      PROVE  heap'[OpenedFiles[i].file] = heap[OpenedFiles[i].file]
  <2>1. Valid(i) /\ i \notin gone
    BY <1>5, <1>6
  <2>2. \A j \in gone : OpenedFiles[j].file # OpenedFiles[i].file
    BY <1>2, <2>1 DEF TableInv, FilesDistinct
  <2>3. OpenedFiles[i].file \in Object
    BY <2>1 DEF TableInv, EntriesLive
  <2> QED
    BY <1>1, <2>2, <2>3
<1>7. \A o \in Object : Live(o)' => Live(o) /\ \A i \in gone : OpenedFiles[i].file # o
  BY <1>1 DEF Live
<1>8. \A u \in Thread : state[u] = "opening" => heap'[held[u]] = heap[held[u]]
  BY <1>1, <1>2 DEF TableInv, OpenersHold
<1> QED
  BY <1>4, <1>5, <1>6, <1>7, <1>8

LEMMA CloseKeeps ==
  ASSUME TableInv, NEW t \in Thread, state[t] = "user",
         NEW gone \in SUBSET Mine(OpenedFiles, t), Close(gone),
         NEW s \in {"user", "none"}, state' = [state EXCEPT ![t] = s],
         NEW R \in SUBSET {r \in returned[t] : r[1] \notin gone},
         returned' = [returned EXCEPT ![t] = R],
         NEW I \in SUBSET {r \in inherited[t] : \A i \in gone : OpenedFiles[i].ForkFileID # r[1]},
         inherited' = [inherited EXCEPT ![t] = I],
         s = "none" => gone = Mine(OpenedFiles, t) /\ R = {} /\ I = {},
         late' = IF s = "none" /\ (\E u \in Thread : child[u] = t) THEN late \cup {t} ELSE late,
         UNCHANGED <<held, child, robbed>>
  PROVE  TableInv'
<1>1. /\ OpenedFiles' \in [Fd -> Entry] /\ heap' \in [Object -> File \cup {Deleted}]
      /\ \A i \in Fd : Valid(i)' <=> Valid(i) /\ i \notin gone
      /\ \A i \in Fd : ~Valid(i)' => OpenedFiles'[i] = NoEntry
      /\ \A i \in Fd : Valid(i)' => /\ OpenedFiles'[i] = OpenedFiles[i]
                                    /\ heap'[OpenedFiles[i].file] = heap[OpenedFiles[i].file]
      /\ \A o \in Object : Live(o)' => Live(o) /\ \A i \in gone : OpenedFiles[i].file # o
      /\ \A u \in Thread : state[u] = "opening" => heap'[held[u]] = heap[held[u]]
  BY ClosedOnly
<1>2. /\ state[t] = "user" /\ state'[t] = s
      /\ \A u \in Thread : u # t => state'[u] = state[u]
  BY DEF TableInv, TypeOK
<1>3. /\ returned'[t] = R /\ inherited'[t] = I
      /\ \A u \in Thread : u # t => returned'[u] = returned[u] /\ inherited'[u] = inherited[u]
  BY DEF TableInv, TypeOK
<1>4. \A i \in gone : i \in Fd /\ Valid(i) /\ OpenedFiles[i].TID = t
  BY DEF Mine, Valid
<1>5. \A i \in Fd : Valid(i) /\ OpenedFiles[i].TID # t => Valid(i)'
  BY <1>1, <1>4
<1>6. TypeOK'
  <2>1. R \in SUBSET (Fd \X Object) /\ I \in SUBSET (Fd \X File)
    BY DEF TableInv, TypeOK
  <2>2. /\ returned' \in [Thread -> SUBSET (Fd \X Object)]
        /\ inherited' \in [Thread -> SUBSET (Fd \X File)]
    BY <2>1 DEF TableInv, TypeOK
  <2>3. state' \in [Thread -> {"none", "user", "opening", "io", "forking"}]
    BY DEF TableInv, TypeOK
  <2>4. late' \in SUBSET Thread
    BY DEF TableInv, TypeOK
  <2> QED
    BY <1>1, <2>2, <2>3, <2>4 DEF TableInv, TypeOK
<1>17. /\ \A u \in Thread : u # t /\ Owner(u) => Owner(u)'
       /\ s = "user" => Owner(t)'
       /\ \A u \in Thread : child[u] = t => Owner(t)'
  BY <1>2 DEF Owner
<1>7. EntriesLive'
  <2>1. ASSUME NEW i \in Fd, Valid(i)'
        PROVE  /\ OpenedFiles'[i].file \in Object
               /\ heap'[OpenedFiles'[i].file] # Deleted
               /\ OpenedFiles'[i].TID \in Thread
               /\ Owner(OpenedFiles[i].TID)'
    <3>1. Valid(i) /\ i \notin gone /\ OpenedFiles'[i] = OpenedFiles[i]
      BY <1>1, <2>1
    <3>2. /\ OpenedFiles[i].file \in Object /\ Live(OpenedFiles[i].file)
          /\ OpenedFiles[i].TID \in Thread /\ Owner(OpenedFiles[i].TID)
      BY <3>1 DEF TableInv, EntriesLive
    <3>3. heap'[OpenedFiles[i].file] # Deleted
      BY <1>1, <2>1, <3>2 DEF Live
    <3>4. OpenedFiles[i].TID = t => s = "user"
      BY <3>1 DEF Mine, Valid
    <3>5. PICK u \in Thread : u = OpenedFiles[i].TID
      BY <3>2
    <3>6. Owner(u)'
      BY <1>17, <3>2, <3>4, <3>5
    <3>7. OpenedFiles'[i].TID = u
      BY <3>1, <3>5
    <3> QED
      BY <3>1, <3>2, <3>3, <3>6, <3>7 DEF Owner
  <2> QED
    BY <1>1, <2>1 DEF EntriesLive, Live
<1>8. FilesDistinct'
  BY <1>1 DEF TableInv, FilesDistinct
<1>10. OpenersHold'
  <2>1. \A u \in Thread : state'[u] = "opening" => state[u] = "opening"
    BY <1>2
  <2> QED
    BY <1>1, <2>1 DEF TableInv, OpenersHold, Live
<1>11. UsersHold'
  <2>1. ASSUME NEW u \in Thread, state'[u] = "io", u \notin robbed
        PROVE  \E i \in Fd : Valid(i)' /\ OpenedFiles'[i].TID = u /\ OpenedFiles'[i].file = held[u]
    <3>1. u # t /\ state[u] = "io"
      BY <1>2, <2>1
    <3>2. PICK i \in Fd : Valid(i) /\ OpenedFiles[i].TID = u /\ OpenedFiles[i].file = held[u]
      BY <2>1, <3>1 DEF TableInv, UsersHold
    <3> QED
      BY <1>1, <1>5, <3>1, <3>2
  <2> QED
    BY <2>1 DEF UsersHold
<1>12. ChildrenWait'
  <2>1. ASSUME NEW u \in Thread, child[u] \in Thread
        PROVE  Owner(child[u])'
    <3>1. Owner(child[u])
      BY <2>1 DEF TableInv, ChildrenWait
    <3>2. PICK v \in Thread : v = child[u] /\ v = child'[u]
      BY <2>1
    <3> QED
      BY <1>17, <3>1, <3>2 DEF Owner
  <2>2. \A u \in Thread : child[u] \in Thread <=> state'[u] = "forking"
    BY <1>2 DEF TableInv, ChildrenWait
  <2> QED
    BY <2>1, <2>2 DEF ChildrenWait
<1>14. ReturnedHold'
  <2>1. ASSUME NEW u \in Thread, NEW r \in returned'[u]
        PROVE  Valid(r[1])' /\ OpenedFiles'[r[1]].TID = u /\ OpenedFiles'[r[1]].file = r[2]
    <3>1. r \in returned[u] /\ r[1] \notin gone
      <4>1. CASE u = t
        BY <1>3, <2>1, <4>1
      <4>2. CASE u # t
        BY <1>3, <1>4, <2>1, <4>2 DEF TableInv, ReturnedHold
      <4> QED
        BY <4>1, <4>2
    <3>2. r[1] \in Fd /\ Valid(r[1]) /\ OpenedFiles[r[1]].TID = u /\ OpenedFiles[r[1]].file = r[2]
      BY <3>1 DEF TableInv, TypeOK, ReturnedHold
    <3> QED
      BY <1>1, <3>1, <3>2
  <2> QED
    BY <2>1 DEF ReturnedHold
<1>15. ObjectsPlaced'
  <2>1. ASSUME NEW o \in Object, Live(o)'
        PROVE  \/ \E i \in Fd : Valid(i)' /\ OpenedFiles'[i].file = o
               \/ \E u \in Thread : state'[u] = "opening" /\ held[u] = o
    <3>1. Live(o) /\ \A i \in gone : OpenedFiles[i].file # o
      BY <1>1, <2>1
    <3>2. CASE \E i \in Fd : Valid(i) /\ OpenedFiles[i].file = o
      BY <1>1, <3>1, <3>2
    <3>3. CASE \E u \in Thread : state[u] = "opening" /\ held[u] = o
      BY <1>2, <3>3
    <3> QED
      BY <3>1, <3>2, <3>3 DEF TableInv, ObjectsPlaced
  <2> QED
    BY <2>1 DEF ObjectsPlaced
<1>16. InheritedHold'
  <2>1. ASSUME NEW u \in Thread, NEW r \in inherited'[u]
        PROVE  \E i \in Fd : IsCopy(i, u, r)'
    <3>1. r \in inherited[u]
      BY <1>3, <2>1
    <3>2. PICK i \in Fd : IsCopy(i, u, r)
      BY <3>1 DEF TableInv, InheritedHold
    <3>3. i \notin gone
      BY <1>3, <1>4, <2>1, <3>2 DEF IsCopy
    <3>4. Valid(i)' /\ OpenedFiles'[i] = OpenedFiles[i] /\ heap'[OpenedFiles[i].file] = heap[OpenedFiles[i].file]
      BY <1>1, <3>2, <3>3 DEF IsCopy
    <3>5. IsCopy(i, u, r)'
      BY <3>2, <3>4 DEF IsCopy
    <3> QED
      BY <3>5
  <2> QED
    BY <2>1 DEF InheritedHold
<1> QED
  BY <1>6, <1>7, <1>8, <1>10, <1>11, <1>12, <1>14, <1>15, <1>16 DEF TableInv

LEMMA RemoveFileIsMine ==
  ASSUME NEW t \in Thread, NEW id \in Fd
  PROVE  RemoveFile(t, id) \in SUBSET Mine(OpenedFiles, t)
<1>1. Forked(t, id) \subseteq Nat /\ Forked(t, id) \subseteq Mine(OpenedFiles, t)
  BY Nothing DEF Forked, Mine
<1>2. Forked(t, id) # {} => Min(Forked(t, id)) \in Forked(t, id)
  BY <1>1, LeastIn
<1> QED
  BY <1>1, <1>2 DEF RemoveFile

LEMMA CloseHandlerKeeps ==
  ASSUME TableInv, NEW t \in Thread, NEW id \in Fd, CloseHandler(t, id)
  PROVE  TableInv'
<1>1. PICK gone : gone = RemoveFile(t, id)
  OBVIOUS
<1>2. gone \in SUBSET Mine(OpenedFiles, t)
  BY <1>1, RemoveFileIsMine
<1>3. /\ state[t] = "user" /\ Close(gone)
      /\ returned' = [returned EXCEPT ![t] = {r \in returned[t] : r[1] \notin gone}]
      /\ inherited' = [inherited EXCEPT ![t] =
           {r \in inherited[t] : \A i \in gone : OpenedFiles[i].ForkFileID # r[1]}]
      /\ UNCHANGED <<state, held, child, robbed, late>>
  BY <1>1 DEF CloseHandler, ReturnedBut, InheritedBut
<1>4. PICK R : R = {r \in returned[t] : r[1] \notin gone}
  OBVIOUS
<1>5. PICK I : I = {r \in inherited[t] : \A i \in gone : OpenedFiles[i].ForkFileID # r[1]}
  OBVIOUS
<1>6. state' = [state EXCEPT ![t] = "user"]
  BY <1>3 DEF TableInv, TypeOK
<1> QED
  BY <1>2, <1>3, <1>4, <1>5, <1>6, CloseKeeps

LEMMA ExitHandlerKeeps ==
  ASSUME TableInv, NEW t \in Thread, ExitHandler(t)
  PROVE  TableInv'
<1>1. PICK gone : gone = Mine(OpenedFiles, t)
  OBVIOUS
<1>2. /\ state[t] = "user" /\ Close(gone)
      /\ state' = [state EXCEPT ![t] = "none"]
      /\ returned' = [returned EXCEPT ![t] = {}]
      /\ inherited' = [inherited EXCEPT ![t] = {}]
      /\ late' = IF \E u \in Thread : child[u] = t THEN late \cup {t} ELSE late
      /\ UNCHANGED <<held, child, robbed>>
  BY <1>1 DEF ExitHandler, CloseAll
<1>3. /\ {} \in SUBSET {r \in returned[t] : r[1] \notin gone}
      /\ {} \in SUBSET {r \in inherited[t] : \A i \in gone : OpenedFiles[i].ForkFileID # r[1]}
  OBVIOUS
<1>4. gone \in SUBSET Mine(OpenedFiles, t)
  BY <1>1
<1> QED
  BY <1>1, <1>2, <1>3, <1>4, CloseKeeps, Zenon

\* GetFile: the TID of an entry stays or becomes the caller's; and the file it
\* finds is that of an entry that is the caller's afterwards.
LEMMA GetFileFinds ==
  ASSUME TableInv, NEW t \in Thread, NEW id \in Fd, NEW got, got = GetFile(t, id)
  PROVE  /\ got.tab \in [Fd -> Entry]
         /\ \A i \in Fd : /\ got.tab[i].valid = OpenedFiles[i].valid
                          /\ got.tab[i].file = OpenedFiles[i].file
                          /\ got.tab[i].ForkFileID = OpenedFiles[i].ForkFileID
                          /\ \/ got.tab[i].TID = OpenedFiles[i].TID
                             \/ Valid(i) /\ got.tab[i].TID = t
                          /\ ~Valid(i) => got.tab[i] = OpenedFiles[i]
         /\ got.file # NoObject =>
              \E k \in Fd : Valid(k) /\ got.tab[k].TID = t /\ got.file = OpenedFiles[k].file
<1>0. OpenedFiles \in [Fd -> Entry]
  BY DEF TableInv, TypeOK
<1>1. CASE id \in Mine(OpenedFiles, t)
  <2>1. got.tab = OpenedFiles /\ got.file = OpenedFiles[id].file
    BY <1>1 DEF GetFile
  <2>2. Valid(id) /\ OpenedFiles[id].TID = t
    BY <1>1 DEF Mine, Valid
  <2> QED
    BY <1>0, <2>1, <2>2
<1>2. CASE id \notin Mine(OpenedFiles, t)
  <2> DEFINE match  == {i \in Fd : OpenedFiles[i].valid /\ OpenedFiles[i].ForkFileID = id}
             last   == IF match = {} THEN MAX_FILE_NUMBER - 1 ELSE Min(match)
             After(i) == IF i <= last /\ OpenedFiles[i].valid
                         THEN [OpenedFiles[i] EXCEPT !.TID = t] ELSE OpenedFiles[i]
  <2>1. got = [file |-> IF match = {} THEN NoObject ELSE OpenedFiles[Min(match)].file,
               tab  |-> [i \in Fd |-> After(i)]]
    BY <1>2 DEF GetFile
  <2>2. /\ got.file = IF match = {} THEN NoObject ELSE OpenedFiles[Min(match)].file
        /\ got.tab = [i \in Fd |-> After(i)]
    <3> HIDE DEF match, After
    <3> QED
      BY <2>1
  <2>3. match \subseteq Fd /\ match \subseteq Nat /\ (match # {} => Min(match) \in match)
    <3>1. match \subseteq Fd /\ match \subseteq Nat
      BY Nothing
    <3> QED
      BY <3>1, LeastIn
  <2>4. match # {} => last = Min(match) /\ Min(match) \in Nat
    BY <2>3
  <2> HIDE DEF last
  <2>5. ASSUME NEW i \in Fd
        PROVE  /\ After(i) \in Entry
               /\ After(i).valid = OpenedFiles[i].valid /\ After(i).file = OpenedFiles[i].file
               /\ After(i).ForkFileID = OpenedFiles[i].ForkFileID
               /\ \/ After(i).TID = OpenedFiles[i].TID
                  \/ Valid(i) /\ After(i).TID = t
               /\ ~Valid(i) => After(i) = OpenedFiles[i]
               /\ i <= last /\ Valid(i) => After(i).TID = t
    <3>1. PICK e : e = OpenedFiles[i]
      OBVIOUS
    <3>2. e \in Entry
      BY <1>0, <3>1
    <3>3. CASE i <= last /\ Valid(i)
      <4>1. After(i) = [e EXCEPT !.TID = t]
        BY <3>1, <3>3 DEF Valid
      <4>2. PICK f : f = After(i)
        OBVIOUS
      <4>3. f \in Entry /\ f.valid = e.valid /\ f.file = e.file /\ f.TID = t /\ f.ForkFileID = e.ForkFileID
        BY <3>2, <4>1, <4>2 DEF Entry
      <4> HIDE DEF After
      <4> QED
        BY <3>1, <3>3, <4>2, <4>3
    <3>4. CASE ~(i <= last /\ Valid(i))
      <4>1. After(i) = e
        BY <3>1, <3>4 DEF Valid
      <4> HIDE DEF After
      <4> QED
        BY <3>1, <3>2, <3>4, <4>1
    <3> QED
      BY <3>3, <3>4
  <2>6. \A i \in Fd : got.tab[i] = After(i)
    <3> HIDE DEF After
    <3> QED
      BY <2>2
  <2>7. got.tab \in [Fd -> Entry]
    <3> HIDE DEF After
    <3> QED
      BY <2>2, <2>5
  <2>8. ASSUME got.file # NoObject
        PROVE  \E k \in Fd : Valid(k) /\ got.tab[k].TID = t /\ got.file = OpenedFiles[k].file
    <3>1. PICK k \in match : k = Min(match) /\ got.file = OpenedFiles[k].file
      BY <2>2, <2>3, <2>8
    <3>2. k \in Fd /\ Valid(k) /\ k <= last
      BY <2>3, <2>4, <3>1 DEF Valid
    <3> HIDE DEF After, match
    <3> QED
      BY <2>5, <2>6, <3>1, <3>2
  <2> HIDE DEF After
  <2> QED
    BY <2>5, <2>6, <2>7, <2>8
<1> QED
  BY <1>1, <1>2

LEMMA GetHandlerKeeps ==
  ASSUME TableInv, NEW t \in Thread, NEW id \in Fd, GetHandler(t, id)
  PROVE  TableInv'
<1>0. PICK got : got = GetFile(t, id)
  OBVIOUS
<1>1. /\ OpenedFiles' \in [Fd -> Entry]
      /\ \A i \in Fd : /\ OpenedFiles'[i].valid = OpenedFiles[i].valid
                       /\ OpenedFiles'[i].file = OpenedFiles[i].file
                       /\ OpenedFiles'[i].ForkFileID = OpenedFiles[i].ForkFileID
                       /\ \/ OpenedFiles'[i].TID = OpenedFiles[i].TID
                          \/ Valid(i) /\ OpenedFiles'[i].TID = t
                       /\ ~Valid(i) => OpenedFiles'[i] = OpenedFiles[i]
      /\ \E k \in Fd : Valid(k) /\ OpenedFiles'[k].TID = t /\ got.file = OpenedFiles[k].file
  BY <1>0, GetFileFinds DEF GetHandler
<1>2. /\ held' = [held EXCEPT ![t] = got.file]
      /\ state' = [state EXCEPT ![t] = "io"]
      /\ returned' = [u \in Thread |-> ReturnedBut(u, Taken(u, OpenedFiles'))]
      /\ inherited' = [u \in Thread |-> InheritedBut(u, Taken(u, OpenedFiles'))]
      /\ robbed' = robbed \cup {u \in Thread : state[u] = "io" /\
           \E i \in Taken(u, OpenedFiles') : OpenedFiles[i].file = held[u]}
      /\ UNCHANGED <<heap, child, late>>
      /\ state[t] = "user"
  BY <1>0 DEF GetHandler
<1>3. PICK k \in Fd : /\ Valid(k) /\ OpenedFiles'[k].TID = t /\ got.file = OpenedFiles[k].file
                      /\ OpenedFiles[k].file \in Object
  BY <1>1 DEF TableInv, EntriesLive
<1>4. /\ state'[t] = "io" /\ held'[t] = OpenedFiles[k].file
      /\ \A u \in Thread : u # t => state'[u] = state[u] /\ held'[u] = held[u]
  BY <1>2, <1>3 DEF TableInv, TypeOK
<1>5. \A i \in Fd : Valid(i)' <=> Valid(i)
  BY <1>1 DEF Valid
\* An entry of u that was not taken is u's still.
<1>6. ASSUME NEW u \in Thread, NEW i \in Fd, Valid(i), OpenedFiles[i].TID = u,
             i \notin Taken(u, OpenedFiles')
      PROVE  OpenedFiles'[i].TID = u
  BY <1>6 DEF Taken, Mine, Valid
<1>7. Owner(t)' /\ \A u \in Thread : Owner(u) => Owner(u)'
  BY <1>2, <1>4 DEF Owner
<1>8. /\ \A u \in Thread : \A r \in returned'[u] :
           r \in returned[u] /\ r[1] \notin Taken(u, OpenedFiles')
      /\ \A u \in Thread : \A r \in inherited'[u] :
           /\ r \in inherited[u]
           /\ \A i \in Taken(u, OpenedFiles') : OpenedFiles[i].ForkFileID # r[1]
  BY <1>2 DEF ReturnedBut, InheritedBut
<1>9. TypeOK'
  <2>1. /\ returned' \in [Thread -> SUBSET (Fd \X Object)]
        /\ inherited' \in [Thread -> SUBSET (Fd \X File)]
    <3>1. ASSUME NEW u \in Thread
          PROVE  returned'[u] \in SUBSET (Fd \X Object) /\ inherited'[u] \in SUBSET (Fd \X File)
      <4>1. returned[u] \in SUBSET (Fd \X Object) /\ inherited[u] \in SUBSET (Fd \X File)
        BY DEF TableInv, TypeOK
      <4> QED
        BY <1>8, <4>1
    <3>2. /\ returned' = [u \in Thread |-> returned'[u]]
          /\ inherited' = [u \in Thread |-> inherited'[u]]
      BY <1>2
    <3> QED
      BY <3>1, <3>2
  <2>2. held' \in [Thread -> Object \cup {NoObject}]
    BY <1>2, <1>3 DEF TableInv, TypeOK
  <2>3. state' \in [Thread -> {"none", "user", "opening", "io", "forking"}]
    BY <1>2 DEF TableInv, TypeOK
  <2>4. robbed' \in SUBSET Thread
    BY <1>2 DEF TableInv, TypeOK
  <2> QED
    BY <1>1, <1>2, <2>1, <2>2, <2>3, <2>4 DEF TableInv, TypeOK
<1>10. EntriesLive'
  <2>1. ASSUME NEW i \in Fd, Valid(i)
        PROVE  /\ OpenedFiles'[i].file \in Object /\ heap'[OpenedFiles'[i].file] # Deleted
               /\ OpenedFiles'[i].TID \in Thread /\ Owner(OpenedFiles[i].TID)'
    <3>1. /\ OpenedFiles[i].file \in Object /\ heap[OpenedFiles[i].file] # Deleted
          /\ OpenedFiles[i].TID \in Thread /\ Owner(OpenedFiles[i].TID)
      BY <2>1 DEF TableInv, EntriesLive, Live
    <3>2. PICK u \in Thread : u = OpenedFiles'[i].TID /\ Owner(u)'
      BY <1>1, <1>7, <3>1
    <3> QED
      BY <1>1, <1>2, <3>1, <3>2 DEF Owner
  <2>2. ASSUME NEW i \in Fd, ~Valid(i)
        PROVE  OpenedFiles'[i] = NoEntry
    BY <1>1, <2>2 DEF TableInv, EntriesLive
  <2> QED
    BY <1>5, <2>1, <2>2 DEF EntriesLive, Live
<1>11. FilesDistinct'
  BY <1>1, <1>5 DEF TableInv, FilesDistinct
<1>12. OpenersHold'
  <2>1. \A u \in Thread : state'[u] = "opening" => u # t /\ state[u] = "opening" /\ held'[u] = held[u]
    BY <1>4
  <2> QED
    BY <1>1, <1>2, <1>5, <2>1 DEF TableInv, OpenersHold, Live
<1>13. UsersHold'
  <2>1. ASSUME NEW u \in Thread, state'[u] = "io", u \notin robbed'
        PROVE  \E i \in Fd : Valid(i)' /\ OpenedFiles'[i].TID = u /\ OpenedFiles'[i].file = held'[u]
    <3>1. CASE u = t
      BY <1>1, <1>3, <1>4, <1>5, <3>1
    <3>2. CASE u # t
      <4>1. state[u] = "io" /\ u \notin robbed /\ held'[u] = held[u]
        BY <1>2, <1>4, <2>1, <3>2
      <4>2. PICK i \in Fd : Valid(i) /\ OpenedFiles[i].TID = u /\ OpenedFiles[i].file = held[u]
        BY <4>1 DEF TableInv, UsersHold
      <4>3. i \notin Taken(u, OpenedFiles')
        BY <1>2, <2>1, <4>1, <4>2
      <4> QED
        BY <1>1, <1>5, <1>6, <4>1, <4>2, <4>3
    <3> QED
      BY <3>1, <3>2
  <2> QED
    BY <2>1 DEF UsersHold
<1>14. ChildrenWait'
  BY <1>2, <1>4, <1>7 DEF TableInv, ChildrenWait
<1>15. ReturnedHold'
  <2>1. ASSUME NEW u \in Thread, NEW r \in returned'[u]
        PROVE  Valid(r[1])' /\ OpenedFiles'[r[1]].TID = u /\ OpenedFiles'[r[1]].file = r[2]
    <3>1. r \in returned[u] /\ r[1] \notin Taken(u, OpenedFiles')
      BY <1>8
    <3>2. r[1] \in Fd /\ Valid(r[1]) /\ OpenedFiles[r[1]].TID = u /\ OpenedFiles[r[1]].file = r[2]
      BY <3>1 DEF TableInv, TypeOK, ReturnedHold
    <3> QED
      BY <1>1, <1>5, <1>6, <3>1, <3>2
  <2> QED
    BY <2>1 DEF ReturnedHold
<1>16. ObjectsPlaced'
  <2>1. \A u \in Thread : state[u] = "opening" => state'[u] = "opening" /\ held'[u] = held[u]
    BY <1>2, <1>4
  <2>2. ASSUME NEW o \in Object, Live(o)
        PROVE  \/ \E i \in Fd : Valid(i)' /\ OpenedFiles'[i].file = o
               \/ \E u \in Thread : state'[u] = "opening" /\ held'[u] = o
    <3>1. CASE \E i \in Fd : Valid(i) /\ OpenedFiles[i].file = o
      BY <1>1, <1>5, <3>1
    <3>2. CASE \E u \in Thread : state[u] = "opening" /\ held[u] = o
      BY <2>1, <3>2
    <3> QED
      BY <2>2, <3>1, <3>2 DEF TableInv, ObjectsPlaced
  <2> QED
    BY <1>2, <2>2 DEF ObjectsPlaced, Live
<1>17. InheritedHold'
  <2>1. ASSUME NEW u \in Thread, NEW r \in inherited'[u]
        PROVE  \E i \in Fd : IsCopy(i, u, r)'
    <3>1. /\ r \in inherited[u]
          /\ \A i \in Taken(u, OpenedFiles') : OpenedFiles[i].ForkFileID # r[1]
      BY <1>8
    <3>2. PICK i \in Fd : IsCopy(i, u, r)
      BY <3>1 DEF TableInv, InheritedHold
    <3>3. Valid(i) /\ OpenedFiles[i].TID = u /\ OpenedFiles[i].ForkFileID = r[1]
      BY <3>2 DEF IsCopy
    <3>4. i \notin Taken(u, OpenedFiles')
      BY <3>1, <3>3
    <3>5. OpenedFiles'[i].TID = u
      BY <1>6, <3>3, <3>4
    <3>6. /\ OpenedFiles'[i].ForkFileID = r[1] /\ OpenedFiles'[i].file = OpenedFiles[i].file
          /\ Valid(i)'
      BY <1>1, <1>5, <3>3
    <3>7. IsCopy(i, u, r)'
      BY <1>2, <3>2, <3>5, <3>6 DEF IsCopy
    <3> QED
      BY <3>7
  <2> QED
    BY <2>1 DEF InheritedHold
<1> QED
  BY <1>9, <1>10, <1>11, <1>12, <1>13, <1>14, <1>15, <1>16, <1>17 DEF TableInv

LEMMA TransferHandlerKeeps ==
  ASSUME TableInv, NEW t \in Thread, TransferHandler(t)
  PROVE  TableInv'
<1>1. PICK o : o = held[t]
  OBVIOUS
<1>2. /\ state[t] = "io"
      /\ heap' = [heap EXCEPT ![o] = Moved(@)]
      /\ held' = [held EXCEPT ![t] = NoObject]
      /\ state' = [state EXCEPT ![t] = "user"]
      /\ robbed' = robbed \ {t}
      /\ UNCHANGED <<OpenedFiles, child, returned, inherited, late>>
  BY <1>1 DEF TransferHandler
\* An object stays deleted, or is the same file, not before its position.
<1>4. ASSUME NEW p \in Object
      PROVE  /\ heap[p] = Deleted => heap'[p] = Deleted
             /\ heap[p] \in File => /\ heap'[p] \in File /\ heap'[p].name = heap[p].name
                                    /\ heap'[p].pos >= heap[p].pos
  <2>1. PICK f : f = heap[p]
    OBVIOUS
  <2>2. CASE p = o
    <3>0. heap'[p] = Moved(f)
      BY <1>2, <2>1, <2>2 DEF TableInv, TypeOK
    <3>1. heap'[p] = IF f = Deleted \/ f.pos = MaxPos THEN f ELSE [f EXCEPT !.pos = f.pos + 1]
      BY <3>0 DEF Moved
    <3>2. CASE f \in File
      <4>1. PICK g : g = heap'[p]
        OBVIOUS
      <4>2. f.pos \in 0..MaxPos /\ f.name \in Name
        BY <3>2 DEF File
      <4>3. CASE f.pos = MaxPos
        <5>1. g = f
          BY <3>1, <4>1, <4>3
        <5>2. g.pos >= f.pos
          BY <4>2, <5>1
        <5> QED
          BY <2>1, <3>2, <4>1, <5>1, <5>2, Nothing
      <4>4. CASE f.pos # MaxPos
        <5>1. g = [f EXCEPT !.pos = f.pos + 1]
          BY <3>1, <3>2, <4>1, <4>4, Nothing
        <5>2. f.pos + 1 \in 0..MaxPos /\ f.pos + 1 >= f.pos
          BY <4>2, <4>4, OpenFileTableAssumption
        <5>3. g \in File /\ g.name = f.name /\ g.pos = f.pos + 1
          BY <3>2, <5>1, <5>2 DEF File
        <5> QED
          BY <2>1, <3>2, <4>1, <5>2, <5>3, Nothing
      <4> QED
        BY <4>3, <4>4
    <3>3. CASE f \notin File
      BY <2>1, <3>1, <3>3
    <3> QED
      BY <3>2, <3>3
  <2>3. CASE p # o
    <3>1. heap'[p] = f
      BY <1>2, <2>1, <2>3 DEF TableInv, TypeOK
    <3>2. f \in File => f.pos >= f.pos
      BY DEF File
    <3> QED
      BY <2>1, <3>1, <3>2
  <2> QED
    BY <2>2, <2>3
<1>6. /\ state'[t] = "user"
      /\ \A u \in Thread : u # t => state'[u] = state[u] /\ held'[u] = held[u]
  BY <1>2 DEF TableInv, TypeOK
<1>7. \A p \in Object : Live(p)' <=> Live(p)
  BY <1>4, Nothing DEF Live, TableInv, TypeOK
<1>8. TypeOK'
  <2>1. heap' \in [Object -> File \cup {Deleted}]
    <3>1. heap' = [p \in Object |-> heap'[p]]
      BY <1>2 DEF TableInv, TypeOK
    <3>2. \A p \in Object : heap'[p] \in File \cup {Deleted}
      BY <1>4 DEF TableInv, TypeOK
    <3> QED
      BY <3>1, <3>2
  <2> QED
    BY <1>2, <2>1 DEF TableInv, TypeOK
<1>17. \A u \in Thread : Owner(u) => Owner(u)'
  BY <1>2, <1>6 DEF Owner
<1>9. EntriesLive'
  <2>1. ASSUME NEW i \in Fd, Valid(i)
        PROVE  heap'[OpenedFiles[i].file] # Deleted
    BY <1>7, <2>1 DEF TableInv, EntriesLive, Live
  <2> QED
    BY <1>2, <1>17, <2>1 DEF TableInv, EntriesLive, Live, Valid
<1>10. FilesDistinct' /\ ReturnedHold'
  BY <1>2 DEF TableInv, FilesDistinct, ReturnedHold, Valid
<1>11. OpenersHold'
  <2>1. \A u \in Thread : state'[u] = "opening" => u # t /\ state[u] = "opening" /\ held'[u] = held[u]
    BY <1>6
  <2>2. \A u \in Thread : state'[u] = "opening" => heap'[held[u]] # Deleted
    BY <1>7, <2>1 DEF TableInv, OpenersHold, Live
  <2> QED
    BY <1>2, <2>1, <2>2 DEF TableInv, OpenersHold, Live, Valid
<1>12. UsersHold'
  BY <1>2, <1>6 DEF TableInv, UsersHold, Valid
<1>13. ChildrenWait'
  BY <1>2, <1>6, <1>17 DEF TableInv, ChildrenWait
<1>15. ObjectsPlaced'
  <2>1. \A u \in Thread : state[u] = "opening" => state'[u] = "opening" /\ held'[u] = held[u]
    BY <1>2, <1>6
  <2>2. ASSUME NEW p \in Object, Live(p)'
        PROVE  \/ \E i \in Fd : Valid(i) /\ OpenedFiles[i].file = p
               \/ \E u \in Thread : state'[u] = "opening" /\ held'[u] = p
    BY <1>7, <2>1, <2>2 DEF TableInv, ObjectsPlaced
  <2> QED
    BY <1>2, <2>2 DEF ObjectsPlaced, Valid
<1>16. InheritedHold'
  <2>1. ASSUME NEW u \in Thread, NEW r \in inherited[u]
        PROVE  \E i \in Fd : IsCopy(i, u, r)'
    <3>1. PICK i \in Fd : IsCopy(i, u, r)
      BY DEF TableInv, InheritedHold
    <3>2. PICK p : p = OpenedFiles[i].file
      OBVIOUS
    <3>3. p \in Object /\ heap[p] \in File /\ r[2] \in File
      BY <3>1, <3>2 DEF TableInv, TypeOK, EntriesLive, Live, IsCopy
    <3>4. heap'[p].name = heap[p].name /\ heap'[p].pos >= heap[p].pos /\ heap'[p] \in File
      BY <1>4, <3>3
    <3>5. heap'[p].name = r[2].name /\ heap'[p].pos >= r[2].pos
      BY <3>1, <3>2, <3>3, <3>4 DEF IsCopy, File
    <3>6. IsCopy(i, u, r)'
      BY <1>2, <3>1, <3>2, <3>5 DEF IsCopy, Valid
    <3> QED
      BY <3>6
  <2> QED
    BY <1>2, <2>1 DEF InheritedHold
<1> QED
  BY <1>8, <1>9, <1>10, <1>11, <1>12, <1>13, <1>15, <1>16 DEF TableInv

LEMMA ForkKeeps ==
  ASSUME TableInv, NEW t \in Thread, NEW c \in Thread, Fork(t, c)
  PROVE  TableInv'
<1>1. /\ state[t] = "user" /\ state[c] = "none" /\ t # c
      /\ state' = [state EXCEPT ![t] = "forking", ![c] = "user"]
      /\ child' = [child EXCEPT ![t] = c]
      /\ late' = late \ {c}
      /\ UNCHANGED <<OpenedFiles, heap, held, returned, inherited, robbed>>
  BY DEF Fork
<1>2. /\ state'[t] = "forking" /\ state'[c] = "user"
      /\ \A u \in Thread : u # t /\ u # c => state'[u] = state[u]
      /\ child'[t] = c /\ \A u \in Thread : u # t => child'[u] = child[u]
  BY <1>1 DEF TableInv, TypeOK
<1>0. \A u \in Thread : /\ state[u] # "none" => state'[u] # "none"
                        /\ state'[u] = "none" => state[u] = "none"
                        /\ state'[u] = "opening" <=> state[u] = "opening"
                        /\ state'[u] = "io" <=> state[u] = "io"
                        /\ state'[u] = "forking" <=> state[u] = "forking" \/ u = t
                        /\ u # c /\ state[u] = "user" /\ u # t => state'[u] = "user"
  <2> TAKE u \in Thread
  <2>1. CASE u = t
    BY <1>1, <1>2, <2>1
  <2>2. CASE u = c
    BY <1>1, <1>2, <2>2
  <2>3. CASE u # t /\ u # c
    BY <1>2, <2>3
  <2> QED
    BY <2>1, <2>2, <2>3
<1>3. TypeOK'
  BY <1>1 DEF TableInv, TypeOK
<1>10. \A u \in Thread : Owner(u) => Owner(u)'
  BY <1>0, <1>1, <1>2 DEF Owner
<1>4. EntriesLive'
  BY <1>1, <1>10 DEF TableInv, EntriesLive, Live, Valid
<1>5. FilesDistinct' /\ ReturnedHold'
  BY <1>1 DEF TableInv, FilesDistinct, ReturnedHold, Valid
<1>6. InheritedHold'
  BY <1>1 DEF TableInv, InheritedHold, IsCopy, Valid
<1>7. OpenersHold' /\ UsersHold' /\ ObjectsPlaced'
  <2>1. OpenersHold'
    BY <1>0, <1>1 DEF TableInv, OpenersHold, Live, Valid
  <2>2. UsersHold'
    BY <1>0, <1>1 DEF TableInv, UsersHold, Valid
  <2>3. ObjectsPlaced'
    BY <1>0, <1>1 DEF TableInv, ObjectsPlaced, Live, Valid
  <2> QED
    BY <2>1, <2>2, <2>3
<1>9. ChildrenWait'
  <2>1. ASSUME NEW u \in Thread, child'[u] \in Thread
        PROVE  Owner(child[u])'
    <3>1. CASE u = t
      BY <1>2, <3>1 DEF Owner
    <3>2. CASE u # t
      <4>1. PICK v \in Thread : v = child[u] /\ v = child'[u]
        BY <1>2, <2>1, <3>2
      <4>2. Owner(v)'
        BY <1>10, <4>1 DEF TableInv, ChildrenWait
      <4> QED
        BY <4>1, <4>2 DEF Owner
    <3> QED
      BY <3>1, <3>2
  <2>2. \A u \in Thread : child'[u] \in Thread <=> state'[u] = "forking"
    <3>1. \A u \in Thread : child[u] \in Thread <=> state[u] = "forking"
      BY DEF TableInv, ChildrenWait
    <3> QED
      BY <1>0, <1>2, <3>1
  <2> QED
    BY <2>1, <2>2 DEF ChildrenWait
<1> QED
  BY <1>3, <1>4, <1>5, <1>6, <1>7, <1>9 DEF TableInv

-----------------------------------------------------------------------------
(***************************************************************************)
(* CopyFile pairs each entry of t with a vacant one and a free object of   *)
(* its own.                                                                *)
(***************************************************************************)
IsCopying(T, t) ==
  /\ \A x \in T : /\ x[1] \in Fd /\ Valid(x[1]) /\ OpenedFiles[x[1]].TID = t
                  /\ x[2] \in Fd /\ ~Valid(x[2])
                  /\ x[3] \in Object /\ heap[x[3]] = Deleted
  /\ \A x, y \in T : x[1] = y[1] \/ x[2] = y[2] \/ x[3] = y[3] => x = y
  /\ \A i \in Fd : Valid(i) /\ OpenedFiles[i].TID = t => \E x \in T : x[1] = i

\* The triples of CopyFile are such a pairing: there are enough vacant entries,
\* by its guard, and enough free objects.
LEMMA CopyingExists ==
  ASSUME TableInv, NEW t \in Thread, state[t] # "opening",
         Cardinality(Vacant(OpenedFiles)) >= Cardinality(Mine(OpenedFiles, t))
  PROVE  IsCopying({<<Nth(Mine(OpenedFiles, t), k), Nth(Vacant(OpenedFiles), k), Nth(FreeObjects, k)>>
                      : k \in 1..Cardinality(Mine(OpenedFiles, t))}, t)
<1> DEFINE open == Mine(OpenedFiles, t)
           vac  == Vacant(OpenedFiles)
           free == FreeObjects
           X(k) == <<Nth(open, k), Nth(vac, k), Nth(free, k)>>
           T    == {X(k) : k \in 1..Cardinality(open)}
<1>1. /\ open \subseteq Nat /\ vac \subseteq Nat /\ free \subseteq Nat
      /\ open \in SUBSET Fd /\ vac \in SUBSET Fd /\ free \in SUBSET Object
  BY Nothing DEF Mine, Vacant, FreeObjects
<1>2. IsFiniteSet(open) /\ IsFiniteSet(vac) /\ IsFiniteSet(free)
  BY <1>1, TableFinite, FS_Subset
<1>3. /\ Cardinality(open) \in Nat /\ Cardinality(vac) \in Nat /\ Cardinality(free) \in Nat
  BY <1>2, FS_CardinalityType
<1>4. /\ Cardinality(vac) >= Cardinality(open) /\ Cardinality(free) > Cardinality(vac)
  BY ObjectsSpare
<1>5. \A i \in Fd : i \in open <=> Valid(i) /\ OpenedFiles[i].TID = t
  BY DEF Mine, Valid
<1>6. \A i \in vac : i \in Fd /\ ~Valid(i)
  BY DEF Vacant, Valid
<1>7. \A o \in free : o \in Object /\ heap[o] = Deleted
  BY DEF FreeObjects
<1> HIDE DEF open, vac, free
<1>8. ASSUME NEW k \in 1..Cardinality(open)
      PROVE  k \in 1..Cardinality(vac) /\ k \in 1..Cardinality(free)
  BY <1>3, <1>4
<1>9. ASSUME NEW k \in 1..Cardinality(open)
      PROVE  Nth(open, k) \in open /\ Nth(vac, k) \in vac /\ Nth(free, k) \in free
  <2>1. Nth(open, k) \in open
    BY <1>1, <1>2, NthIn
  <2>2. Nth(vac, k) \in vac
    BY <1>1, <1>2, <1>8, NthIn
  <2>3. Nth(free, k) \in free
    BY <1>1, <1>2, <1>8, NthIn
  <2> QED
    BY <2>1, <2>2, <2>3
<1>10. ASSUME NEW k \in 1..Cardinality(open), NEW m \in 1..Cardinality(open),
              Nth(open, k) = Nth(open, m) \/ Nth(vac, k) = Nth(vac, m) \/ Nth(free, k) = Nth(free, m)
       PROVE  k = m
  <2>1. CASE Nth(open, k) = Nth(open, m)
    BY <1>1, <1>2, <2>1, NthDiffer
  <2>2. CASE Nth(vac, k) = Nth(vac, m)
    BY <1>1, <1>2, <1>8, <2>2, NthDiffer
  <2>3. CASE Nth(free, k) = Nth(free, m)
    BY <1>1, <1>2, <1>8, <2>3, NthDiffer
  <2> QED
    BY <1>10, <2>1, <2>2, <2>3
<1>11. \A k : X(k)[1] = Nth(open, k) /\ X(k)[2] = Nth(vac, k) /\ X(k)[3] = Nth(free, k)
  OBVIOUS
<1> HIDE DEF X
<1>12. ASSUME NEW x \in T
       PROVE  x[1] \in open /\ x[2] \in vac /\ x[3] \in free
  BY <1>9, <1>11
<1>13. ASSUME NEW x \in T, NEW y \in T, x[1] = y[1] \/ x[2] = y[2] \/ x[3] = y[3]
       PROVE  x = y
  <2>1. PICK k \in 1..Cardinality(open), m \in 1..Cardinality(open) : x = X(k) /\ y = X(m)
    OBVIOUS
  <2>2. k = m
    BY <1>10, <1>11, <1>13, <2>1
  <2> QED
    BY <2>1, <2>2
<1>14. ASSUME NEW i \in open
       PROVE  \E x \in T : x[1] = i
  <2>1. PICK k \in 1..Cardinality(open) : Nth(open, k) = i
    BY <1>1, <1>2, NthAll
  <2> QED
    BY <1>11, <2>1
<1>15. IsCopying(T, t)
  <2> HIDE DEF T
  <2>1. \A x \in T : /\ x[1] \in Fd /\ Valid(x[1]) /\ OpenedFiles[x[1]].TID = t
                     /\ x[2] \in Fd /\ ~Valid(x[2])
                     /\ x[3] \in Object /\ heap[x[3]] = Deleted
    BY <1>1, <1>5, <1>6, <1>7, <1>12
  <2>2. \A i \in Fd : Valid(i) /\ OpenedFiles[i].TID = t => \E x \in T : x[1] = i
    BY <1>5, <1>14
  <2> QED
    BY <1>13, <2>1, <2>2 DEF IsCopying
<1> QED
  BY <1>15 DEF T, X, open, vac, free

\* What CopyFile makes of the table and the objects.
LEMMA CopyFileCopies ==
  ASSUME TableInv, NEW t \in Thread, NEW c \in Thread, state[t] # "opening",
         Cardinality(Vacant(OpenedFiles)) >= Cardinality(Mine(OpenedFiles, t)),
         NEW H, NEW B, H = CopyFile(t, c).heap, B = CopyFile(t, c).tab
  PROVE  \E T :
           /\ IsCopying(T, t)
           /\ H \in [Object -> File \cup {Deleted}] /\ B \in [Fd -> Entry]
           /\ \A x \in T : /\ H[x[3]] = heap[OpenedFiles[x[1]].file]
                           /\ B[x[2]].valid /\ B[x[2]].file = x[3]
                           /\ B[x[2]].TID = c /\ B[x[2]].ForkFileID = x[1]
           /\ \A o \in Object : (\A x \in T : x[3] # o) => H[o] = heap[o]
           /\ \A j \in Fd : (\A x \in T : x[2] # j) => B[j] = OpenedFiles[j]
<1> DEFINE T == {<<Nth(Mine(OpenedFiles, t), k), Nth(Vacant(OpenedFiles), k), Nth(FreeObjects, k)>>
                   : k \in 1..Cardinality(Mine(OpenedFiles, t))}
           EntryOf(j)  == CHOOSE x \in T : x[2] = j
           ObjectOf(o) == CHOOSE x \in T : x[3] = o
           New(x) == [valid |-> TRUE, file |-> x[3], TID |-> c, ForkFileID |-> x[1]]
<1>1. IsCopying(T, t)
  BY CopyingExists
<1>2. /\ H = [o \in Object |-> IF \E x \in T : x[3] = o
                THEN heap[OpenedFiles[ObjectOf(o)[1]].file] ELSE heap[o]]
      /\ B = [j \in Fd |-> IF \E x \in T : x[2] = j
                THEN [valid |-> TRUE, file |-> EntryOf(j)[3], TID |-> c, ForkFileID |-> EntryOf(j)[1]]
                ELSE OpenedFiles[j]]
  BY DEF CopyFile, FreeObjects
<1>3. B = [j \in Fd |-> IF \E x \in T : x[2] = j THEN New(EntryOf(j)) ELSE OpenedFiles[j]]
  BY <1>2
<1> HIDE DEF T
<1>4. ASSUME NEW x \in T PROVE EntryOf(x[2]) = x /\ ObjectOf(x[3]) = x
  <2>1. \A y \in T : y[2] = x[2] \/ y[3] = x[3] => y = x
    BY <1>1 DEF IsCopying
  <2> QED
    BY <2>1
<1> HIDE DEF EntryOf, ObjectOf
<1>5. ASSUME NEW x \in T
      PROVE  /\ New(x) \in Entry /\ New(x).valid /\ New(x).file = x[3]
             /\ New(x).TID = c /\ New(x).ForkFileID = x[1]
  <2>1. x[1] \in Fd /\ x[3] \in Object
    BY <1>1 DEF IsCopying
  <2> QED
    BY <2>1 DEF Entry
<1> HIDE DEF New
<1>6. ASSUME NEW x \in T
      PROVE  H[x[3]] = heap[OpenedFiles[x[1]].file] /\ B[x[2]] = New(x)
  <2>1. x[2] \in Fd /\ x[3] \in Object
    BY <1>1 DEF IsCopying
  <2>2. H[x[3]] = heap[OpenedFiles[ObjectOf(x[3])[1]].file]
    BY <1>2, <2>1
  <2>3. B[x[2]] = New(EntryOf(x[2]))
    BY <1>3, <2>1
  <2> QED
    BY <1>4, <2>2, <2>3
<1>7. \A o \in Object : (\A x \in T : x[3] # o) => H[o] = heap[o]
  BY <1>2
<1>8. \A j \in Fd : (\A x \in T : x[2] # j) => B[j] = OpenedFiles[j]
  BY <1>3
<1>9. H \in [Object -> File \cup {Deleted}]
  <2>1. ASSUME NEW o \in Object PROVE H[o] \in File \cup {Deleted}
    <3>1. CASE \E x \in T : x[3] = o
      <4>1. PICK x \in T : x[3] = o
        BY <3>1
      <4>2. OpenedFiles[x[1]].file \in Object
        BY <1>1 DEF IsCopying, TableInv, EntriesLive
      <4> QED
        BY <1>6, <4>1, <4>2 DEF TableInv, TypeOK
    <3>2. CASE \A x \in T : x[3] # o
      BY <1>7, <3>2 DEF TableInv, TypeOK
    <3> QED
      BY <3>1, <3>2
  <2>2. H = [o \in Object |-> H[o]]
    BY <1>2
  <2> QED
    BY <2>1, <2>2
<1>10. B \in [Fd -> Entry]
  <2>1. ASSUME NEW j \in Fd PROVE B[j] \in Entry
    <3>1. CASE \E x \in T : x[2] = j
      BY <1>5, <1>6, <3>1
    <3>2. CASE \A x \in T : x[2] # j
      BY <1>8, <3>2 DEF TableInv, TypeOK
    <3> QED
      BY <3>1, <3>2
  <2>2. B = [j \in Fd |-> B[j]]
    BY <1>3
  <2> QED
    BY <2>1, <2>2
<1>11. \A x \in T : /\ H[x[3]] = heap[OpenedFiles[x[1]].file]
                    /\ B[x[2]].valid /\ B[x[2]].file = x[3]
                    /\ B[x[2]].TID = c /\ B[x[2]].ForkFileID = x[1]
  BY <1>5, <1>6
<1> QED
  BY <1>1, <1>7, <1>8, <1>9, <1>10, <1>11

LEMMA ForkHandlerKeeps ==
  ASSUME TableInv, NEW t \in Thread, ForkHandler(t)
  PROVE  TableInv'
<1>1. PICK c : c = child[t]
  OBVIOUS
<1>2. c \in Thread /\ Owner(c) /\ state[t] = "forking"
  BY <1>1 DEF ForkHandler, TableInv, ChildrenWait
<1>22. PICK pairs : pairs = IF state[c] = "none" THEN {}
          ELSE {<<i, heap[OpenedFiles[i].file]>> : i \in Mine(OpenedFiles, t)}
  OBVIOUS
<1>3. /\ OpenedFiles' = CopyFile(t, c).tab /\ heap' = CopyFile(t, c).heap
      /\ inherited' = [inherited EXCEPT ![c] = pairs]
      /\ child' = [child EXCEPT ![t] = NoTID]
      /\ state' = [state EXCEPT ![t] = "user"]
      /\ UNCHANGED <<held, returned, robbed, late>>
      /\ Cardinality(Vacant(OpenedFiles)) >= Cardinality(Mine(OpenedFiles, t))
  BY <1>1, <1>22 DEF ForkHandler
<1>4. PICK T :
        /\ IsCopying(T, t)
        /\ heap' \in [Object -> File \cup {Deleted}] /\ OpenedFiles' \in [Fd -> Entry]
        /\ \A x \in T : /\ heap'[x[3]] = heap[OpenedFiles[x[1]].file]
                        /\ OpenedFiles'[x[2]].valid /\ OpenedFiles'[x[2]].file = x[3]
                        /\ OpenedFiles'[x[2]].TID = c /\ OpenedFiles'[x[2]].ForkFileID = x[1]
        /\ \A o \in Object : (\A x \in T : x[3] # o) => heap'[o] = heap[o]
        /\ \A j \in Fd : (\A x \in T : x[2] # j) => OpenedFiles'[j] = OpenedFiles[j]
  <2>1. state[t] # "opening"
    BY <1>2
  <2>2. PICK H, B : H = CopyFile(t, c).heap /\ B = CopyFile(t, c).tab /\ H = heap' /\ B = OpenedFiles'
    BY <1>3, Zenon
  <2>3. \E T :
           /\ IsCopying(T, t)
           /\ H \in [Object -> File \cup {Deleted}] /\ B \in [Fd -> Entry]
           /\ \A x \in T : /\ H[x[3]] = heap[OpenedFiles[x[1]].file]
                           /\ B[x[2]].valid /\ B[x[2]].file = x[3]
                           /\ B[x[2]].TID = c /\ B[x[2]].ForkFileID = x[1]
           /\ \A o \in Object : (\A x \in T : x[3] # o) => H[o] = heap[o]
           /\ \A j \in Fd : (\A x \in T : x[2] # j) => B[j] = OpenedFiles[j]
    BY <1>2, <1>3, <2>1, <2>2, CopyFileCopies
  <2> QED
    BY <2>2, <2>3
<1>5. \A x \in T : /\ x[1] \in Fd /\ Valid(x[1]) /\ OpenedFiles[x[1]].TID = t
                   /\ x[2] \in Fd /\ ~Valid(x[2])
                   /\ x[3] \in Object /\ heap[x[3]] = Deleted
  BY <1>4 DEF IsCopying
<1>21. \A x, y \in T : x[1] = y[1] \/ x[2] = y[2] \/ x[3] = y[3] => x = y
  BY <1>4 DEF IsCopying
\* An entry that is valid afterwards was valid before, or is new.
<1>6. ASSUME NEW j \in Fd
      PROVE  \/ /\ \A x \in T : x[2] # j
                /\ OpenedFiles'[j] = OpenedFiles[j] /\ (Valid(j)' <=> Valid(j))
                /\ Valid(j) => /\ \A x \in T : x[3] # OpenedFiles[j].file
                               /\ heap'[OpenedFiles[j].file] = heap[OpenedFiles[j].file]
             \/ \E x \in T : /\ x[2] = j /\ ~Valid(j) /\ Valid(j)'
                             /\ OpenedFiles'[j].file = x[3] /\ OpenedFiles'[j].TID = c
                             /\ OpenedFiles'[j].ForkFileID = x[1]
  <2>1. CASE \E x \in T : x[2] = j
    BY <1>4, <1>5, <2>1 DEF Valid
  <2>2. CASE \A x \in T : x[2] # j
    <3>1. OpenedFiles'[j] = OpenedFiles[j]
      BY <1>4, <2>2
    <3>2. Valid(j)' <=> Valid(j)
      BY <3>1, Zenon DEF Valid
    <3>3. ASSUME Valid(j)
          PROVE  /\ \A x \in T : x[3] # OpenedFiles[j].file
                 /\ heap'[OpenedFiles[j].file] = heap[OpenedFiles[j].file]
      <4>1. OpenedFiles[j].file \in Object /\ heap[OpenedFiles[j].file] # Deleted
        BY <3>3 DEF TableInv, EntriesLive, Live
      <4> QED
        BY <1>4, <1>5, <4>1
    <3> QED
      BY <2>2, <3>1, <3>2, <3>3
  <2> QED
    BY <2>1, <2>2
<1>7. ASSUME NEW j \in Fd, Valid(j)
      PROVE  /\ Valid(j)' /\ OpenedFiles'[j] = OpenedFiles[j]
             /\ heap'[OpenedFiles[j].file] = heap[OpenedFiles[j].file]
  BY <1>6, <1>7
<1>8. /\ state'[t] = "user" /\ child'[t] = NoTID
      /\ \A u \in Thread : u # t => state'[u] = state[u] /\ child'[u] = child[u]
      /\ \A u \in Thread : u # c => inherited'[u] = inherited[u]
      /\ inherited'[c] = pairs
  BY <1>2, <1>3 DEF TableInv, TypeOK
<1>23. \A u \in Thread : Owner(u) => Owner(u)'
  BY <1>3, <1>8 DEF Owner
<1>9. \A i \in Mine(OpenedFiles, t) :
        i \in Fd /\ Valid(i) /\ OpenedFiles[i].TID = t /\ heap[OpenedFiles[i].file] \in File
  <2>1. \A i \in Mine(OpenedFiles, t) : i \in Fd /\ Valid(i) /\ OpenedFiles[i].TID = t
    BY DEF Mine, Valid
  <2> QED
    BY <2>1 DEF TableInv, TypeOK, EntriesLive, Live
<1>10. TypeOK'
  <2>1. pairs \in SUBSET (Fd \X File)
    BY <1>9, <1>22
  <2>2. inherited' \in [Thread -> SUBSET (Fd \X File)]
    BY <1>3, <2>1 DEF TableInv, TypeOK
  <2>3. /\ state' \in [Thread -> {"none", "user", "opening", "io", "forking"}]
        /\ child' \in [Thread -> Thread \cup {NoTID}]
    BY <1>3 DEF TableInv, TypeOK
  <2> QED
    BY <1>3, <1>4, <2>2, <2>3 DEF TableInv, TypeOK
<1>11. EntriesLive'
  <2>1. ASSUME NEW j \in Fd
        PROVE  /\ ~Valid(j)' => OpenedFiles'[j] = NoEntry
               /\ Valid(j)' => /\ OpenedFiles'[j].file \in Object
                               /\ heap'[OpenedFiles'[j].file] # Deleted
                               /\ OpenedFiles'[j].TID \in Thread
                               /\ Owner(OpenedFiles[j].TID)'
    <3>1. CASE Valid(j)
      <4>1. /\ OpenedFiles[j].file \in Object /\ heap[OpenedFiles[j].file] # Deleted
            /\ OpenedFiles[j].TID \in Thread /\ Owner(OpenedFiles[j].TID)
        BY <3>1 DEF TableInv, EntriesLive, Live
      <4>2. PICK u \in Thread : u = OpenedFiles[j].TID /\ Owner(u)'
        BY <1>23, <4>1
      <4> QED
        BY <1>7, <3>1, <4>1, <4>2 DEF Owner
    <3>2. CASE ~Valid(j) /\ ~Valid(j)'
      BY <1>6, <3>2 DEF TableInv, EntriesLive
    <3>3. CASE ~Valid(j) /\ Valid(j)'
      <4>1. PICK x \in T : x[2] = j /\ OpenedFiles'[j].file = x[3] /\ OpenedFiles'[j].TID = c
        BY <1>6, <3>3
      <4>2. heap'[x[3]] # Deleted
        BY <1>4, <1>5 DEF TableInv, EntriesLive, Live
      <4>3. Owner(c)'
        BY <1>2, <1>23
      <4> QED
        BY <1>2, <1>5, <3>3, <4>1, <4>2, <4>3 DEF Owner
    <3> QED
      BY <3>1, <3>2, <3>3
  <2> QED
    BY <2>1 DEF EntriesLive, Live
<1>12. FilesDistinct'
  <2>1. ASSUME NEW i \in Fd, NEW j \in Fd, Valid(i)', Valid(j)', i # j,
               OpenedFiles'[i].file = OpenedFiles'[j].file
        PROVE  FALSE
    <3>1. CASE Valid(i) /\ Valid(j)
      BY <1>7, <2>1, <3>1 DEF TableInv, FilesDistinct
    <3>2. CASE Valid(i) /\ ~Valid(j)
      BY <1>6, <2>1, <3>2
    <3>3. CASE ~Valid(i) /\ Valid(j)
      BY <1>6, <2>1, <3>3
    <3>4. CASE ~Valid(i) /\ ~Valid(j)
      <4>1. PICK x \in T : x[2] = i /\ OpenedFiles'[i].file = x[3]
        BY <1>6, <2>1, <3>4
      <4>2. PICK y \in T : y[2] = j /\ OpenedFiles'[j].file = y[3]
        BY <1>6, <2>1, <3>4
      <4>3. x = y
        BY <1>21, <2>1, <4>1, <4>2
      <4> QED
        BY <2>1, <4>1, <4>2, <4>3
    <3> QED
      BY <3>1, <3>2, <3>3, <3>4
  <2> QED
    BY <2>1 DEF FilesDistinct
<1>14. OpenersHold'
  <2>1. ASSUME NEW u \in Thread, state'[u] = "opening"
        PROVE  /\ state[u] = "opening" /\ held[u] \in Object /\ heap'[held[u]] # Deleted
               /\ \A i \in Fd : Valid(i)' => OpenedFiles'[i].file # held[u]
               /\ \A v \in Thread : state'[v] = "opening" /\ held[v] = held[u] => v = u
    <3>1. state[u] = "opening"
      BY <1>8, <2>1
    <3>2. /\ held[u] \in Object /\ heap[held[u]] # Deleted
          /\ \A i \in Fd : Valid(i) => OpenedFiles[i].file # held[u]
          /\ \A v \in Thread : state[v] = "opening" /\ held[v] = held[u] => v = u
      BY <3>1 DEF TableInv, OpenersHold, Live
    <3>3. \A x \in T : x[3] # held[u]
      BY <1>5, <3>2
    <3>4. heap'[held[u]] = heap[held[u]]
      BY <1>4, <3>2, <3>3
    <3>5. \A i \in Fd : Valid(i)' => OpenedFiles'[i].file # held[u]
      BY <1>6, <3>2, <3>3
    <3>6. \A v \in Thread : state'[v] = "opening" /\ held[v] = held[u] => v = u
      BY <1>8, <3>2
    <3> QED
      BY <3>1, <3>2, <3>4, <3>5, <3>6
  <2> QED
    BY <1>3, <2>1 DEF OpenersHold, Live
<1>15. UsersHold'
  <2>1. \A u \in Thread : state'[u] = "io" => state[u] = "io"
    BY <1>8
  <2> QED
    BY <1>3, <1>7, <2>1 DEF TableInv, UsersHold
<1>16. ChildrenWait'
  <2>1. ASSUME NEW u \in Thread, child'[u] \in Thread
        PROVE  Owner(child[u])'
    <3>1. u # t /\ child'[u] = child[u] /\ child[u] \in Thread
      BY <1>8, <2>1, Nothing
    <3>2. PICK v \in Thread : v = child[u] /\ v = child'[u]
      BY <3>1
    <3>3. Owner(v)'
      BY <1>23, <3>2 DEF TableInv, ChildrenWait
    <3> QED
      BY <3>2, <3>3 DEF Owner
  <2>2. \A u \in Thread : child'[u] \in Thread <=> state'[u] = "forking"
    BY <1>8, Nothing DEF TableInv, ChildrenWait
  <2> QED
    BY <2>1, <2>2 DEF ChildrenWait
<1>18. ReturnedHold'
  <2>1. ASSUME NEW u \in Thread, NEW r \in returned[u]
        PROVE  Valid(r[1])' /\ OpenedFiles'[r[1]].TID = u /\ OpenedFiles'[r[1]].file = r[2]
    <3>1. r[1] \in Fd /\ Valid(r[1]) /\ OpenedFiles[r[1]].TID = u /\ OpenedFiles[r[1]].file = r[2]
      BY DEF TableInv, TypeOK, ReturnedHold
    <3> QED
      BY <1>7, <3>1
  <2> QED
    BY <1>3, <2>1 DEF ReturnedHold
<1>19. ObjectsPlaced'
  <2>1. ASSUME NEW o \in Object, heap'[o] # Deleted
        PROVE  \/ \E i \in Fd : Valid(i)' /\ OpenedFiles'[i].file = o
               \/ \E u \in Thread : state'[u] = "opening" /\ held[u] = o
    <3>1. CASE \E x \in T : x[3] = o
      BY <1>4, <1>5, <3>1 DEF Valid
    <3>2. CASE \A x \in T : x[3] # o
      <4>1. Live(o)
        BY <1>4, <2>1, <3>2 DEF Live
      <4>2. CASE \E i \in Fd : Valid(i) /\ OpenedFiles[i].file = o
        BY <1>7, <4>2
      <4>3. CASE \E u \in Thread : state[u] = "opening" /\ held[u] = o
        BY <1>2, <1>8, <4>3
      <4> QED
        BY <4>1, <4>2, <4>3 DEF TableInv, ObjectsPlaced
    <3> QED
      BY <3>1, <3>2
  <2> QED
    BY <1>3, <2>1 DEF ObjectsPlaced, Live
<1>20. InheritedHold'
  <2>1. ASSUME NEW u \in Thread, NEW r \in inherited'[u]
        PROVE  \E i \in Fd : IsCopy(i, u, r)'
    <3>1. CASE u # c
      <4>1. PICK i \in Fd : IsCopy(i, u, r)
        BY <1>8, <2>1, <3>1 DEF TableInv, InheritedHold
      <4>2. IsCopy(i, u, r)'
        BY <1>7, <4>1 DEF IsCopy
      <4> QED
        BY <4>2
    <3>2. CASE u = c
      <4>1. PICK i \in Mine(OpenedFiles, t) : r = <<i, heap[OpenedFiles[i].file]>>
        BY <1>8, <1>22, <2>1, <3>2
      <4>2. PICK x \in T : x[1] = i
        BY <1>4, <1>9 DEF IsCopying
      <4>3. /\ OpenedFiles'[x[2]].valid /\ OpenedFiles'[x[2]].TID = u
            /\ OpenedFiles'[x[2]].ForkFileID = r[1] /\ heap'[OpenedFiles'[x[2]].file] = r[2]
        BY <1>4, <3>2, <4>1, <4>2
      <4>4. r[2].pos >= r[2].pos
        BY <1>9, <4>1 DEF File
      <4>5. IsCopy(x[2], u, r)'
        BY <4>3, <4>4 DEF IsCopy, Valid
      <4> QED
        BY <1>5, <4>5
    <3> QED
      BY <3>1, <3>2
  <2> QED
    BY <2>1 DEF InheritedHold
<1> QED
  BY <1>10, <1>11, <1>12, <1>14, <1>15, <1>16, <1>18, <1>19, <1>20 DEF TableInv
-----------------------------------------------------------------------------
LEMMA TableStep == TableInv /\ [Next]_vars => TableInv'
<1> SUFFICES ASSUME TableInv, [Next]_vars PROVE TableInv'
  OBVIOUS
<1>1. CASE UNCHANGED vars
  BY <1>1, TableStutters
<1>2. CASE Next
  <2>1. PICK t \in Thread :
          \/ \E name \in Name : Open(t, name)
          \/ OpenHandler(t)
          \/ \E id \in Fd : CloseHandler(t, id) \/ GetHandler(t, id)
          \/ TransferHandler(t)
          \/ \E c \in Thread : Fork(t, c)
          \/ ForkHandler(t) \/ ExitHandler(t)
    BY <1>2 DEF Next
  <2> QED
    BY <2>1, OpenKeeps, OpenHandlerKeeps, CloseHandlerKeeps, GetHandlerKeeps,
       TransferHandlerKeeps, ForkKeeps, ForkHandlerKeeps, ExitHandlerKeeps
<1> QED
  BY <1>1, <1>2

(***************************************************************************)
(* For any threads and any size of the table, an id that Open returned     *)
(* names the object it was returned for until its thread closes it or a    *)
(* GetFile takes its entry over; a pointer used outside tableLock is to a  *)
(* file of its thread that is live, unless the thread was robbed of it;    *)
(* and no two entries share an object.                                     *)
(***************************************************************************)
THEOREM OpenDescriptorsHold == Spec => []DescriptorsHold
<1>1. TableInv => DescriptorsHold
  BY TableInvImplies
<1> QED
  BY <1>1, TableStarts, TableStep, PTL DEF Spec

(***************************************************************************)
(* For any threads and any size of the table, every entry is that of a     *)
(* thread that lives or of a child that exited before its copies were      *)
(* made, every object is in the table or in the hands of its opener, and a *)
(* child has a copy of every file its parent had open, under the parent's  *)
(* id, until it closes it or a GetFile takes it over.                      *)
(***************************************************************************)
THEOREM NoFileIsOrphaned == Spec => []NothingOrphaned
<1>1. TableInv => NothingOrphaned
  BY TableInvImplies
<1> QED
  BY <1>1, TableStarts, TableStep, PTL DEF Spec

=============================================================================
