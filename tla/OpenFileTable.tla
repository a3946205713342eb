----------------------------- MODULE OpenFileTable -----------------------------
(***************************************************************************)
(* The table of open files of filesys/filesys.cc and the file system calls *)
(* of userprog/exception.cc that use it.  One table serves all processes:  *)
(* an entry belongs to the thread whose TID it carries.  A call works on   *)
(* the table under tableLock; before and after it the others run.          *)
(***************************************************************************)
EXTENDS Integers, FiniteSets, FiniteSetsExt

CONSTANTS
  Thread, Name,
  MAX_FILE_NUMBER,
  MaxPos           \* bound on seekPosition: the length of every file

ASSUME OpenFileTableAssumption ==
  /\ MAX_FILE_NUMBER \in Nat /\ MAX_FILE_NUMBER > 2
  /\ MaxPos \in Nat
  /\ IsFiniteSet(Thread)
  /\ "NoTID" \notin Thread /\ "deleted" \notin Name   \* NoTID and Deleted, below

VARIABLES
  OpenedFiles,     \* the table; entries 0 and 1 are the console's
  heap,            \* heap[o]: the OpenFile object o, or Deleted
  state,           \* state[t]: what t is doing
  held,            \* held[t]: the object t has a pointer to outside the table
  child,           \* child[t]: whom t has forked and not yet copied the table to
  returned,        \* history: returned[t], the <<id, object>> pairs of its Opens
  inherited,       \* history: inherited[t], the <<id, file>> pairs CopyFile copied
                   \* for t; both without those t has closed, and those a GetFile of
                   \* another thread has taken over
  robbed,          \* history: the threads in a transfer whose entry was taken over
  late             \* history: the TIDs not in use since a child exited with them
                   \* before its parent had copied the table for it

vars == <<OpenedFiles, heap, state, held, child, returned, inherited, robbed, late>>
history == <<returned, inherited, robbed, late>>

Fd      == 2..(MAX_FILE_NUMBER - 1)
Object  == 1..(MAX_FILE_NUMBER - 2 + Cardinality(Thread))
NoTID   == "NoTID"
NoFd    == -1
NoObject == 0
Deleted == [name |-> "deleted", pos |-> 0]
NoEntry == [valid |-> FALSE, file |-> NoObject, TID |-> NoTID, ForkFileID |-> NoFd]

Mine(tab, t)   == {i \in Fd : tab[i].valid /\ tab[i].TID = t}
Vacant(tab)    == {i \in Fd : ~tab[i].valid}
Forked(t, id)  == {i \in Mine(OpenedFiles, t) : OpenedFiles[i].ForkFileID = id}
NewObject      == Min({o \in Object : heap[o] = Deleted})

Init ==
  /\ OpenedFiles = [i \in Fd |-> NoEntry]
  /\ heap = [o \in Object |-> Deleted]
  /\ \E t \in Thread : state = [u \in Thread |-> IF u = t THEN "user" ELSE "none"]
  /\ held = [t \in Thread |-> NoObject]
  /\ child = [t \in Thread |-> NoTID]
  /\ returned = [t \in Thread |-> {}]
  /\ inherited = [t \in Thread |-> {}]
  /\ robbed = {}
  /\ late = {}
-----------------------------------------------------------------------------
\* AddNewFile leaves ForkFileID as it finds it: -1.
AddNewFile(tab, o, t) ==
  [tab EXCEPT ![Min(Vacant(tab))] = [@ EXCEPT !.valid = TRUE, !.file = o, !.TID = t]]

\* OpenHandler up to AddNewFile, and from there on.  A full table is asserted
\* not to happen.
Open(t, name) ==
  /\ state[t] = "user"
  /\ heap' = [heap EXCEPT ![NewObject] = [name |-> name, pos |-> 0]]
  /\ held' = [held EXCEPT ![t] = NewObject]
  /\ state' = [state EXCEPT ![t] = "opening"]
  /\ UNCHANGED <<OpenedFiles, child, history>>

OpenHandler(t) ==
  LET id == Min(Vacant(OpenedFiles))
  IN  /\ state[t] = "opening" /\ Vacant(OpenedFiles) # {}
      /\ OpenedFiles' = AddNewFile(OpenedFiles, held[t], t)
      /\ returned' = [returned EXCEPT ![t] = @ \cup {<<id, held[t]>>}]
      /\ held' = [held EXCEPT ![t] = NoObject]
      /\ state' = [state EXCEPT ![t] = "user"]
      /\ UNCHANGED <<heap, child, inherited, robbed, late>>

\* The entries `gone' are closed: their files are deleted.
Close(gone) ==
  /\ heap' = [o \in Object |-> IF \E i \in gone : OpenedFiles[i].file = o
                               THEN Deleted ELSE heap[o]]
  /\ OpenedFiles' = [i \in Fd |-> IF i \in gone THEN NoEntry ELSE OpenedFiles[i]]

\* What is left to a thread without the entries `gone'.
ReturnedBut(t, gone)  == {r \in returned[t] : r[1] \notin gone}
InheritedBut(t, gone) ==
  {r \in inherited[t] : \A i \in gone : OpenedFiles[i].ForkFileID # r[1]}

\* A wrong RemoveFile, which does not ask whose entry it is.
RemoveAnyFile(t, id) ==
  IF OpenedFiles[id].valid THEN {id}
  ELSE IF Forked(t, id) # {} THEN {Min(Forked(t, id))} ELSE {}

\* The entry RemoveFile clears: the thread's own, or its copy of the id of its
\* parent's.
RemoveFile(t, id) ==
  IF id \in Mine(OpenedFiles, t) THEN {id}
  ELSE IF Forked(t, id) # {} THEN {Min(Forked(t, id))} ELSE {}

CloseHandler(t, id) ==
  LET gone == RemoveFile(t, id)
  IN  /\ state[t] = "user" /\ gone # {}
      /\ Close(gone)
      /\ returned' = [returned EXCEPT ![t] = ReturnedBut(t, gone)]
      /\ inherited' = [inherited EXCEPT ![t] = InheritedBut(t, gone)]
      /\ UNCHANGED <<state, held, child, robbed, late>>

\* GetFile: the thread's own entry; else a loop over the table, up to the copy of
\* the parent's id, whose test assigns the thread's TID to every valid entry it
\* passes.  [file |-> the object, tab |-> the table afterwards]
GetFile(t, id) ==
  LET match  == {i \in Fd : OpenedFiles[i].valid /\ OpenedFiles[i].ForkFileID = id}
      last   == IF match = {} THEN MAX_FILE_NUMBER - 1 ELSE Min(match)
      stolen == [i \in Fd |-> IF i <= last /\ OpenedFiles[i].valid
                              THEN [OpenedFiles[i] EXCEPT !.TID = t] ELSE OpenedFiles[i]]
  IN  IF id \in Mine(OpenedFiles, t)
      THEN [file |-> OpenedFiles[id].file, tab |-> OpenedFiles]
      ELSE [file |-> IF match = {} THEN NoObject ELSE OpenedFiles[Min(match)].file,
            tab  |-> stolen]

\* The entries of u that a lookup takes over: those that carry another TID in the
\* table `after' it.
Taken(u, after) == {i \in Mine(OpenedFiles, u) : after[i].TID # u}

\* ReadHandler and WriteHandler: the pointer is taken under the lock and used
\* after it.  That there is one is asserted.
GetHandler(t, id) ==
  LET got == GetFile(t, id)
  IN  /\ state[t] = "user" /\ got.file # NoObject
      /\ OpenedFiles' = got.tab
      /\ returned' = [u \in Thread |-> ReturnedBut(u, Taken(u, got.tab))]
      /\ inherited' = [u \in Thread |-> InheritedBut(u, Taken(u, got.tab))]
      /\ robbed' = robbed \cup {u \in Thread : state[u] = "io" /\
           \E i \in Taken(u, got.tab) : OpenedFiles[i].file = held[u]}
      /\ held' = [held EXCEPT ![t] = got.file]
      /\ state' = [state EXCEPT ![t] = "io"]
      /\ UNCHANGED <<heap, child, late>>

\* The transfer moves the position of the object.  An object that has been
\* deleted under it shows nothing of it, unless its memory is in use again: then
\* the position of the new object is moved.
Moved(file) == IF file = Deleted \/ file.pos = MaxPos THEN file ELSE [file EXCEPT !.pos = @ + 1]

TransferHandler(t) ==
  LET o == held[t]
  IN  /\ state[t] = "io"
      /\ heap' = [heap EXCEPT ![o] = Moved(@)]
      /\ held' = [held EXCEPT ![t] = NoObject]
      /\ state' = [state EXCEPT ![t] = "user"]
      /\ robbed' = robbed \ {t}
      /\ UNCHANGED <<OpenedFiles, child, returned, inherited, late>>
-----------------------------------------------------------------------------
\* ForkHandler: the child is started first, and the table copied afterwards.  In
\* between the child may run, and even exit.
Fork(t, c) ==
  /\ state[t] = "user" /\ state[c] = "none"
  /\ state' = [state EXCEPT ![t] = "forking", ![c] = "user"]
  /\ child' = [child EXCEPT ![t] = c]
  /\ late' = late \ {c}
  /\ UNCHANGED <<OpenedFiles, heap, held, returned, inherited, robbed>>

\* The i-th smallest of a set of numbers, from 1.
Nth(S, i) == CHOOSE x \in S : Cardinality({y \in S : y < x}) = i - 1

\* A wrong copy, which enters the parent's own objects for the child.
ShallowCopyFile(t, c) ==
  LET open == Mine(OpenedFiles, t)
      Pair(k) == <<Nth(open, k), Nth(Vacant(OpenedFiles), k)>>
      pairs   == {Pair(k) : k \in 1..Cardinality(open)}
      From(j) == CHOOSE i \in open : <<i, j>> \in pairs
      new     == {p[2] : p \in pairs}
  IN  [heap |-> heap,
       tab  |-> [j \in Fd |-> IF j \in new
                   THEN [valid |-> TRUE, file |-> OpenedFiles[From(j)].file, TID |-> c,
                         ForkFileID |-> From(j)]
                   ELSE OpenedFiles[j]]]

\* CopyFile: the k-th file of t is opened again, at its position, in the k-th
\* vacant entry.  (The new entries have another TID, so the loop does not come
\* upon them as files of t.)
CopyFile(t, c) ==
  LET open == Mine(OpenedFiles, t)
      free == {o \in Object : heap[o] = Deleted}
      triples == {<<Nth(open, k), Nth(Vacant(OpenedFiles), k), Nth(free, k)>>
                    : k \in 1..Cardinality(open)}
      EntryOf(j)  == CHOOSE x \in triples : x[2] = j
      ObjectOf(o) == CHOOSE x \in triples : x[3] = o
  IN  [heap |-> [o \in Object |-> IF \E x \in triples : x[3] = o
                   THEN heap[OpenedFiles[ObjectOf(o)[1]].file] ELSE heap[o]],
       tab  |-> [j \in Fd |-> IF \E x \in triples : x[2] = j
                   THEN [valid |-> TRUE, file |-> EntryOf(j)[3], TID |-> c,
                         ForkFileID |-> EntryOf(j)[1]]
                   ELSE OpenedFiles[j]]]

\* The rest of ForkHandler, whoever has the child's TID by then.  Too few vacant
\* entries are asserted not to happen.
ForkHandler(t) ==
  LET c    == child[t]
      copy == CopyFile(t, c)
  IN  /\ state[t] = "forking"
      /\ Cardinality(Vacant(OpenedFiles)) >= Cardinality(Mine(OpenedFiles, t))
      /\ OpenedFiles' = copy.tab
      /\ heap' = copy.heap
      /\ inherited' = [inherited EXCEPT ![c] = IF state[c] = "none" THEN {}
           ELSE {<<i, heap[OpenedFiles[i].file]>> : i \in Mine(OpenedFiles, t)}]
      /\ child' = [child EXCEPT ![t] = NoTID]
      /\ state' = [state EXCEPT ![t] = "user"]
      /\ UNCHANGED <<held, returned, robbed, late>>

CloseAll(t) == Close(Mine(OpenedFiles, t))

\* The end of ExitHandler: CloseAll, and Finish.
ExitHandler(t) ==
  /\ state[t] = "user"
  /\ CloseAll(t)
  /\ state' = [state EXCEPT ![t] = "none"]
  /\ returned' = [returned EXCEPT ![t] = {}]
  /\ inherited' = [inherited EXCEPT ![t] = {}]
  /\ late' = IF \E u \in Thread : child[u] = t THEN late \cup {t} ELSE late
  /\ UNCHANGED <<held, child, robbed>>

Next ==
  \E t \in Thread :
    \/ \E name \in Name : Open(t, name)
    \/ OpenHandler(t)
    \/ \E id \in Fd : CloseHandler(t, id) \/ GetHandler(t, id)
    \/ TransferHandler(t)
    \/ \E c \in Thread : Fork(t, c)
    \/ ForkHandler(t) \/ ExitHandler(t)

Spec == Init /\ [][Next]_vars
-----------------------------------------------------------------------------
(***************************************************************************)
(* What Open returned holds, whatever the others open, close, fork or      *)
(* exit: an id names the object it was returned for until its thread       *)
(* closes it or a GetFile takes its entry over; a pointer used outside     *)
(* tableLock is to an object that its thread has in the table, unless the  *)
(* thread was robbed of it; and no two entries share an object, or have    *)
(* one that was deleted.                                                   *)
(***************************************************************************)
DescriptorsHold ==
  /\ \A t \in Thread : \A r \in returned[t] :
       r[1] \in Mine(OpenedFiles, t) /\ OpenedFiles[r[1]].file = r[2]
  /\ \A t \in Thread : state[t] = "io" /\ t \notin robbed =>
       \E i \in Mine(OpenedFiles, t) : OpenedFiles[i].file = held[t]
  /\ \A i, j \in Fd \ Vacant(OpenedFiles) :
       /\ heap[OpenedFiles[i].file] # Deleted
       /\ i # j => OpenedFiles[i].file # OpenedFiles[j].file

(***************************************************************************)
(* Nobody's files are left in the table but by a child that exited before  *)
(* its copies were made: every entry is that of a thread that lives, or    *)
(* that was late.  No object is lost: each is in the table or in the hands *)
(* of its opener.  And a child that was copied to has, for each file its   *)
(* parent had open then, an entry under that id, until it closes it or a   *)
(* GetFile of another thread takes it over.                                *)
(***************************************************************************)
NothingOrphaned ==
  /\ \A i \in Fd \ Vacant(OpenedFiles) :
       state[OpenedFiles[i].TID] # "none" \/ OpenedFiles[i].TID \in late
  /\ \A o \in Object : heap[o] # Deleted =>
       \/ \E i \in Fd : OpenedFiles[i].valid /\ OpenedFiles[i].file = o
       \/ \E t \in Thread : state[t] = "opening" /\ held[t] = o
  /\ \A t \in Thread : \A r \in inherited[t] : \E i \in Forked(t, r[1]) :
       LET file == heap[OpenedFiles[i].file]
       IN  file.name = r[2].name /\ file.pos >= r[2].pos
===============================================================================
