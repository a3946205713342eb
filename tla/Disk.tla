--------------------------------- MODULE Disk ----------------------------------
(***************************************************************************)
(* The disk of machine/disk.cc and how long its requests take: the head    *)
(* seeks from track to track, the sectors of a track rotate past it, and a *)
(* buffer keeps what has rotated past since the last seek.  One thread at  *)
(* a time is in a request (module SynchDisk), and waits for its end.       *)
(*                                                                         *)
(* Latencies depend on the clock only modulo a revolution of the disk, and *)
(* on the age of the track buffer only up to a revolution.                 *)
(***************************************************************************)
EXTENDS Interrupt

CONSTANTS
  SectorsPerTrack, NumTracks,
  RotationTime,    \* ticks for one sector to rotate past the head
  SeekTime         \* ticks to seek past one track

VARIABLES
  totalTicks,      \* Statistics::totalTicks, modulo a revolution
  active,          \* Disk::active
  lastSector,      \* Disk::lastSector
  bufferInit,      \* the sector under the head at Disk::bufferInit ...
  bufferAge,       \* ... and how long ago that was, at most a revolution
  buffered,        \* history: the request was served from the track buffer
  diskDone,        \* SynchDisk::semaphore (module SynchDisk)
  diskWaits        \* a thread is in ReadSector or WriteSector

diskVars == <<totalTicks, active, lastSector, bufferInit, bufferAge, buffered, diskDone, diskWaits>>

NumSectors == SectorsPerTrack * NumTracks
Revolution == SectorsPerTrack * RotationTime

DiskInit ==
  /\ totalTicks = 0 /\ active = FALSE
  /\ lastSector = 0 /\ bufferInit = 0 /\ bufferAge = 0
  /\ buffered = FALSE /\ diskDone = 0 /\ diskWaits = FALSE

\* What the clock does to the disk.
DiskElapse(n) ==
  /\ totalTicks' = (totalTicks + n) % Revolution
  /\ bufferAge' = IF bufferAge + n > Revolution THEN Revolution ELSE bufferAge + n
  /\ UNCHANGED <<active, lastSector, bufferInit, buffered, diskDone, diskWaits>>
-----------------------------------------------------------------------------
Track(s) == s \div SectorsPerTrack

\* TimeToSeek: the ticks to the new track ...
Seek(s) == SeekTime * IF Track(s) > Track(lastSector) THEN Track(s) - Track(lastSector)
                                                     ELSE Track(lastSector) - Track(s)

\* A wrong TimeToSeek: does not wait for the boundary of a sector.
NoRotation(s) == 0

\* ... and from there to the next boundary of a sector.
Rotation(s) == LET over == (totalTicks + Seek(s)) % RotationTime
               IN  IF over > 0 THEN RotationTime - over ELSE 0

ModuloDiff(to, from) ==
  (((to % SectorsPerTrack) - (from % SectorsPerTrack)) + SectorsPerTrack) % SectorsPerTrack

\* The sector over which the head is after the seek.
SectorAfter(s) == (totalTicks + Seek(s) + Rotation(s)) \div RotationTime

\* The track buffer applies: the sector has rotated past since bufferInit.
InTrackBuffer(s) ==
  /\ Seek(s) = 0
  /\ (bufferAge + Rotation(s)) \div RotationTime > ModuloDiff(s, bufferInit)

ComputeLatency(s, writing) ==
  IF ~writing /\ InTrackBuffer(s)
  THEN RotationTime
  ELSE Seek(s) + Rotation(s) + ModuloDiff(s, SectorAfter(s)) * RotationTime + RotationTime

UpdateLast(s) ==
  /\ IF Seek(s) # 0
     THEN /\ bufferInit' = SectorAfter(s) % SectorsPerTrack
          /\ bufferAge' = -(Seek(s) + Rotation(s))
     ELSE UNCHANGED <<bufferInit, bufferAge>>
  /\ lastSector' = s

\* ReadRequest and WriteRequest; the data moves at once (module SynchDisk).
Request(s, writing) ==
  /\ phase = "run" /\ ~diskWaits
  /\ pending' = Schedule(pending, "DiskInt", ComputeLatency(s, writing))
  /\ active' = TRUE
  /\ UpdateLast(s)
  /\ buffered' = (~writing /\ InTrackBuffer(s))
  /\ diskWaits' = TRUE
  /\ UNCHANGED <<phase, totalTicks, diskDone>>

ReadRequest(s)  == Request(s, FALSE)
WriteRequest(s) == Request(s, TRUE)

\* Disk::HandleInterrupt and SynchDisk::RequestDone.
DiskDone ==
  /\ Due("DiskInt")
  /\ pending' = SortedRemove(pending)
  /\ active' = FALSE
  /\ diskDone' = diskDone + 1
  /\ UNCHANGED <<totalTicks, lastSector, bufferInit, bufferAge, buffered, diskWaits>>

\* The P in ReadSector and WriteSector.
WaitDisk ==
  /\ phase = "run" /\ diskWaits /\ diskDone > 0
  /\ diskDone' = diskDone - 1
  /\ diskWaits' = FALSE
  /\ UNCHANGED <<intVars, totalTicks, active, lastSector, bufferInit, bufferAge, buffered>>

DiskStep ==
  \/ WaitDisk
  \/ \E s \in 0..(NumSectors - 1) : ReadRequest(s) \/ WriteRequest(s)

DiskBlocked == diskWaits /\ diskDone = 0
-----------------------------------------------------------------------------
DiskInts == SelectSeq(pending, LAMBDA x : x.type = "DiskInt")

(* The end of a request is when the sector has been under the head: just now,   *)
(* or, for one that the track buffer serves, at some time since the last seek.  *)
(* It is due once, and never at the moment of the request                       *)
(* (Disk::ComputeLatency, TimeToSeek, UpdateLast; the assertions that no other  *)
(* request is active and, in Interrupt::Schedule, that the delay is positive).  *)
SectorUnderHead ==
  /\ ~diskWaits => ~active
  /\ Len(DiskInts) = IF active THEN 1 ELSE 0
  /\ active =>
       LET left == Head(DiskInts).left
           end  == (totalTicks + left) % Revolution
       IN  IF buffered
           THEN bufferAge + left >= (ModuloDiff(lastSector, bufferInit) + 1) * RotationTime
           ELSE /\ end % RotationTime = 0
                /\ (end \div RotationTime) % SectorsPerTrack = (lastSector + 1) % SectorsPerTrack
================================================================================
