------------------------------- MODULE FrameShm -------------------------------
(***************************************************************************)
(* The seqlock of the shared-memory frame bus: FrameShmWriter.write() of   *)
(* one producer and FrameShmReader.latest() of one consumer, interleaved   *)
(* at every access to the shared memory.  A frame is copied in two halves. *)
(* A restarted producer opens the file that is there and starts over.      *)
(***************************************************************************)
EXTENDS Naturals

CONSTANTS
  MaxFrames,   \* model bound on the frames written
  MaxRestarts, \* model bound on restarts of the producer
  Attempts     \* tries of one latest() call

ShmAssumption == Attempts \in Nat \ {0}

Slots == {0, 1}
Halves == {1, 2}
None == [ts |-> 0, halves |-> <<0, 0>>]

VARIABLES
  latest,    \* header: latest_slot
  slots,     \* [slot -> seq, capture_ts and the two halves of the frame]
  writer,    \* the writer's place, _latest and _seq
  frame,     \* capture_ts of the frame being written, or written last
  flipped,   \* history: newest frame latest_slot was flipped to
  reader,    \* the reader's place, slot, seq0, ts, halves copied, attempt
  floor,     \* history: flipped when the call read the header
  result,    \* what the last call returned
  restarts   \* history: how often the producer was restarted

memory == <<latest, slots>>
writing == <<writer, frame, flipped>>
reading == <<reader, floor, result>>
shmVars == <<memory, writing, reading, restarts>>

Blank == [seq |-> 0, ts |-> 0, halves |-> <<0, 0>>]
IdleReader == [at |-> "idle", slot |-> 0, seq |-> 0, ts |-> 0, halves |-> <<0, 0>>, attempt |-> 0]

-----------------------------------------------------------------------------
\* Mutant of BackSlot: the writer overwrites what the header points to.
FrontSlot == writer.latest

\* The slot readers are not sent to.
BackSlot == 1 - writer.latest

\* Mutant of Opened: the slot is not marked while it is overwritten.
OpenedNot(slot, seq) == slot

\* An odd seq: mid-write.
Opened(slot, seq) == [slot EXCEPT !.seq = seq, !.ts = 0]

\* An even seq: stable.
Closed(slot, seq, ts) == [slot EXCEPT !.seq = seq, !.ts = ts]

Flipped(slot) == slot

-----------------------------------------------------------------------------
Open ==
  /\ writer.at = "idle" /\ frame < MaxFrames
  /\ frame' = frame + 1
  /\ writer' = [writer EXCEPT !.at = "first", !.seq = @ + 1]
  /\ slots' = [slots EXCEPT ![BackSlot] = Opened(@, writer'.seq)]
  /\ UNCHANGED <<latest, flipped, reading, restarts>>

Copy(half) ==
  /\ writer.at = IF half = 1 THEN "first" ELSE "second"
  /\ writer' = [writer EXCEPT !.at = IF half = 1 THEN "second" ELSE "close"]
  /\ slots' = [slots EXCEPT ![BackSlot].halves[half] = frame]
  /\ UNCHANGED <<latest, frame, flipped, reading, restarts>>

Close ==
  /\ writer.at = "close"
  /\ writer' = [writer EXCEPT !.at = "flip", !.seq = @ + 1]
  /\ slots' = [slots EXCEPT ![BackSlot] = Closed(@, writer'.seq, frame)]
  /\ UNCHANGED <<latest, frame, flipped, reading, restarts>>

Flip ==
  /\ writer.at = "flip"
  /\ latest' = Flipped(BackSlot)
  /\ writer' = [writer EXCEPT !.at = "idle", !.latest = BackSlot]
  /\ flipped' = frame
  /\ UNCHANGED <<slots, frame, reading, restarts>>

\* The producer is killed anywhere in write() and a new one creates its bus:
\* O_CREAT finds the old file, and only the headers are written anew.
Restart ==
  /\ restarts < MaxRestarts
  /\ restarts' = restarts + 1
  /\ writer' = [at |-> "idle", latest |-> 0, seq |-> 0]
  /\ latest' = 0
  /\ slots' = [s \in Slots |-> [slots[s] EXCEPT !.seq = 0, !.ts = 0]]
  /\ flipped' = 0
  /\ UNCHANGED <<frame, reading>>

-----------------------------------------------------------------------------
Return(r) == result' = r /\ reader' = IdleReader

\* latest(): the header names a slot, and the call stays with it.
ReadHeader ==
  /\ reader.at = "idle"
  /\ reader' = [IdleReader EXCEPT !.at = "slot", !.slot = latest]
  /\ floor' = flipped
  /\ UNCHANGED <<memory, writing, result, restarts>>

\* One attempt: never written, mid-write, stale (an open slot has ts 0), or
\* worth copying.
ReadSlot ==
  /\ reader.at = "slot"
  /\ LET s == slots[reader.slot]
     IN  IF s.seq = 0 THEN Return(None)
         ELSE IF s.seq % 2 = 1
              THEN IF reader.attempt = Attempts - 1 THEN Return(None)
                   ELSE reader' = [reader EXCEPT !.attempt = @ + 1] /\ UNCHANGED result
         ELSE IF s.ts = 0 THEN Return(None)
         ELSE /\ reader' = [reader EXCEPT !.at = "first", !.seq = s.seq, !.ts = s.ts]
              /\ UNCHANGED result
  /\ UNCHANGED <<memory, writing, floor, restarts>>

ReadHalf(half) ==
  /\ reader.at = IF half = 1 THEN "first" ELSE "second"
  /\ reader' = [reader EXCEPT !.at = IF half = 1 THEN "second" ELSE "check",
                              !.halves[half] = slots[reader.slot].halves[half]]
  /\ UNCHANGED <<memory, writing, floor, result, restarts>>

\* The copy counts if the seq is what it was.
Check ==
  /\ reader.at = "check"
  /\ IF slots[reader.slot].seq = reader.seq
     THEN Return([ts |-> reader.ts, halves |-> reader.halves])
     ELSE IF reader.attempt = Attempts - 1 THEN Return(None)
     ELSE reader' = [reader EXCEPT !.at = "slot", !.attempt = @ + 1] /\ UNCHANGED result
  /\ UNCHANGED <<memory, writing, floor, restarts>>

ShmInit ==
  /\ latest = 0 /\ slots = [s \in Slots |-> Blank]
  /\ writer = [at |-> "idle", latest |-> 0, seq |-> 0]
  /\ frame = 0 /\ flipped = 0 /\ restarts = 0
  /\ reader = IdleReader /\ floor = 0 /\ result = None

Write == Open \/ Close \/ Flip \/ \E half \in Halves : Copy(half)
Read == ReadHeader \/ ReadSlot \/ Check \/ \E half \in Halves : ReadHalf(half)

ShmNext == Write \/ Read
ShmSpec == ShmInit /\ [][ShmNext]_shmVars
RestartSpec == ShmInit /\ [][Write \/ Read \/ Restart]_shmVars

-----------------------------------------------------------------------------
\* Only the slot the writer is in, never the one of the header, is odd.
ShmTypeOK ==
  /\ latest \in Slots /\ writer.latest \in Slots
  /\ writer.at \in {"idle", "first", "second", "close", "flip"}
  /\ reader.at \in {"idle", "slot", "first", "second", "check"}
  /\ reader.attempt \in 0..Attempts - 1
  /\ \A s \in Slots : slots[s].seq % 2 = 1 <=>
                        s # latest /\ writer.at \in {"first", "second", "close"}

\* No consumer ever gets half of one frame and half of another, or a frame
\* under the capture_ts of another.
NoTornFrame == result # None => result.halves = <<result.ts, result.ts>>

\* A call returns nothing older than what was published when it began, though
\* it stays with one slot while the writer goes on.
FreshAsCall ==
  [][reader.at = "check" /\ result' # result => result'.ts >= floor \/ result' = None]_shmVars

\* One buffer is always readable: a call misses only when the writer finished
\* a frame and opened the next one since the header was read.
MissMeansLapped ==
  [][reader.at # "idle" /\ reader'.at = "idle" /\ result' = None /\ floor > 0
       => frame >= floor + 2]_shmVars

\* What a call returns is whole ...
FrameInv == ShmTypeOK /\ NoTornFrame

\* ... and fresh, or the reader was lapped.
CallAnswers == FreshAsCall /\ MissMeansLapped
=============================================================================
