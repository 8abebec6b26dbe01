---------------------------- MODULE FrameBusFile ----------------------------
(***************************************************************************)
(* The life of one camera's bus file in /dev/shm: producer processes that  *)
(* create, write, re-check and unlink it, their pump and main threads      *)
(* racing at shutdown, crashes that unlink nothing, the dashboard's purge  *)
(* of dead buses and an operator's rm.  The seqlock inside the file is     *)
(* FrameShm; here a file is the inode it is in.                            *)
(***************************************************************************)
EXTENDS Naturals

CONSTANTS
  Producers,  \* producer processes, each launched once
  Recheck,    \* _RECHECK_EVERY
  MaxInodes   \* model bound: files that exist at once, unlinked ones included

ASSUME BusAssumption == Recheck \in Nat \ {0} /\ MaxInodes \in Nat

VARIABLES
  path,     \* the inode the path names, 0 when absent
  written,  \* inodes that hold a frame
  fresh,    \* inodes whose frame is younger than max_age_s
  life,     \* [producer -> "ready", "up", "closing", "unlinked" or "down"]
  pump,     \* [producer -> the pump thread's place in write()]
  map,      \* [producer -> inode its writer has mapped, 0 for _mm None]
  ino,      \* [producer -> _ino]
  writes    \* [producer -> _writes, modulo Recheck]

file == <<path, written, fresh>>
threads == <<life, pump, map, ino, writes>>
busVars == <<file, threads>>

Inodes == 1..MaxInodes
Alive(p) == life[p] \in {"up", "closing", "unlinked"}

-----------------------------------------------------------------------------
\* Mutant of Vanished: the file is never looked for again.
NeverVanished(p) == FALSE

\* Every Recheck-th write looks whether the path still exists.
Vanished(p) == writes'[p] = 0 /\ path = 0

\* pump(): a frame arrives and stop is not set.
Arrive(p) ==
  /\ life[p] = "up" /\ pump[p] = "idle"
  /\ pump' = [pump EXCEPT ![p] = "write"]
  /\ UNCHANGED <<file, life, map, ino, writes>>

Enter(p) ==
  /\ Alive(p) /\ pump[p] = "write"
  /\ writes' = [writes EXCEPT ![p] = (@ + 1) % Recheck]
  /\ map' = [map EXCEPT ![p] = IF Vanished(p) THEN 0 ELSE @]
  /\ pump' = [pump EXCEPT ![p] = IF map'[p] = 0 THEN "create" ELSE "copy"]
  /\ UNCHANGED <<file, life, ino>>

\* Inodes the file system still has: readers hold some more.
Held(readers) == {path} \cup readers \cup {map[p] : p \in Producers} \cup {ino[p] : p \in Producers}

\* O_CREAT opens the file that is there, and blanks its slots.
Create(p, readers) ==
  /\ Alive(p) /\ pump[p] = "create"
  /\ IF path # 0 THEN UNCHANGED path
     ELSE path' = CHOOSE i \in Inodes : i \notin Held(readers)
  /\ map' = [map EXCEPT ![p] = path']
  /\ ino' = [ino EXCEPT ![p] = path']
  /\ written' = written \ {path'}
  /\ pump' = [pump EXCEPT ![p] = "copy"]
  /\ fresh' = fresh \ ({path'} \ {path})
  /\ UNCHANGED <<life, writes>>

\* The frame goes into the mapping; a mapping closed meanwhile raises, which
\* the pump swallows.
Copy(p) ==
  /\ Alive(p) /\ pump[p] = "copy"
  /\ written' = written \cup ({map[p]} \ {0})
  /\ fresh' = fresh \cup ({map[p]} \ {0})
  /\ pump' = [pump EXCEPT ![p] = "idle"]
  /\ UNCHANGED <<path, life, map, ino, writes>>

Pump(p, readers) == Arrive(p) \/ Enter(p) \/ Create(p, readers) \/ Copy(p)

-----------------------------------------------------------------------------
\* The inode guard of unlink().
Owned(p) == IF path = ino[p] THEN path ELSE 0

Launch(p) ==
  /\ life[p] = "ready"
  /\ life' = [life EXCEPT ![p] = "up"]
  /\ UNCHANGED <<file, pump, map, ino, writes>>

\* unlink() on the main thread after SIGTERM: first close(), while the pump
\* may be past its look at stop ...
CloseBus(p) ==
  /\ life[p] = "up"
  /\ life' = [life EXCEPT ![p] = "closing"]
  /\ map' = [map EXCEPT ![p] = 0]
  /\ UNCHANGED <<file, pump, ino, writes>>

\* ... then the guarded os.unlink.
UnlinkBus(p) ==
  /\ life[p] = "closing"
  /\ life' = [life EXCEPT ![p] = "unlinked"]
  /\ path' = IF Owned(p) # 0 THEN 0 ELSE path
  /\ UNCHANGED <<written, fresh, pump, map, ino, writes>>

\* The pump sees stop and unlinks too.
PumpUnlink(p) ==
  /\ life[p] \in {"closing", "unlinked"} /\ pump[p] = "idle"
  /\ pump' = [pump EXCEPT ![p] = "gone"]
  /\ map' = [map EXCEPT ![p] = 0]
  /\ path' = IF Owned(p) # 0 THEN 0 ELSE path
  /\ UNCHANGED <<written, fresh, life, ino, writes>>

Gone(p) ==
  /\ life' = [life EXCEPT ![p] = "down"]
  /\ pump' = [pump EXCEPT ![p] = "gone"]
  /\ map' = [map EXCEPT ![p] = 0]
  /\ ino' = [ino EXCEPT ![p] = 0]
  /\ UNCHANGED <<file, writes>>

\* The process exits, and its daemon pump with it.
Exit(p) == life[p] = "unlinked" /\ Gone(p)

\* A crash or SIGKILL.
Kill(p) == Alive(p) /\ Gone(p)

Shutdown(p) == CloseBus(p) \/ UnlinkBus(p) \/ PumpUnlink(p) \/ Exit(p)

-----------------------------------------------------------------------------
\* A bus nobody writes grows old.
GrowOld ==
  /\ \E i \in fresh :
       /\ \A p \in Producers : map[p] # i
       /\ fresh' = fresh \ {i}
  /\ UNCHANGED <<path, written, threads>>

\* The path is unlinked by name, at any time: _purge_stale_frame_files judged
\* the bus dead a while ago, or an operator's rm.
Remove ==
  /\ path # 0 /\ path' = 0
  /\ UNCHANGED <<written, fresh, threads>>

BusInit ==
  /\ path = 0 /\ written = {} /\ fresh = {}
  /\ life = [p \in Producers |-> "ready"]
  /\ pump = [p \in Producers |-> "idle"]
  /\ map = [p \in Producers |-> 0]
  /\ ino = [p \in Producers |-> 0]
  /\ writes = [p \in Producers |-> 0]

\* What the dashboard's host sees to: no launch while another producer lives.
LaunchAlone(p) == Launch(p) /\ \A q \in Producers : ~Alive(q)

Tidy == GrowOld \/ Remove
Run(p) == Pump(p, {}) \/ Shutdown(p)

\* Two dashboards, or a restart by hand: producers overlap.  (HubSpec of HubPump
\* is one producer at a time.)
OverlapSpec ==
  /\ BusInit
  /\ [][Tidy \/ \E p \in Producers : Launch(p) \/ Run(p) \/ Kill(p)]_busVars

-----------------------------------------------------------------------------
\* The mapping of a writer is of the file _ino remembers, only a live process
\* has one, and a freshly opened file counts as never written.
BusTypeOK ==
  /\ path \in {0} \cup Inodes
  /\ written \subseteq Inodes /\ fresh \subseteq Inodes
  /\ \A p \in Producers : map[p] \in {0, ino[p]} /\ (ino[p] # 0 => Alive(p))

\* Whoever removes the file, a producer that goes on streaming publishes under
\* the path again and again: it never writes a nameless inode for ever.
BusReturns ==
  \A p \in Producers :
    <>[](life[p] = "up") => []<>(path # 0 /\ path = map[p])

-----------------------------------------------------------------------------
(* Expectations the code does not meet: under OverlapSpec TLC refutes both.   *)

\* unlink() "otherwise deletes the successor's live bus": the guard keeps one
\* producer's shutdown off the file another one is writing.
UnlinkSparesSuccessor ==
  [][\A p \in Producers : (life[p] = "closing" /\ life'[p] = "unlinked" /\ path' # path)
       => \A q \in Producers \ {p} : map[q] # path]_busVars

\* After a deliberate shutdown readers see the bus absent.
ShutdownLeavesNothing ==
  (\A p \in Producers : life[p] \in {"ready", "down"}) => path = 0
=============================================================================
