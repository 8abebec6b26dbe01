------------------------------- MODULE NalRelay -------------------------------
(***************************************************************************)
(* The bitstream relay of one camera: the tap thread pushes access units,  *)
(* an accept thread admits clients, and a sender thread per client hands   *)
(* its queue to the kernel.  A client starts at a keyframe, one that does  *)
(* not keep up is disconnected, and close() drops everybody.  Every access *)
(* unit counts 1 of the backlog; the steps are what happens between two    *)
(* acquisitions of a lock.                                                 *)
(***************************************************************************)
EXTENDS Naturals, Sequences, SequencesExt

CONSTANTS
  Clients,
  MaxBacklog,     \* _max_backlog
  MaxUnits        \* model bound on the access units pushed

ASSUME RelayAssumption == MaxBacklog \in Nat \ {0} /\ MaxUnits \in Nat

VARIABLES
  units,          \* access units pushed so far, numbered from 1
  keyframes,      \* those of them that are keyframes
  audience,       \* clients of push's snapshot it has not come to yet
  listed,         \* _clients
  conn,           \* [client -> "none", "open", "shut" or "closed"]
  sender,         \* [client -> "none", "header", "wait", "send" or "over"]
  pending,        \* [client -> c.pending]
  inHand,         \* [client -> the access unit popped and not sent yet, or none]
  received,       \* [client -> what the kernel took], a history variable
  begun,          \* clients with c.started
  dead,           \* clients with c.dead
  closing,        \* close(): "no", "flagged", "dropping" or "done"
  dropping        \* clients of close()'s snapshot it has not come to yet

tapVars == <<units, keyframes, audience>>
clientVars == <<pending, inHand, received, begun>>
closeVars == <<closing, dropping>>
relayVars == <<tapVars, listed, conn, sender, clientVars, dead, closeVars>>

Closed == closing # "no"

-----------------------------------------------------------------------------
\* push: without clients the access unit goes nowhere.
Push(key) ==
  /\ audience = {} /\ ~Closed /\ units < MaxUnits
  /\ units' = units + 1
  /\ keyframes' = IF key THEN keyframes \cup {units'} ELSE keyframes
  /\ audience' = listed
  /\ UNCHANGED <<listed, conn, sender, clientVars, dead, closeVars>>

\* Mutant of Begins: a client starts with whatever comes.
BeginsAnyhow(c) == TRUE
Begins(c) == c \in begun \/ units \in keyframes

\* Mutant of Overruns: the access unit is skipped, the client stays.
OverrunsNever(c) == FALSE
Overruns(c) == Len(pending[c]) + 1 > MaxBacklog

Shut(cs) == [c \in Clients |-> IF c \in cs /\ conn[c] = "open" THEN "shut" ELSE conn[c]]

\* push, for one client of the snapshot.
PushTo(c) ==
  /\ c \in audience
  /\ audience' = audience \ {c}
  /\ IF c \in dead \/ ~Begins(c)
     THEN UNCHANGED <<pending, begun, dead, conn>>
     ELSE /\ begun' = begun \cup {c}
          /\ pending' = [pending EXCEPT ![c] = Append(@, units)]
          /\ dead' = IF Overruns(c) THEN dead \cup {c} ELSE dead
          /\ conn' = IF Overruns(c) THEN Shut({c}) ELSE conn
  /\ UNCHANGED <<units, keyframes, listed, sender, inHand, received, closeVars>>

-----------------------------------------------------------------------------
\* _accept_loop, of a client that connected while there was a path to connect to;
\* accept() is not interrupted by close().
Accept(c) ==
  /\ conn[c] = "none"
  /\ conn' = [conn EXCEPT ![c] = "open"]
  /\ listed' = listed \cup {c}
  /\ sender' = [sender EXCEPT ![c] = "header"]
  /\ UNCHANGED <<tapVars, clientVars, dead, closeVars>>

HangUp(c) ==
  /\ conn[c] = "open"
  /\ conn' = Shut({c})
  /\ UNCHANGED <<tapVars, listed, sender, clientVars, dead, closeVars>>

\* _sender: the header fits the empty socket buffer.
SendHeader(c) ==
  /\ sender[c] = "header"
  /\ sender' = [sender EXCEPT ![c] = IF conn[c] = "open" THEN "wait" ELSE "over"]
  /\ UNCHANGED <<tapVars, listed, conn, clientVars, dead, closeVars>>

\* Mutant of Ends: a sender minds its own client only.
EndsDead(c) == c \in dead
Ends(c) == c \in dead \/ Closed

\* Mutant of Popped: the newest access unit goes first.
PoppedNewest(c) == Last(pending[c])
Popped(c) == Head(pending[c])

\* _sender, woken with its condition held.
Take(c) ==
  /\ sender[c] = "wait"
  /\ \/ /\ Ends(c)
        /\ sender' = [sender EXCEPT ![c] = "over"]
        /\ UNCHANGED <<pending, inHand>>
     \/ /\ ~Ends(c) /\ pending[c] # <<>>
        /\ sender' = [sender EXCEPT ![c] = "send"]
        /\ inHand' = [inHand EXCEPT ![c] = <<Popped(c)>>]
        /\ pending' = [pending EXCEPT ![c] = Tail(@)]
  /\ UNCHANGED <<tapVars, listed, conn, received, begun, dead, closeVars>>

\* sendall returns when the client has made room, which it need not do ever ...
Sent(c) ==
  /\ sender[c] = "send" /\ conn[c] = "open"
  /\ sender' = [sender EXCEPT ![c] = "wait"]
  /\ received' = [received EXCEPT ![c] = @ \o inHand[c]]
  /\ inHand' = [inHand EXCEPT ![c] = <<>>]
  /\ UNCHANGED <<tapVars, listed, conn, pending, begun, dead, closeVars>>

\* ... and raises when the connection is shut down.
SendFails(c) ==
  /\ sender[c] = "send" /\ conn[c] = "shut"
  /\ sender' = [sender EXCEPT ![c] = "over"]
  /\ UNCHANGED <<tapVars, listed, conn, clientVars, dead, closeVars>>

\* _sender's finally.
Leave(c) ==
  /\ sender[c] = "over" /\ conn[c] # "closed"
  /\ dead' = dead \cup {c}
  /\ conn' = [conn EXCEPT ![c] = "closed"]
  /\ listed' = listed \ {c}
  /\ UNCHANGED <<tapVars, sender, clientVars, closeVars>>

-----------------------------------------------------------------------------
\* close(): the flag and the server socket, the snapshot of the clients, each
\* of them, and the path.
Close ==
  /\ closing = "no" /\ closing' = "flagged"
  /\ UNCHANGED <<tapVars, listed, conn, sender, clientVars, dead, dropping>>

Gather ==
  /\ closing = "flagged" /\ closing' = "dropping"
  /\ dropping' = listed
  /\ UNCHANGED <<tapVars, listed, conn, sender, clientVars, dead>>

\* Mutant of Dropped: the connection is left to its sender.
DroppedQuietly(c) == conn
Dropped(c) == Shut({c})

DropClient(c) ==
  /\ c \in dropping
  /\ dropping' = dropping \ {c}
  /\ dead' = dead \cup {c}
  /\ conn' = Dropped(c)
  /\ UNCHANGED <<tapVars, listed, sender, clientVars, closing>>

Unlink ==
  /\ closing = "dropping" /\ dropping = {} /\ closing' = "done"
  /\ UNCHANGED <<tapVars, listed, conn, sender, clientVars, dead, dropping>>

RelayInit ==
  /\ units = 0 /\ keyframes = {} /\ audience = {} /\ listed = {}
  /\ conn = [c \in Clients |-> "none"] /\ sender = [c \in Clients |-> "none"]
  /\ pending = [c \in Clients |-> <<>>] /\ inHand = [c \in Clients |-> <<>>]
  /\ received = [c \in Clients |-> <<>>]
  /\ begun = {} /\ dead = {} /\ closing = "no" /\ dropping = {}

Tap == (\E key \in BOOLEAN : Push(key)) \/ \E c \in Clients : PushTo(c)
Serve(c) == SendHeader(c) \/ Take(c) \/ SendFails(c) \/ Leave(c)
Closer == Close \/ Gather \/ Unlink \/ \E c \in Clients : DropClient(c)

RelayNext == Tap \/ Closer \/ \E c \in Clients : Accept(c) \/ HangUp(c) \/ Serve(c) \/ Sent(c)

\* The threads run, but nothing makes a client read, connect or hang up, and
\* nobody has to call close().
RelayFairness ==
  /\ \A c \in Clients : WF_relayVars(Serve(c))
  /\ WF_relayVars(\E c \in Clients : PushTo(c))
  /\ WF_relayVars(Gather \/ Unlink \/ \E c \in Clients : DropClient(c))

RelaySpec == RelayInit /\ [][RelayNext]_relayVars /\ RelayFairness

-----------------------------------------------------------------------------
\* Everything that was queued for a client, until the sender left.
Stream(c) == received[c] \o inHand[c] \o pending[c]

\* A decoder can follow: a client is given consecutive access units from a
\* keyframe on.  Nothing is skipped, not even under overload.
NoGaps ==
  \A c \in Clients : Stream(c) # <<>> =>
    /\ Head(Stream(c)) \in keyframes
    /\ \A i \in DOMAIN Stream(c) : Stream(c)[i] = Head(Stream(c)) + i - 1

\* A client that is alive is at most the queue behind, whatever the others do:
\* when push is done with it, the newest access unit is in its stream.
NobodyLeftOut ==
  \A c \in begun \ (dead \cup audience) : Last(Stream(c)) = units

\* "slow consumers are disconnected": the memory of a client is bounded.
BacklogBounded ==
  \A c \in Clients :
    /\ Len(pending[c]) <= MaxBacklog + 1
    /\ Len(pending[c]) > MaxBacklog => c \in dead

RelayInv == NoGaps /\ NobodyLeftOut /\ BacklogBounded

\* "drop every client": whoever was disconnected for being slow, and everybody
\* after close(), is gone in the end, whether or not it reads and though it was
\* accepted while close() went through the list.
AllDropped ==
  \A c \in Clients :
    [](conn[c] # "none" /\ (c \in dead \/ Closed) => <>(conn[c] = "closed"))
=============================================================================
