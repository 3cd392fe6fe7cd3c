---------------------------- MODULE PacketChannel ----------------------------
(***************************************************************************)
(* What Session::Send promises its callers, with no threads, no flag and   *)
(* no overlapped I/O: packets that were accepted leave for the socket in   *)
(* the order in which they were accepted, each at most once.  A failed     *)
(* WSASend may lose the packets at the front, never reorder or repeat any. *)
(***************************************************************************)
EXTENDS Naturals, Sequences

CONSTANT Packets

VARIABLES
  pending,  \* accepted packets that have not reached the socket, oldest first
  wire      \* packets the socket took, in order

chanVars == <<pending, wire>>

ChanInit ==
  /\ pending = <<>>
  /\ wire = <<>>

(* Send accepts a packet: it goes behind all the others. *)
Accept(p) ==
  /\ pending' = Append(pending, p)
  /\ UNCHANGED wire

(* The n oldest packets leave pending together, as one gathered WSASend. *)
LeavesPending(n) == pending' = SubSeq(pending, n + 1, Len(pending))

Transmit(n) ==
  /\ LeavesPending(n)
  /\ wire' = wire \o SubSeq(pending, 1, n)

Lose(n) ==
  /\ LeavesPending(n)
  /\ UNCHANGED wire

ChanNext ==
  \/ \E p \in Packets : Accept(p)
  \/ \E n \in 1..Len(pending) : Transmit(n) \/ Lose(n)

ChanSpec == ChanInit /\ [][ChanNext]_chanVars

=============================================================================
