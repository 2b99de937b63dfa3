------------------------------- MODULE LossyLog -------------------------------
(***************************************************************************)
(* What the monitoring pipeline promises to whoever reads the table of     *)
(* events: the table is an ordered excerpt of what was recorded.  Events   *)
(* are numbered in the order they were recorded; one may be refused when   *)
(* it is recorded, a block of the oldest pending ones may be lost, and a   *)
(* block of the oldest pending ones may reach the table, all at once.      *)
(***************************************************************************)
EXTENDS Naturals, Sequences

CONSTANTS MaxPending, MaxBlock

VARIABLES recorded, pending, log

Init == recorded = 0 /\ pending = <<>> /\ log = <<>>

Accept ==
  /\ Len(pending) < MaxPending
  /\ recorded' = recorded + 1
  /\ pending' = Append(pending, recorded + 1)
  /\ UNCHANGED log

Refuse == recorded' = recorded + 1 /\ UNCHANGED <<pending, log>>

Block(n) == SubSeq(pending, 1, n)
Rest(n)  == SubSeq(pending, n + 1, Len(pending))

Store(n) == pending' = Rest(n) /\ log' = log \o Block(n) /\ UNCHANGED recorded
Lose(n)  == pending' = Rest(n) /\ UNCHANGED <<recorded, log>>

Next ==
  \/ Accept \/ Refuse
  \/ \E n \in 1..MaxBlock : n <= Len(pending) /\ (Store(n) \/ Lose(n))

Spec == Init /\ [][Next]_<<recorded, pending, log>>
=============================================================================
