-------------------------------- MODULE Lease --------------------------------
(***************************************************************************)
(* What a connection pool promises: every connection slot is unborn, free, *)
(* leased to one client, or gone, and it only ever moves along              *)
(* unborn -> leased <-> free, or to gone.                                   *)
(***************************************************************************)
EXTENDS Integers

CONSTANTS Clients, MaxSize, Unborn, Free, Gone

Slots == 1..MaxSize

VARIABLE lease

TypeOK == lease \in [Slots -> Clients \cup {Unborn, Free, Gone}]

Init == lease = [s \in Slots |-> Unborn]

Move(s, from, to) == lease[s] = from /\ lease' = [lease EXCEPT ![s] = to]

Open(p, s)  == Move(s, Unborn, p)
Spoil(s)    == Move(s, Unborn, Gone)
Take(p, s)  == Move(s, Free, p)
Return(p, s) == Move(s, p, Free)
Drop(p, s)  == Move(s, p, Gone)

Next ==
  \E s \in Slots :
    \/ Spoil(s)
    \/ \E p \in Clients : Open(p, s) \/ Take(p, s) \/ Return(p, s) \/ Drop(p, s)

Spec == Init /\ [][Next]_lease
==============================================================================
