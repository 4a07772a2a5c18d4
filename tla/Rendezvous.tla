----------------------------- MODULE Rendezvous -----------------------------
(***************************************************************************)
(* What the start of a battle promises its players: nobody is in a battle  *)
(* before everybody has arrived at it, and nobody is called to the next    *)
(* one while somebody is still in this one.  Who has gone for good is not  *)
(* waited for.                                                             *)
(***************************************************************************)
CONSTANT Players

VARIABLE place

Init == place = [p \in Players |-> "lobby"]

Move(p, from, to) == place[p] = from /\ place' = [place EXCEPT ![p] = to]
Everyone(where) == \A p \in Players : place[p] \in where \cup {"gone"}

Call(p)   == Move(p, "lobby", "called") /\ Everyone({"lobby", "called", "arrived"})
Arrive(p) == Move(p, "called", "arrived")
Start(p)  == Everyone({"arrived", "fighting"})
             /\ (Move(p, "arrived", "fighting"))
End(p)    == Move(p, "fighting", "lobby") /\ Everyone({"fighting", "lobby"})
Leave(p)  == place[p] # "gone" /\ place' = [place EXCEPT ![p] = "gone"]

Next == \E p \in Players : Call(p) \/ Arrive(p) \/ Start(p) \/ End(p) \/ Leave(p)

Spec == Init /\ [][Next]_place
=============================================================================
