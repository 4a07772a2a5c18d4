------------------------------- MODULE MCRelay ------------------------------
EXTENDS Relay
CONSTANTS a1, a2, b1, w1

(* a1 and a2 are behind the same address.                                  *)
SharedIp == [c \in Clients |-> IF c \in {a1, a2} THEN "A" ELSE IF c = b1 THEN "B" ELSE "W"]
=============================================================================
