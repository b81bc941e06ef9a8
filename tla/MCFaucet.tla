------------------------------ MODULE MCFaucet ------------------------------
(* A wallet signed into on two devices, and one of the devices also into a *)
(* contract that takes no plain transfer.                                  *)
EXTENDS FaucetProps, TLC

CONSTANTS w1, w2, d1, d2

TwoPages == [owns |-> d1 :> {w1} @@ d2 :> {w1}, faults |-> 2]
TwoWallets == [owns |-> d1 :> {w1, w2} @@ d2 :> {}, faults |-> 1]

MCVisits == {TwoPages, TwoWallets}
=============================================================================
