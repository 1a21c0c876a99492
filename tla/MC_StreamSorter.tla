---------------------------- MODULE MC_StreamSorter ----------------------------
(* Instances of StreamSorter for TLC.                                          *)
EXTENDS StreamSorter, TLC

CONSTANTS p1, p2

TwoInputs == {(p1 :> s @@ p2 :> t) : s \in {<<2>>, <<1, 3>>, <<2, 3>>}, t \in {<<1>>, <<2>>}}
===============================================================================
