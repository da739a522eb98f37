------------------------------ MODULE MCVrrpTimer ------------------------------
(* An instance of VrrpTimer for TLC: a second of six nanoseconds. *)
EXTENDS VrrpTimer

MCDelays == {<<0, 0>>, <<1, 0>>, <<2, 0>>, <<0, 1>>, <<0, 3>>, <<0, 4>>, <<0, 7>>}

================================================================================
