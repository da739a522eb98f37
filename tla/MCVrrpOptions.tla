----------------------------- MODULE MCVrrpOptions -----------------------------
(* Instances of VrrpOptions for TLC: numbers at the edges of what is accepted. *)
EXTENDS VrrpOptions

Plain(S) == [n : S, tail : {FALSE}]
Junk == [n |-> 0, tail |-> TRUE]

VridsSet == Plain({0, 1, 255, 256}) \cup {Junk}
PriosSet == Plain({0, 255, 256}) \cup {Junk}
DelaysSet == Plain({0, 1, 4095, 4096})
RfcsSet == Plain({1, 2, 3, 4})
PasswordsSet == {[i \in 1..n |-> 99] : n \in {0, 8, 9}}

================================================================================
