------------------------------- MODULE VrrpSwitch -------------------------------
(***************************************************************************)
(* What the daemon promises its hook script (vrrp_switch.sh): the order in *)
(* which it is called.  "master" creates the macvlan interface that holds  *)
(* the virtual addresses, "backup" deletes it, "init" adjusts sysctls.     *)
(* The interface is never created twice and never left behind by an        *)
(* "init": a "master" is followed by a "backup" before anything else.      *)
(***************************************************************************)
EXTENDS Naturals, Sequences

VARIABLES
  calls,    \* the calls of the last iteration of the loop that made any
  turn      \* flipped by every such iteration, so that none goes unseen

Last(s) == IF s = <<>> THEN "none" ELSE s[Len(s)]

\* The calls that may come after a call.
After(call) ==
  CASE call = "none"   -> {"init"}
    [] call = "master" -> {"backup"}
    [] OTHER           -> {"init", "master"}

Init == calls = <<>> /\ turn = FALSE

\* An iteration that calls the script, once or more: the owner of the addresses
\* calls it with "init" and then "master" when it starts.
Iterate ==
  /\ calls' # <<>> /\ turn' = ~turn
  /\ calls'[1] \in After(Last(calls))
  /\ \A n \in 2..Len(calls') : calls'[n] \in After(calls'[n - 1])

Spec == Init /\ [][Iterate]_<<calls, turn>>

================================================================================
