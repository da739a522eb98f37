-------------------------------- MODULE VrrpCtrl --------------------------------
(***************************************************************************)
(* The control fifo (vrrp_ctrl.c): what one read of the fifo makes of the  *)
(* words found in it.  The fifo holds the words of every command written   *)
(* since the last read; a newline is white space like any other, so the    *)
(* reader cannot tell where one command ends and the next one starts.      *)
(*                                                                         *)
(* A word is [k, n]: k is the keyword, "num" for a number (n is its value) *)
(* or "text" for anything else; an empty line adds no word.                *)
(***************************************************************************)
EXTENDS VrrpState

CTRL_CMD_NTOKEN == 3

\* mutant: a wider type
prio_max_wide == 65535

VRRP_PRIO_MAX == 255

Word(k) == [k |-> k, n |-> 0]
Num(n) == [k |-> "num", n |-> n]

RegBits == {"KEEP_GOING", "DUMP", "LOGOUT", "RELOAD"}

\* mutant: the last word is not counted
split_cmd_short(w, flushed) ==
  LET found == IF Len(w) < CTRL_CMD_NTOKEN THEN Len(w) ELSE CTRL_CMD_NTOKEN
  IN  {IF found = 0 THEN 0 ELSE found - 1}

\* The values split_cmd may return for the words w.  vrrp_ctrl_init does not
\* clear the array of word pointers, so until the first vrrp_ctrl_cmd_flush
\* the entries past the last word hold whatever malloc returned, and every
\* one that is not NULL is counted.
split_cmd(w, flushed) ==
  LET found == IF Len(w) < CTRL_CMD_NTOKEN THEN Len(w) ELSE CTRL_CMD_NTOKEN
  IN  IF flushed THEN {found} ELSE found..CTRL_CMD_NTOKEN

\* vrrp_ctrl_cmd follows a pointer past the last word: a command name when
\* the line was empty, the argument of a prio that has none.
Wild(w, nword) ==
  \/ w = <<>> /\ nword > 0
  \/ Len(w) = 1 /\ w[1].k = "prio" /\ nword = 2

\* The outcome of vrrp_ctrl_cmd for the words w, nword of them counted:
\* the event returned, the instance, the register.
vrrp_ctrl_cmd(c, v, reg, w, nword) ==
  LET Outcome(ev, x, r) == [ev |-> ev, v |-> x, reg |-> r]
      Invalid == Outcome("INVALID", v, reg)
      prio == w[2].n
  IN  IF nword = 0 \/ Wild(w, nword) THEN Invalid
      ELSE CASE w[1].k = "stop" ->
                  Outcome("CTRL_FIFO", v, (reg \cup {"RELOAD"}) \ {"KEEP_GOING"})
             [] w[1].k = "reload" ->
                  Outcome("CTRL_FIFO", v, reg \cup {"RELOAD"})
             [] w[1].k \in {"state", "status"} ->
                  Outcome("CTRL_FIFO", v, reg \cup {"DUMP"})
             [] w[1].k = "prio" ->
                  IF nword # 2 \/ w[2].k # "num" \/ prio > VRRP_PRIO_MAX
                  THEN Invalid
                  ELSE Outcome("CTRL_FIFO",
                         IF v.priority = prio THEN v
                         ELSE vrrp_adv_set_priority(c, [v EXCEPT !.priority = prio],
                                                    prio),
                         reg \cup {"RELOAD"})
             [] OTHER -> Invalid

================================================================================
