------------------------------- MODULE MCVrrpLan -------------------------------
(* Instances of VrrpLan for TLC: routers are numbered, and the number is also *)
(* the primary address. *)
EXTENDS VrrpLan

\* One of the two best routers preempts the others
MCConfigs ==
  [i \in Routers |->
     [version |-> RFC5798, vrid |-> 42, adv_int |-> 1, start_delay |-> 0,
      preempt |-> (i # 1), auth_type |-> NOAUTH, auth_data |-> <<>>, family |-> 4,
      addr |-> i, vips |-> <<9>>, mtu |-> 1500]]

\* The best two are equal: their addresses decide
MCPriorities == [i \in Routers |-> IF i = 3 THEN 100 ELSE 200]

================================================================================
