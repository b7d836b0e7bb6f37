---------------------------- MODULE MCConnector ----------------------------
(* Command lines for TLC.                                                   *)
EXTENDS Connector

(* No object, one, the link alone, all; already expired, never, below       *)
(* FOREVER, and two seconds.                                                *)
AllCommandLines ==
    [timeout : {Unset, -2, FOREVER, 1, 2},
     obj_ctrl : {Unset, {"SESSION"}, {"SENDER"}, Objects},
     conn_reconnect : ReconnectOptions, reconnect_tuned : BOOLEAN,
     conn_use_config_file : BOOLEAN]

(* For the counterexamples.                                                 *)
HoldingCommandLines ==
    [timeout : {2}, obj_ctrl : {Unset}, conn_reconnect : {Unset},
     reconnect_tuned : {FALSE}, conn_use_config_file : {FALSE}]
=============================================================================
