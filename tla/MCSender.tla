------------------------------ MODULE MCSender ------------------------------
(* Command lines for TLC.                                                   *)
EXTENDS Sender

(* Every combination of the defaults with the values where the code branches: *)
(* nothing to send, one or two messages; already expired, never, below       *)
(* FOREVER; an interval of zero, one and several ticks.                      *)
Pacing ==
    [count : {Unset, 0, 2}, timeout : {Unset, -2, FOREVER, 0, 2},
     duration : {Unset, 1, 3}, duration_mode : {Unset, "before-send"},
     conn_reconnect : {Unset}, reconnect_tuned : {FALSE},
     conn_use_config_file : {FALSE}]

(* Every way to set up the connection.                                       *)
Connecting ==
    [count : {2}, timeout : {Unset, 2}, duration : {1},
     duration_mode : {Unset}, conn_reconnect : ReconnectOptions,
     reconnect_tuned : BOOLEAN, conn_use_config_file : BOOLEAN]

AllCommandLines == Pacing \union Connecting

(* --conn-reconnect true together with one of the options that tune it.      *)
TunedCommandLines ==
    [count : {2}, timeout : {Unset}, duration : {Unset},
     duration_mode : {Unset}, conn_reconnect : {"true"},
     reconnect_tuned : {TRUE}, conn_use_config_file : {FALSE}]
=============================================================================
