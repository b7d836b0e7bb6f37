--------------------------- MODULE ClientOptions ---------------------------
(***************************************************************************)
(* From the command line to the fields of a handler: the options run() of  *)
(* each client reads, with the default it uses for an option that is not   *)
(* set, and the connection options CommonHandler hands to Proton.          *)
(* A command line is a record of option values, Unset for an absent one.   *)
(***************************************************************************)
EXTENDS Integers

CONSTANT Unset

OptionOr(option, default) == IF option = Unset THEN default ELSE option

(* --conn-reconnect is lower-cased, and true when it is not given.           *)
ConnReconnect(cl) == OptionOr(cl.conn_reconnect, "true")

(* conn_reconnect_custom is set by any one of --conn-reconnect-interval,    *)
(* -limit, -timeout, -first, -increment and -doubling; the command line     *)
(* keeps the one bit that says whether one of them is given.                *)
ConnReconnectCustom(cl) == cl.reconnect_tuned

(* ModernOptionsParser::validate lets only true and false through.          *)
ReconnectOptions == {Unset, "true", "false"}

(* configure_reconnect: the options object built for a custom setting is    *)
(* never passed to conn_opts, so Proton reconnects in the first case only,  *)
(* and a connection made from the configuration file gets no conn_opts.     *)
ProtonReconnects(fields) ==
    /\ fields.conn_reconnect = "true"
    /\ ~fields.conn_reconnect_custom
    /\ ~fields.conn_use_config_file
=============================================================================
