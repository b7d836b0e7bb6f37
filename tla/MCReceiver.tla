----------------------------- MODULE MCReceiver -----------------------------
(* Command lines for TLC: families of settings around the defaults.         *)
EXTENDS Receiver

Defaults ==
    [count |-> Unset, timeout |-> Unset, duration |-> Unset, action |-> Unset,
     action_size |-> Unset, log_msgs |-> FALSE, process_reply_to |-> FALSE,
     browse |-> FALSE, recv_listen |-> Unset, window |-> Unset, drain |-> FALSE,
     durable |-> FALSE, unsubscribe |-> FALSE, named |-> FALSE, topic |-> FALSE,
     conn_reconnect |-> Unset, reconnect_tuned |-> FALSE,
     conn_use_config_file |-> FALSE]

(* Counting and timing out, durable or not.                                 *)
Counting ==
    {[Defaults EXCEPT !.count = c, !.timeout = t, !.durable = d, !.window = w] :
        c \in {Unset, 1, 2}, t \in {Unset, -2, 0, 2}, d \in BOOLEAN,
        w \in {Unset, 0, 1}}

(* Batches, replies and drains.                                             *)
Handling ==
    {[Defaults EXCEPT !.count = 2, !.timeout = 1, !.action = "ack",
                      !.action_size = s, !.log_msgs = l,
                      !.process_reply_to = r, !.drain = d, !.window = 2] :
        s \in {Unset, 2}, l \in BOOLEAN, r \in BOOLEAN, d \in BOOLEAN}

(* The ways to set up the connection.                                       *)
Connecting ==
    {[Defaults EXCEPT !.count = 2, !.timeout = 1, !.duration = d,
                      !.conn_reconnect = r, !.reconnect_tuned = t,
                      !.conn_use_config_file = f] :
        d \in {Unset, 1}, r \in ReconnectOptions, t \in BOOLEAN, f \in BOOLEAN}

Unsubscribing ==
    {[Defaults EXCEPT !.timeout = 1, !.durable = d, !.unsubscribe = TRUE,
                      !.named = n, !.topic = t, !.recv_listen = r] :
        d \in BOOLEAN, n \in BOOLEAN, t \in BOOLEAN, r \in {Unset, "true"}}

(* Listening, and browsing with a needless --recv-listen.                   *)
Listening ==
    {[Defaults EXCEPT !.recv_listen = "true", !.count = 2, !.timeout = t,
                      !.browse = b, !.process_reply_to = r, !.drain = d,
                      !.window = 2, !.conn_reconnect = c] :
        t \in {Unset, -2, 2}, b \in BOOLEAN, r \in BOOLEAN, d \in BOOLEAN,
        c \in ReconnectOptions}

AllCommandLines ==
    Counting \union Handling \union Connecting \union Unsubscribing
             \union Listening

(* For the counterexamples.                                                 *)
TwoPeersCommandLines ==
    {[Defaults EXCEPT !.count = 2, !.recv_listen = "true"]}
ListeningReplyCommandLines ==
    {[Defaults EXCEPT !.recv_listen = "true", !.process_reply_to = TRUE]}
=============================================================================
