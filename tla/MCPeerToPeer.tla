---------------------------- MODULE MCPeerToPeer ----------------------------
(* Command lines for TLC, for each of the two clients.                      *)
EXTENDS PeerToPeer

SenderLine(count, timeout, reconnect) ==
    [count |-> count, timeout |-> timeout, duration |-> Unset,
     duration_mode |-> Unset, conn_reconnect |-> reconnect,
     reconnect_tuned |-> FALSE, conn_use_config_file |-> FALSE]

Senders ==
    {SenderLine(1, -1, Unset), SenderLine(2, -1, Unset),
     SenderLine(2, -1, "false"), SenderLine(2, 1, Unset),
     [SenderLine(2, -1, Unset) EXCEPT !.reconnect_tuned = TRUE]}

Listener ==
    [count |-> 2, timeout |-> -1, duration |-> Unset, action |-> Unset,
     action_size |-> Unset, log_msgs |-> FALSE, process_reply_to |-> FALSE,
     browse |-> FALSE, recv_listen |-> "true", window |-> Unset, drain |-> FALSE,
     durable |-> FALSE, unsubscribe |-> FALSE, named |-> FALSE, topic |-> FALSE,
     conn_reconnect |-> Unset, reconnect_tuned |-> FALSE,
     conn_use_config_file |-> FALSE]

Listeners ==
    {[Listener EXCEPT !.count = c] : c \in {Unset, 1, 2}}
        \union {[Listener EXCEPT !.timeout = 1], [Listener EXCEPT !.action = "ack"]}
        \union {[Listener EXCEPT !.action = a, !.action_size = s] :
                   a \in {"reject", "release"}, s \in {Unset, 2}}
=============================================================================
