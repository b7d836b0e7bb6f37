--------------------------- MODULE ModernOptions ---------------------------
(***************************************************************************)
(* The options of the three clients, by the way OptionParser takes them:   *)
(* what every client's parser adds to ModernOptionsParser (built without   *)
(* ENABLE_BLOCKING and UNSUPPORTED_CONNECTOR_OPTS).                        *)
(***************************************************************************)
ModernInts == {"close-sleep", "conn-max-frame-size"}

ModernStrings ==
    {"broker-url", "conn-urls", "user", "password", "sasl-mechanisms",
     "conn-sasl-enabled", "conn-ssl-certificate", "conn-ssl-private-key",
     "conn-ssl-password", "conn-ssl-trust-store", "client-log-level",
     "conn-reconnect", "conn-reconnect-interval", "conn-reconnect-limit",
     "conn-reconnect-timeout", "conn-reconnect-first", "conn-reconnect-increment",
     "conn-reconnect-doubling", "conn-heartbeat"}

ModernFlags ==
    {"conn-use-config-file", "conn-ssl-verify-peer", "conn-ssl-verify-peer-name",
     "trace-messages"}

ModernShort ==
    [b |-> "broker-url", u |-> "user", p |-> "password", c |-> "count", h |-> "help"]

Parser(name, ints, strings, flags, items) ==
    [name |-> name, ints |-> ModernInts \union {"count", "timeout"} \union ints,
     strings |-> ModernStrings \union strings, flags |-> ModernFlags \union flags,
     items |-> items, shorts |-> ModernShort]

(* "msg-priority" has a type the parser does not check.                     *)
SenderParser == Parser("sender", {},
    {"msg-content", "msg-correlation-id", "msg-reply-to", "msg-user-id", "msg-to",
     "msg-ttl", "msg-id", "msg-priority", "msg-content-type", "msg-durable",
     "msg-subject", "msg-content-from-file", "log-msgs", "duration", "duration-mode",
     "msg-group-id", "msg-group-seq", "msg-reply-to-group-id"},
    {},
    {"msg-property", "msg-content-list-item", "msg-content-map-item"})

ReceiverParser == Parser("receiver",
    {"action-size", "recv-credit-window", "recv-listen-port"},
    {"log-msgs", "action", "recv-selector", "duration", "duration-mode", "recv-listen",
     "durable-subscriber", "subscriber-unsubscribe", "durable-subscriber-prefix",
     "durable-subscriber-name", "shared-subscriber", "conn-clientid",
     "conn-clientid-prefix"},
    {"process-reply-to", "recv-browse", "recv-drain-after-credit-window"},
    {})

ConnectorParser == Parser("connector", {}, {"obj-ctrl"}, {}, {})
=============================================================================
