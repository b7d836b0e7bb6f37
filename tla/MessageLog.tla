----------------------------- MODULE MessageLog -----------------------------
(***************************************************************************)
(* The messages a client prints with --log-msgs: a sender each one it has  *)
(* sent (SenderHandler::send), a receiver each one it is handed            *)
(* (ReceiverHandler::on_message).  Printing a message may throw, between   *)
(* the sending of a message and its being counted.                         *)
(***************************************************************************)
EXTENDS Formatting, PythonReader

CONSTANTS
    Composed,       \* messages a sender makes of its command line
    Received,       \* messages a receiver may be handed
    Decimals,       \* how the numbers of messages are printed
    MaxMessages     \* the messages a sender sends

ASSUME MaxMessagesAssumption == MaxMessages \in Nat
ASSUME DecimalsAssumption ==
    /\ Decimals \in [0..MaxMessages -> STRING]
    /\ \A i, j \in 0..MaxMessages : Decimals[i] = Decimals[j] => i = j

(* A message and its values, as Proton types them: a number is printed as   *)
(* one word (not a number or infinity, which Python does not read), a null  *)
(* as nothing, and a text is any.                                           *)
Words == {<<word>> : word \in RawWords}

IsScalar(v) ==
    /\ DOMAIN v = {"type", "text", "keys", "parts"}
    /\ v.text \in Seq(STRING)
    /\ v.type \in InteropNumbers => v.text \in Words
    /\ v.type = "BOOLEAN" => v.text \in {<<"true">>, <<"false">>}
    /\ v.type = "NULL" => v.text = <<>>

IsList(s) == Len(s) \in Nat /\ DOMAIN s = 1..Len(s)

IsValue(v) ==
    /\ IsScalar(v)
    /\ IsList(v.parts) /\ IsList(v.keys)
    /\ v.type = "MAP" => Len(v.keys) = Len(v.parts)
    /\ \A i \in DOMAIN v.parts : IsScalar(v.parts[i])
    /\ \A i \in DOMAIN v.keys : IsScalar(v.keys[i])

HeaderTexts(msg) ==
    {msg.reply_to, msg.subject, msg.content_type, msg.user, msg.to, msg.id.text,
     msg.correlation_id.text, msg.content_encoding, msg.group_id,
     msg.reply_to_group_id}

IsMessage(msg) ==
    /\ DOMAIN msg =
           {"delivery_count", "reply_to", "subject", "content_type", "user", "id",
            "correlation_id", "priority", "durable", "ttl", "first_acquirer", "to",
            "content_encoding", "expiry_time", "creation_time", "group_id",
            "group_sequence", "reply_to_group_id", "properties", "body"}
    /\ HeaderTexts(msg) \subseteq Seq(STRING)
    /\ {msg.delivery_count, msg.priority, msg.ttl, msg.expiry_time,
        msg.creation_time, msg.group_sequence} \subseteq Words
    /\ {msg.durable, msg.first_acquirer} \subseteq BOOLEAN
    /\ {msg.id.type, msg.correlation_id.type}
           \subseteq {"NULL", "STRING", "ULONG", "UUID", "BINARY"}
    /\ IsValue(msg.properties) /\ msg.properties.type = "MAP"
    /\ IsValue(msg.body)

ASSUME MessagesAssumption == \A msg \in Composed \union Received : IsMessage(msg)

(* What the items of a command line are cast to (SendingClient::nameVal).   *)
ASSUME ItemsAssumption ==
    \A msg \in Composed :
        /\ \A i \in DOMAIN msg.body.parts :
               msg.body.parts[i].type \in {"STRING", "LONG", "DOUBLE", "BOOLEAN"}
        /\ \A i \in DOMAIN msg.body.keys : msg.body.keys[i].type = "STRING"

VARIABLES
    role,           \* the client: "sender" or "receiver"
    log_msgs,       \* "dict", "interop", or no format
    m,              \* the sender's message, or the one a receiver is handed
    sent,           \* messages the sender has counted
    wire,           \* the messages it has handed to its link
    printed,        \* the message printed last, and its text
    status          \* "running", or how the process ended

vars == <<role, log_msgs, m, sent, wire, printed, status>>

Nothing == [message |-> <<>>, text |-> <<>>]

(* The first "%d" is replaced by the number of messages sent so far.        *)
Replaced(body, number) ==
    LET at == Find(body.text, <<"%d">>, 0)
    IN  [body EXCEPT !.text = Substr(@, 0, at) \o <<Decimals[number]>> \o From(@, at + 1)]

IsNumbered(body) == body.type = "STRING" /\ Has(body.text, "%d")

message_to_send ==
    IF IsNumbered(m.body) THEN [m EXCEPT !.body = Replaced(@, sent)] ELSE m

PrintThrows(msg) == log_msgs = "dict" /\ printMessageThrows(msg)

PrintOf(msg) ==
    CASE log_msgs = "dict"    -> [message |-> msg, text |-> printMessage(msg)]
      [] log_msgs = "interop" -> [message |-> msg, text |-> printMessageInterop(msg)]
      [] OTHER                -> Nothing
-----------------------------------------------------------------------------
Init ==
    /\ role \in {"sender", "receiver"}
    /\ log_msgs \in {"dict", "interop", "no"}
    /\ m \in IF role = "sender" THEN Composed ELSE Received
    /\ sent = 0
    /\ wire = <<>>
    /\ printed = Nothing
    /\ status = "running"

(* What the printer throws is dropped by the work queue when checkIfCanSend *)
(* has called, and makes run() return 1 when on_sendable has.               *)
send ==
    /\ role = "sender"
    /\ status = "running"
    /\ Len(wire) < MaxMessages
    /\ wire' = Append(wire, message_to_send)
    /\ \/ /\ PrintThrows(message_to_send)
          /\ status' \in {"running", "failure"}
          /\ UNCHANGED <<sent, printed>>
       \/ /\ ~PrintThrows(message_to_send)
          /\ printed' = PrintOf(message_to_send)
          /\ sent' = sent + 1
          /\ UNCHANGED status
    /\ UNCHANGED <<role, log_msgs, m>>

(* A receiver prints the message it is handed before it does anything else  *)
(* with it.  One message is enough: printing leaves nothing behind.         *)
on_message ==
    /\ role = "receiver"
    /\ status = "running"
    /\ printed = Nothing
    /\ IF PrintThrows(m)
       THEN status' = "failure" /\ UNCHANGED printed
       ELSE printed' = PrintOf(m) /\ UNCHANGED status
    /\ UNCHANGED <<role, log_msgs, m, sent, wire>>

(* Everything is sent or printed, or the process has ended.                 *)
Done ==
    /\ status # "running" \/ Len(wire) = MaxMessages \/ printed # Nothing
    /\ UNCHANGED vars

Next ==
    \/ send
    \/ on_message
    \/ Done

Spec == Init /\ [][Next]_vars
-----------------------------------------------------------------------------
(* What a line says of a message, as Python values.                         *)

Word(b) == Raw(IF b THEN "True" ELSE "False")
Told(text) == IF text = <<>> THEN Raw("None") ELSE Str(text)

(* The dict format shows numbers and Booleans as such, an unsigned long as  *)
(* a string and an empty string as one; interop shows every number as such, *)
(* a Boolean as a string and an empty string as None.                       *)
ScalarMeaning(v) ==
    CASE v.type = "NULL"    -> Raw("None")
      [] v.type = "BOOLEAN" /\ log_msgs = "dict" -> Word(v.text = <<"true">>)
      [] v.type = "STRING"  -> IF log_msgs = "dict" THEN Str(v.text) ELSE Told(v.text)
      [] v.type \in {"INT", "UINT", "LONG", "DOUBLE", "FLOAT"} -> Raw(v.text[1])
      [] v.type = "ULONG" /\ log_msgs = "interop" -> Raw(v.text[1])
      [] OTHER              -> Str(v.text)

Pairs(names, values) ==
    Dict(FlattenSeq([i \in DOMAIN names |-> <<Str(names[i]), values[i]>>]))

Meaning(v) ==
    LET parts == [i \in DOMAIN v.parts |-> ScalarMeaning(v.parts[i])]
    IN  CASE v.type = "LIST" -> List(parts)
          [] v.type = "MAP"  -> Pairs([i \in DOMAIN v.keys |-> v.keys[i].text], parts)
          [] OTHER           -> ScalarMeaning(v)

(* An id of any type but binary is shown.                                   *)
ToldAnyId(id) == IF id.type = "BINARY" THEN Raw("None") ELSE Told(id.text)

DictNames ==
    << <<"redelivered">>, <<"reply_to">>, <<"subject">>, <<"content_type">>,
       <<"user_id">>, <<"id">>, <<"correlation_id">>, <<"priority">>,
       <<"durable">>, <<"ttl">>, <<"properties">>, <<"content">> >>

DictValues(msg) ==
    << Word(msg.delivery_count # <<"0">>), Told(msg.reply_to), Told(msg.subject),
       Told(msg.content_type), Told(msg.user), ToldAnyId(msg.id),
       ToldAnyId(msg.correlation_id), Raw(msg.priority[1]), Word(msg.durable),
       Raw(msg.ttl[1]), Meaning(msg.properties), Meaning(msg.body) >>

DictMeaning(msg) == Pairs(DictNames, DictValues(msg))

(* An id is shown without its "ID:" and an address without its "topic://".  *)
Bare(prefix, text) ==
    IF text # <<>> /\ Head(text) = prefix THEN Tail(text) ELSE text
ToldId(id) == IF id.text = <<>> THEN Raw("None") ELSE Str(Bare("ID:", id.text))

InteropNames ==
    << <<"durable">>, <<"priority">>, <<"ttl">>, <<"first-acquirer">>,
       <<"delivery-count">>, <<"id">>, <<"user-id">>, <<"address">>,
       <<"subject">>, <<"reply-to">>, <<"correlation-id">>, <<"content-type">>,
       <<"content-encoding">>, <<"absolute-expiry-time">>, <<"creation-time">>,
       <<"group-id">>, <<"group-sequence">>, <<"reply-to-group-id">>,
       <<"properties">>, <<"content">> >>

InteropValues(msg) ==
    << Word(msg.durable), Raw(msg.priority[1]), Raw(msg.ttl[1]),
       Word(msg.first_acquirer), Raw(msg.delivery_count[1]), ToldId(msg.id),
       Told(msg.user), Told(Bare("topic://", msg.to)), Told(msg.subject),
       Told(msg.reply_to), ToldId(msg.correlation_id), Told(msg.content_type),
       Told(msg.content_encoding), Raw(msg.expiry_time[1]),
       Raw(msg.creation_time[1]), Told(msg.group_id), Raw(msg.group_sequence[1]),
       Told(msg.reply_to_group_id), Meaning(msg.properties), Meaning(msg.body) >>

InteropMeaning(msg) == Pairs(InteropNames, InteropValues(msg))

(* What the printers are known to leave out: they escape quotes in values   *)
(* of the type string only, backslashes and newlines nowhere, take strings  *)
(* for keys and scalars for the elements of a list or a map only, and print *)
(* nothing for an array, a described value or, in dict, a null element.     *)
NeverEscaped(text) == Has(text, "\\") \/ Has(text, "newline")
Unescaped(text) == Has(text, "'") \/ NeverEscaped(text)

PlainText(v) == IF v.type = "STRING" THEN ~NeverEscaped(v.text) ELSE ~Unescaped(v.text)

PlainScalar(v) == v.type \notin Compound /\ PlainText(v)

Plain(v) ==
    /\ v.type \notin {"ARRAY", "DESCRIBED"} /\ PlainText(v)
    /\ \A i \in DOMAIN v.parts :
           PlainScalar(v.parts[i]) /\ (log_msgs = "dict" => v.parts[i].type # "NULL")
    /\ \A i \in DOMAIN v.keys :
           v.keys[i].type = "STRING" /\ ~Unescaped(v.keys[i].text)

IsPlain(msg) ==
    /\ \A text \in HeaderTexts(msg) : ~Unescaped(text)
    /\ Plain(msg.properties) /\ Plain(msg.body)

HasPrinted(format) == log_msgs = format /\ printed # Nothing
-----------------------------------------------------------------------------
(* Properties.                                                              *)

(* Python reads a dict line as a dictionary of the message's header,        *)
(* properties and content: the quotes, escapes, commas and brackets that    *)
(* ReactorDecoder puts together one by one fit for every plain message.     *)
DictReadsBack ==
    HasPrinted("dict") /\ IsPlain(printed.message) =>
        Read(printed.text) = DictMeaning(printed.message)

(* The same of the interop format, whose ids have to be strings.            *)
InteropReadsBack ==
    /\ HasPrinted("interop")
    /\ IsPlain(printed.message)
    /\ {printed.message.id.type, printed.message.correlation_id.type}
           \subseteq {"NULL", "STRING"}
    => Read(printed.text) = InteropMeaning(printed.message)

(* A sender counts each message it sends, and "%d" numbers them: a printer  *)
(* that threw after the link had got the message would leave it uncounted,  *)
(* and the polling would send it again.                                     *)
CountsWhatItSends ==
    /\ sent = Len(wire)
    /\ IsNumbered(m.body) =>
           \A i, j \in DOMAIN wire : i # j => wire[i] # wire[j]

(* DictFormatter.h:31: every line is a Python dictionary.                   *)
PrintsDictionaries ==
    printed # Nothing => Read(printed.text).kind = "dict"
=============================================================================
