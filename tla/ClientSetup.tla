----------------------------- MODULE ClientSetup -----------------------------
(***************************************************************************)
(* What run() of each client makes of its arguments before its handler     *)
(* runs: it parses and validates them, takes credentials from the broker's *)
(* URL when no option gives them, and collects what the handler is set up  *)
(* with, the sender's message included.                                    *)
(***************************************************************************)
EXTENDS OptionParser, UriParser, ModernOptions

CONSTANTS
    Positive,       \* the numerals above 0
    FrameSizes,     \* those that are legal sizes of a frame
    CommandLines    \* the lines users may type: a parser, and settings

ASSUME CommandLinesAssumption ==
    \A cl \in CommandLines :
        cl.parser \in {SenderParser, ReceiverParser, ConnectorParser}
ASSUME PositiveAssumption == "1" \in Positive

VARIABLES
    line,           \* history: the settings the user meant
    client,         \* address and credentials, as every handler gets them
    setup           \* what else the handler gets

vars == <<parserVars, line, client, setup>>

Running == status = "running"

IsSet(option) == option \in DOMAIN values
ValueOr(option, default) == IF IsSet(option) THEN values[option] ELSE default
NumberOr(option, default) ==
    IF IsSet(option) THEN Number("long", values[option]).of ELSE <<default>>

(* true and false are accepted in any case.                                 *)
IsBoolean(option) == \E word \in DOMAIN Truths : values[option] = <<word>>
IsTrue(option) ==
    IsSet(option) /\ IsBoolean(option) /\ Truths[values[option][1]] = "true"
-----------------------------------------------------------------------------
(* validate()                                                               *)

ModernInvalid_listenGiven ==                                    \* mutant
    \/ ~IsSet("broker-url") /\ ~IsSet("recv-listen") /\ ~IsSet("conn-use-config-file")
    \/ IsSet("conn-max-frame-size") /\ values["conn-max-frame-size"][1] \notin FrameSizes
    \/ \E o \in {"conn-reconnect", "conn-sasl-enabled"} : IsSet(o) /\ ~IsBoolean(o)
    \/ /\ IsSet("conn-reconnect-doubling")
       /\ values["conn-reconnect-doubling"] \notin {<<"true">>, <<"false">>}
    \/ IsSet("conn-ssl-certificate") /\ ~IsSet("conn-ssl-private-key")

ModernInvalid ==
    \/ ~IsSet("broker-url") /\ ~IsTrue("recv-listen") /\ ~IsSet("conn-use-config-file")
    \/ IsSet("conn-max-frame-size") /\ values["conn-max-frame-size"][1] \notin FrameSizes
    \/ \E o \in {"conn-reconnect", "conn-sasl-enabled"} : IsSet(o) /\ ~IsBoolean(o)
    \/ /\ IsSet("conn-reconnect-doubling")
       /\ values["conn-reconnect-doubling"] \notin {<<"true">>, <<"false">>}
    \/ IsSet("conn-ssl-certificate") /\ ~IsSet("conn-ssl-private-key")

SenderInvalid == ValueOr("duration-mode", <<>>) = <<"after-send-tx-action">>

ReceiverInvalid_sizeUnchecked ==                                \* mutant
    \E o \in {"durable-subscriber", "subscriber-unsubscribe", "shared-subscriber"} :
        IsSet(o) /\ ~IsBoolean(o)

ReceiverInvalid ==
    \/ IsSet("action-size") /\ values["action-size"][1] \notin Positive
    \/ ValueOr("duration-mode", <<>>) = <<"after-receive-action-tx-action">>
    \/ \E o \in {"durable-subscriber", "subscriber-unsubscribe", "shared-subscriber"} :
           IsSet(o) /\ ~IsBoolean(o)

Invalid ==
    \/ ModernInvalid
    \/ parser.name = "sender" /\ SenderInvalid
    \/ parser.name = "receiver" /\ ReceiverInvalid
-----------------------------------------------------------------------------
(* run()                                                                    *)

(* The first "topic://" of the URL marks a topic and is cut out; the URI     *)
(* parser is given the URL with it.                                         *)
ClientOf(url) ==
    LET topic == Find(url, <<"topic", ":", "/", "/">>, 0)
        User == ValueOr("user", user(url))
        Password == ValueOr("password", password(url))
    IN  [address  |-> IF topic = NPOS THEN url
                      ELSE Substr(url, 0, topic) \o From(url, topic + 4),
         is_topic |-> topic # NPOS,
         user     |-> User,
         password |-> Password,
         sasl     |-> ValueOr("sasl-mechanisms",
                          IF User # <<>> /\ Password # <<>> THEN <<"PLAIN">>
                                                            ELSE <<"ANONYMOUS">>),
         tracing  |-> /\ parser.name # "connector"
                      /\ ValueOr("trace-messages", <<>>) \in {<<"1">>, <<"true">>}]

(* setMessageOptions, and --msg-group-seq: of a value that is no number they *)
(* make 0, of one that is no spelling of true they make false.              *)
TextFields == {"msg-reply-to", "msg-to", "msg-correlation-id", "msg-content-type",
               "msg-subject", "msg-id", "msg-user-id", "msg-group-id",
               "msg-reply-to-group-id"}
NumberFields == {"msg-ttl", "msg-priority", "msg-group-seq"}

setMessageOptions ==
    [o \in (TextFields \union NumberFields \union {"msg-durable"}) \intersect DOMAIN values |->
        IF o \in TextFields THEN Text(values[o])
        ELSE IF o \in NumberFields THEN Number("long", values[o])
        ELSE Value("bool", values[o] \in {<<"yes">>, <<"true">>, <<"True">>})]

(* A list goes before a map, and both go before a text.                     *)
Body ==
    LET list == appended["msg-content-list-item"]
        map == appended["msg-content-map-item"]
    IN  IF list # <<>> THEN Value("list", ListOf(getStrings(list)))
        ELSE IF map # <<>> THEN Value("map", MapOf(getStrings(map)))
        ELSE Text(ValueOr("msg-content", <<>>))

SenderSetup ==
    [headers       |-> setMessageOptions,
     properties    |-> MapOf(getStrings(appended["msg-property"])),
     body          |-> Body,
     count         |-> NumberOr("count", "1"),
     timeout       |-> NumberOr("timeout", "1"),
     duration      |-> NumberOr("duration", "0"),
     duration_mode |-> ValueOr("duration-mode", <<"after-send">>),
     log_msgs      |-> ValueOr("log-msgs", <<>>)]

(* A client id that is only prefixed ends in a random one.                  *)
ClientId ==
    IF ValueOr("conn-clientid", <<>>) # <<>> THEN values["conn-clientid"]
    ELSE IF ValueOr("conn-clientid-prefix", <<>>) # <<>>
    THEN values["conn-clientid-prefix"] \o <<"random">>
    ELSE <<>>

ReceiverSetup ==
    [msg_action         |-> ValueOr("action", <<"no-action">>),
     msg_action_size    |-> NumberOr("action-size", "1"),
     count              |-> NumberOr("count", "0"),
     timeout            |-> NumberOr("timeout", "-1"),
     duration           |-> NumberOr("duration", "0"),
     duration_mode      |-> ValueOr("duration-mode", <<"after-receive">>),
     log_msgs           |-> ValueOr("log-msgs", <<>>),
     selector           |-> ValueOr("recv-selector", <<>>),
     process_reply_to   |-> IsSet("process-reply-to"),
     browse             |-> IsSet("recv-browse"),
     recv_listen        |-> IsTrue("recv-listen"),
     recv_listen_port   |-> NumberOr("recv-listen-port", "5672"),
     recv_credit_window |-> NumberOr("recv-credit-window", "-1"),
     recv_drain_after_credit_window |-> IsSet("recv-drain-after-credit-window"),
     durable_subscriber        |-> IsTrue("durable-subscriber"),
     subscriber_unsubscribe    |-> IsTrue("subscriber-unsubscribe"),
     shared_subscriber         |-> IsTrue("shared-subscriber"),
     durable_subscriber_prefix |-> ValueOr("durable-subscriber-prefix", <<>>),
     durable_subscriber_name   |-> ValueOr("durable-subscriber-name", <<>>),
     conn_clientid             |-> ClientId]

(* --obj-ctrl names objects by letters.                                     *)
setConnectionOptions ==
    {letter \in {"C", "E", "S", "R"} : Has(ValueOr("obj-ctrl", <<>>), letter)}

ConnectorSetup ==
    [objectControl |-> setConnectionOptions,
     count         |-> NumberOr("count", "1"),
     timeout       |-> NumberOr("timeout", "0")]

SetupOf ==
    CASE parser.name = "sender"    -> SenderSetup
      [] parser.name = "receiver"  -> ReceiverSetup
      [] parser.name = "connector" -> ConnectorSetup

run ==
    /\ status = "parsed"
    /\ \/ /\ Invalid
          /\ Quit("invalid")
          /\ UNCHANGED <<client, setup>>
       \/ /\ ~Invalid
          /\ status' = "running"
          /\ client' = ClientOf(ValueOr("broker-url", <<>>))
          /\ setup' = SetupOf
          /\ UNCHANGED <<values, appended, leftover>>
    /\ UNCHANGED <<parser, remaining, line>>
-----------------------------------------------------------------------------
(* A setting as it is typed: long or short, its value behind an equals sign, *)
(* joined to the letter or as the next argument; a flag or an option without *)
(* its value; a wrong letter; an argument that is no option; or "--".        *)
Typed(setting) ==
    LET long == <<"-", "-", setting.option>>
        short == <<"-", CHOOSE l \in DOMAIN ShortOpts : ShortOpts[l] = setting.option>>
    IN  CASE setting.style = "equals" -> <<long \o <<"=">> \o setting.value>>
          [] setting.style = "next"   -> <<long, setting.value>>
          [] setting.style = "joined" -> <<short \o setting.value>>
          [] setting.style = "short"  -> <<short, setting.value>>
          [] setting.style = "bare"   -> <<long>>
          [] setting.style \in {"plain", "letter"} -> <<setting.value>>
          [] setting.style = "end"    -> <<(<<"-", "-">>)>>

AllTyped(settings) == FlattenSeq([k \in DOMAIN settings |-> Typed(settings[k])])

(* That the arguments of a setting are its own: one without its value is    *)
(* the last, and no flag has one behind it.                                 *)
TakesValue(p, option) == option \in p.ints \union p.strings \union p.items
HasLetter(p, option) == \E l \in DOMAIN p.shorts : p.shorts[l] = option

IsSetting(p, setting, isLast) ==
    /\ setting.option \in STRING \ {"="} /\ setting.value \in Seq(STRING)
    /\ \/ setting.style = "equals"
       \/ setting.style = "next" /\ setting.option \notin p.flags
       \/ /\ setting.style = "bare" /\ setting.value = <<>>
          /\ TakesValue(p, setting.option) => isLast
       \/ /\ setting.style = "short"
          /\ HasLetter(p, setting.option) /\ TakesValue(p, setting.option)
       \/ /\ setting.style = "joined" /\ HasLetter(p, setting.option)
          /\ TakesValue(p, setting.option) => setting.value # <<>>
       \/ /\ setting.style = "letter" /\ IsShort(setting.value)
          /\ setting.option \notin Exiting
          /\ \/ setting.value[2] \notin DOMAIN p.shorts
             \/ /\ TakesValue(p, p.shorts[setting.value[2]])
                /\ Len(setting.value) = 2 /\ isLast
       \/ setting.style = "plain" /\ IsPlain(setting.value)
       \/ setting.style = "end"

ASSUME SettingsAssumption ==
    \A cl \in CommandLines :
        /\ cl.settings \in Seq({cl.settings[k] : k \in DOMAIN cl.settings})
        /\ \A k \in 1..Len(cl.settings) :
               IsSetting(cl.parser, cl.settings[k], k = Len(cl.settings))

(* How a URL is spelled.                                                    *)
SchemePart(url) ==
    IF url.scheme = <<>> THEN <<>> ELSE url.scheme \o <<":", "/", "/">>
CredentialsPart(url) ==
    IF url.user = <<>> THEN <<>>
    ELSE url.user \o <<":">> \o url.password \o <<"@">>
PortPart(url) ==
    IF url.place.port = <<>> THEN <<>> ELSE <<":">> \o url.place.port
TopicPart(url) == IF url.is_topic THEN <<"topic", ":", "/", "/">> ELSE <<>>
PathPart(url) ==
    IF url.place.path = <<>> THEN <<>> ELSE <<"/">> \o TopicPart(url) \o url.place.path

Spelled(url) ==
    SchemePart(url) \o CredentialsPart(url) \o url.place.host
        \o PortPart(url) \o PathPart(url) \o url.query

(* Where a delimiter may stand.  UriParser looks for every delimiter in the  *)
(* whole URL: the ":", the "@" and the "]" of another part would be taken for *)
(* that of the credentials, the port and the host.  A host in brackets may  *)
(* have colons, and so may a password; a path may have slashes; only a URL  *)
(* with a scheme names a topic.                                             *)
Free(s, delimiters) == \A i \in 1..Len(s) : s[i] \notin delimiters

IsHost(host_) ==
    \/ Free(host_, {":", "@", "/", "]", "?", "#"})
    \/ /\ host_ # <<>> /\ host_[Len(host_)] = "]"
       /\ \A i \in 1..(Len(host_) - 1) : host_[i] \notin {"@", "/", "]", "?", "#"}

IsUrl(url) ==
    /\ url \in [scheme : Seq(STRING), user : Seq(STRING), password : Seq(STRING),
                is_topic : BOOLEAN, query : Seq(STRING),
                place : [host : Seq(STRING), port : Seq(STRING), path : Seq(STRING)]]
    /\ Free(url.scheme, {":", "@", "/", "]", "?", "#", "topic"})
    /\ Free(url.user, {":", "@", "/", "]", "?", "#"})
    /\ Free(url.password, {"@", "/", "]", "?", "#"})
    /\ IsHost(url.place.host)
    /\ Free(url.place.port, {":", "@", "/", "]", "?", "#"})
    /\ Free(url.place.path, {":", "@", "]", "?", "#"})
    /\ Free(url.query, {":", "@", "]"})
    /\ url.query # <<>> =>
           \/ url.query[1] = "?"
           \/ url.query[1] = "#" /\ Free(url.query, {"?"})
    /\ url.user = <<>> => url.password = <<>>
    /\ url.is_topic => url.scheme # <<>> /\ url.place.path # <<>>

(* The URLs of the command lines are spelled so.                            *)
ASSUME UrlsAssumption ==
    \A cl \in CommandLines : \A k \in 1..Len(cl.settings) :
        LET setting == cl.settings[k]
        IN  setting.option = "broker-url" =>
                IsUrl(setting.means) /\ setting.value = Spelled(setting.means)

Init ==
    /\ \E cl \in CommandLines : parser = cl.parser /\ line = cl.settings
    /\ ParserInit(AllTyped(line))
    /\ client = <<>>
    /\ setup = <<>>

Exited ==
    /\ status \notin {"parsing", "parsed"}
    /\ UNCHANGED vars

Next ==
    \/ parse_args /\ UNCHANGED <<line, client, setup>>
    \/ run
    \/ Exited

Spec == Init /\ [][Next]_vars
-----------------------------------------------------------------------------
(* Properties.  What the line means is read off its settings, never off the *)
(* arguments.                                                               *)

(* Every option that is set and has the type int begins with a number.      *)
TypeOK ==
    /\ DOMAIN values \subseteq IntOptions \union StringOptions \union FlagOptions
    /\ \A o \in DOMAIN values \intersect IntOptions :
           values[o] # <<>> /\ values[o][1] \in Numerals
    /\ DOMAIN appended = ItemOptions
    /\ status \in {"parsing", "parsed", "running", "invalid", "success", "usage error"}
    /\ Running <=> client # <<>> /\ setup # <<>>

(* The settings before "--", those that stand for themselves and the others. *)
End == Min({k \in DOMAIN line : line[k].style = "end"} \union {Len(line) + 1})
Plain == {k \in 1..(End - 1) : line[k].style = "plain"}
Options == (1..(End - 1)) \ Plain
Of(option) == {k \in Options : line[k].option = option}
LastOf(option) == line[Max(Of(option))]

(* An item arrives whole unless it is spelled like an empty one or has a ";" *)
(* in it, which separates the joined items: then the parts arrive that it   *)
(* gives alone.                                                             *)
IsWhole(value) == value # EMPTY /\ \A i \in DOMAIN value : value[i] # ";"
Arrived(value) ==
    IF IsWhole(value) THEN <<value>> ELSE getStrings(append(<<>>, value))

(* What some of them give, in their order.                                  *)
ValuesOf(places) ==
    FlattenSeq([k \in 1..(End - 1) |-> IF k \in places THEN <<line[k].value>> ELSE <<>>])
ArrivedOf(places) ==
    FlattenSeq([k \in 1..(End - 1) |-> IF k \in places THEN Arrived(line[k].value) ELSE <<>>])
MeansOf(places) ==
    FlattenSeq([k \in 1..(End - 1) |-> IF k \in places THEN <<line[k].means>> ELSE <<>>])

(* A setting the parser must refuse: no such option, no value where one is  *)
(* needed, no number where an int is.                                       *)
Wrong(setting) ==
    \/ setting.option \notin LongOpts \/ setting.style = "letter"
    \/ /\ setting.option \in Valued \ {"msg-content-list-item"}
       /\ setting.value = <<>>
       /\ setting.style \in {"equals", "next", "bare"}
    \/ /\ setting.option \in IntOptions
       /\ setting.value = <<>> \/ setting.value[1] \notin Numerals

Stops(setting) == Wrong(setting) \/ setting.option \in Exiting

(* Whatever the order and the style of the settings, the last value of an   *)
(* option counts, the items of the message options all arrive in their      *)
(* order (one that does not arrive whole disturbs no other), everything     *)
(* else is left over, the first wrong setting ends the client with a usage  *)
(* error and nothing else does.                                             *)
Understands ==
    LET stops == {k \in Options : Stops(line[k])}
    IN  /\ status = "success" =>
               stops # {} /\ line[Min(stops)].option \in Exiting
        /\ status = "usage error" =>
               stops # {} /\ line[Min(stops)].option \notin Exiting
        /\ status \in {"parsed", "invalid", "running"} =>
               /\ stops = {}
               /\ DOMAIN values = {line[k].option : k \in Options} \ ItemOptions
               /\ \A o \in DOMAIN values :
                      values[o] = IF o \in FlagOptions THEN <<"1">> ELSE LastOf(o).value
               /\ \A o \in ItemOptions : getStrings(appended[o]) = ArrivedOf(Of(o))
               /\ leftover = ValuesOf(Plain) \o AllTyped(SubSeq(line, End + 1, Len(line)))

(* The message has the fields, the properties and the body the settings     *)
(* mean: every item in its place, a value behind "~" with its type, and the *)
(* last of the fields, properties or map items of one name.  An item that   *)
(* does not arrive whole is not what anybody means.                         *)
MeansMap(map, option) ==
    /\ DOMAIN map = {line[k].means.name : k \in Of(option)}
    /\ \A k \in Of(option) :
           (\A j \in Of(option) : j > k => line[j].means.name # line[k].means.name)
           => map[line[k].means.name] = line[k].means.value

ItemsAreWhole ==
    \A k \in Options : line[k].option \in ItemOptions => IsWhole(line[k].value)

SendsWhatIsMeant ==
    Running /\ parser.name = "sender" /\ ItemsAreWhole =>
        /\ \A o \in DOMAIN setup.headers : setup.headers[o] = LastOf(o).means
        /\ MeansMap(setup.properties, "msg-property")
        /\ CASE Of("msg-content-list-item") # {} ->
                  setup.body = Value("list", MeansOf(Of("msg-content-list-item")))
             [] /\ Of("msg-content-list-item") = {}
                /\ Of("msg-content-map-item") # {} ->
                  /\ setup.body.type = "map"
                  /\ MeansMap(setup.body.of, "msg-content-map-item")
             [] OTHER ->
                  setup.body = Text(IF Of("msg-content") = {} THEN <<>>
                                      ELSE LastOf("msg-content").value)

(* The handler authenticates with what --user and --password say, and what  *)
(* neither says it takes from the URL.                                      *)
Authenticates ==
    Running /\ IsSet("broker-url") =>
        LET url == LastOf("broker-url").means
        IN  /\ client.user = ValueOr("user", url.user)
            /\ client.password = ValueOr("password", url.password)
            /\ client.is_topic = url.is_topic

(* A validated line says whom to talk to (an empty URL passes for one).     *)
StartsSafely ==
    Running =>
        \/ Of("broker-url") # {}
        \/ Of("conn-use-config-file") # {}
        \/ parser.name = "receiver" /\ setup.recv_listen

(* on_message divides by the batch size (ReceiverHandler.cpp:397): whatever  *)
(* the arguments, a receiver's handler gets a number above 0.               *)
DividesSafely ==
    Running /\ parser.name = "receiver" => setup.msg_action_size[1] \in Positive

(* Of a URL with a path that names no topic, the parser finds the host, the *)
(* port and the path, whatever else is in it.                               *)
FindsPlace ==
    Running /\ IsSet("broker-url") =>
        LET url == LastOf("broker-url")
        IN  ~url.means.is_topic /\ url.means.place.path # <<>> =>
                Place(url.value) = url.means.place

(* As the help of --msg-content-list-item promises, VALUE is sent as it is:  *)
(* every item without a "~" in front arrives whole.                         *)
ListItemsWhole ==
    Running =>
        LET items == ValuesOf(Of("msg-content-list-item"))
        IN  \A k \in DOMAIN items :
                items[k] # <<>> /\ items[k][1] # "~" =>
                    /\ setup.body.type = "list"
                    /\ setup.body.of[k] = Text(items[k])
=============================================================================
