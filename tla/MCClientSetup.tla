--------------------------- MODULE MCClientSetup -----------------------------
(* Command lines: of the sender, up to three settings of every kind around a *)
(* broker's URL, and every shape of URL and credentials; of the others what *)
(* only they are asked.                                                     *)
EXTENDS ClientSetup

MCNumerals == {"7", "1", "1.5", "0"}
MCFractional == {"1.5", "hey"}
MCTruths == [true |-> "true", True |-> "true", false |-> "false"]
MCPositive == {"7", "1", "1.5"}
MCFrameSizes == {"7"}

Setting(option, style, value, means) ==
    [option |-> option, style |-> style, value |-> value, means |-> means]
Plainly(option, style, value) == Setting(option, style, value, Text(value))
Named(option, style, value, name, of) ==
    Setting(option, style, value, [name |-> name, value |-> of])

(* What every list of settings is made of; the means of an item are written *)
(* down here and not computed.                                              *)
Few ==
    { Plainly("count", "short", <<"7">>), Plainly("count", "equals", <<"w">>),
      Plainly("msg-content", "next", <<"-", "-", "count">>),
      Setting("msg-content-list-item", "equals", <<>>, Text(<<>>)),
      Setting("msg-content-list-item", "next", <<"~", "7">>, Value("long", <<"7">>)),
      Named("msg-property", "next", <<"n", "=", "w">>, <<"n">>, Text(<<"w">>)),
      Named("msg-property", "equals", <<"n", "~", "True">>, <<"n">>, Value("bool", <<"true">>)),
      Named("msg-content-map-item", "next", <<"n", "~", "1.5">>, <<"n">>, Value("double", <<"1.5">>)),
      Plainly("none", "plain", <<"w">>), Plainly("none", "end", <<>>) }

More ==
    { Plainly("count", "joined", <<"7">>), Plainly("count", "short", <<>>),
      Plainly("timeout", "next", <<"0">>), Plainly("timeout", "equals", <<>>),
      Plainly("msg-content", "equals", <<"w", "=", "w">>), Plainly("msg-content", "next", <<>>),
      Setting("conn-ssl-verify-peer", "bare", <<>>, TRUE),
      Setting("conn-ssl-verify-peer", "equals", <<"w">>, TRUE),
      Plainly("help", "bare", <<>>), Plainly("help", "joined", <<"7">>),
      Plainly("version", "bare", <<>>), Plainly("unknown", "bare", <<>>),
      Plainly("unknown", "letter", <<"-", "z", "w">>),
      Setting("msg-content-list-item", "next", <<"w">>, Text(<<"w">>)),
      Setting("msg-content-list-item", "equals", <<"~", "w", "~", "7">>, Text(<<"w", "~", "7">>)),
      Setting("msg-content-list-item", "equals", <<"~", "false">>, Value("bool", <<"false">>)),
      Plainly("msg-content-list-item", "next", <<"w", ";", "7">>),
      Plainly("msg-content-list-item", "equals", <<"'", "'">>),
      Plainly("msg-content-list-item", "next", <<";", "'", "'", ";">>),
      Plainly("msg-property", "next", <<";">>),
      Named("msg-property", "equals", <<"m", "=">>, <<"m">>, Text(<<>>)),
      Named("msg-property", "next", <<"m">>, <<"m">>, Text(<<>>)),
      Named("msg-content-map-item", "equals", <<"n", "=", "w", "~", "7">>, <<"n">>, Text(<<"w", "~", "7">>)),
      Named("msg-content-map-item", "equals", <<"m", "~", "7">>, <<"m">>, Value("long", <<"7">>)),
      Plainly("msg-subject", "next", <<"w">>),
      Setting("msg-ttl", "next", <<"7">>, Value("long", <<"7">>)),
      Setting("msg-priority", "next", <<"w">>, Value("long", <<"0">>)),
      Setting("msg-durable", "equals", <<"True">>, Value("bool", TRUE)),
      Setting("msg-durable", "next", <<"w">>, Value("bool", FALSE)),
      Plainly("conn-reconnect", "equals", <<"w">>), Plainly("conn-reconnect", "next", <<"True">>),
      Plainly("conn-ssl-certificate", "next", <<"w">>), Plainly("conn-ssl-private-key", "next", <<"w">>),
      Plainly("conn-max-frame-size", "next", <<"0">>), Plainly("conn-max-frame-size", "next", <<"7">>),
      Plainly("duration-mode", "equals", <<"after-send-tx-action">>),
      Plainly("none", "plain", <<"-">>) }

(* An option without its value stands last, where nothing is left to take.  *)
Bare ==
    { Plainly("count", "bare", <<>>), Plainly("count", "letter", <<"-", "c">>), Plainly("msg-content", "bare", <<>>),
      Setting("msg-content-list-item", "bare", <<>>, Text(<<>>)) }

Url(style, scheme, user_, password_, host_, port_, is_topic, path_, query) ==
    LET means == [scheme |-> scheme, user |-> user_, password |-> password_,
                  is_topic |-> is_topic, query |-> query,
                  place |-> [host |-> host_, port |-> port_, path |-> path_]]
    IN  Setting("broker-url", style, Spelled(means), means)
SomeUrl == Url("short", <<>>, <<>>, <<>>, <<"h">>, <<>>, FALSE, <<"q">>, <<>>)
NoUrl == Url("short", <<>>, <<>>, <<>>, <<>>, <<>>, FALSE, <<>>, <<>>)

Urls ==
    {Url(style, scheme, credentials[1], credentials[2], host_, port_, is_topic, path_, query) :
         style \in {"equals", "next", "joined"}, scheme \in {<<>>, <<"amqp">>},
         credentials \in {<<(<<>>), (<<>>)>>, <<(<<"u">>), (<<>>)>>, <<(<<"u">>), (<<"w", ":">>)>>},
         host_ \in {<<"h">>, <<"[", "h", ":", "h", "]">>}, port_ \in {<<>>, <<"7">>},
         is_topic \in BOOLEAN, path_ \in {<<"q">>, <<>>},
         query \in {<<>>, <<"?", "w", "#", "w">>, <<"#", "w">>}}

UrlLines ==
    LET Options_(option) == {<<>>, <<Plainly(option, "equals", <<"x">>)>>,
                             <<Plainly(option, "short", <<>>)>>}
    IN  {<<url>> \o user_ \o password_ :
         url \in {u \in Urls : IsUrl(u.means)},
         user_ \in Options_("user"), password_ \in Options_("password")}

SenderLines ==
    LET All == Few \union More
    IN  UNION { {<<SomeUrl>> \o s : s \in SeqOf(All, 2)},
                {s \o <<SomeUrl>> : s \in SeqOf(Few, 3)},
                {<<s, SomeUrl, b>> : s \in All, b \in Bare},
                SeqOf(Few, 1), UrlLines }

(* Of receiver and connector.                                               *)
ReceiverSettings ==
    { SomeUrl, NoUrl, Plainly("action", "next", <<"ack">>),
      Plainly("action-size", "next", <<"7">>), Plainly("action-size", "equals", <<"0">>),
      Plainly("action-size", "equals", <<"w">>),
      Plainly("recv-listen", "next", <<"True">>), Plainly("recv-listen", "equals", <<"false">>),
      Plainly("durable-subscriber", "equals", <<"True">>),
      Plainly("shared-subscriber", "next", <<"w">>), Plainly("conn-clientid-prefix", "next", <<"w">>),
      Plainly("duration-mode", "equals", <<"after-receive-action-tx-action">>),
      Setting("process-reply-to", "bare", <<>>, TRUE), Setting("conn-use-config-file", "bare", <<>>, TRUE),
      Plainly("msg-content", "next", <<"w">>) }

ConnectorSettings ==
    { SomeUrl, NoUrl, Plainly("obj-ctrl", "next", <<"C", "E">>), Plainly("obj-ctrl", "equals", <<"S">>),
      Plainly("timeout", "equals", <<"7">>), Plainly("count", "joined", <<"w">>),
      Setting("conn-use-config-file", "bare", <<>>, TRUE), Plainly("recv-listen", "next", <<"True">>) }

Lines(parser_, settings) == {[parser |-> parser_, settings |-> s] : s \in settings}

MCCommandLines ==
    UNION { Lines(SenderParser, SenderLines),
            Lines(ReceiverParser, SeqOf(ReceiverSettings, 3)),
            Lines(ReceiverParser, UrlLines),
            Lines(ConnectorParser, SeqOf(ConnectorSettings, 3)) }

(* What the help promises of the items of a list.                            *)
ItemLines ==
    Lines(SenderParser, {<<SomeUrl>> \o s : s \in SeqOf(
        {Plainly("msg-content-list-item", "next", v) :
            v \in {<<"w">>, <<"w", "w">>, <<"~", "7">>, <<"n", "=", "w">>}}, 2)})
=============================================================================
