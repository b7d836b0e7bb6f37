---------------------------- MODULE MCMessageLog ----------------------------
(* Messages for TLC: a plain one, and families that vary a part of it.      *)
EXTENDS MessageLog

Scalar(type, text) == [type |-> type, text |-> text, keys |-> <<>>, parts |-> <<>>]
String(text) == Scalar("STRING", text)
Null == Scalar("NULL", <<>>)
ListOf(parts) == [type |-> "LIST", text |-> <<>>, keys |-> <<>>, parts |-> parts]
MapOf(keys, parts) == [type |-> "MAP", text |-> <<>>, keys |-> keys, parts |-> parts]

Base ==
    [delivery_count |-> <<"0">>, reply_to |-> <<>>, subject |-> <<>>,
     content_type |-> <<>>, user |-> <<>>, id |-> Null, correlation_id |-> Null,
     priority |-> <<"4">>, durable |-> FALSE, ttl |-> <<"0">>,
     first_acquirer |-> FALSE, to |-> <<>>, content_encoding |-> <<>>,
     expiry_time |-> <<"0">>, creation_time |-> <<"0">>, group_id |-> <<>>,
     group_sequence |-> <<"0">>, reply_to_group_id |-> <<>>,
     properties |-> MapOf(<<>>, <<>>), body |-> Null]

(* Words with quotes, backslashes and line feeds anywhere.                  *)
Texts == UNION {[1..n -> {"word", "'", "\\", "newline"}] : n \in 0..3}

Key(k) == String(<<k>>)
Numbers == {Scalar(t, <<"5">>) : t \in DictNumbers}
Booleans == {Scalar("BOOLEAN", <<b>>) : b \in {"true", "false"}}
Cast == {Scalar("LONG", <<"5">>), Scalar("DOUBLE", <<"1.5">>)} \union Booleans
Strings == {String(<<>>), String(<<"word">>), String(<<"'">>)}
Others == {Null, Scalar("ULONG", <<"5">>), Scalar("SYMBOL", <<"word">>),
           Scalar("SYMBOL", <<>>), Scalar("SYMBOL", <<"'">>)}
Nested == {ListOf(<<>>), ListOf(<<String(<<"word">>)>>), ListOf(<<Scalar("INT", <<"5">>)>>),
           MapOf(<<>>, <<>>), Scalar("ARRAY", <<>>), Scalar("DESCRIBED", <<>>)}

Maps(values) ==
    {MapOf(<<>>, <<>>)}
        \union {MapOf(<<Key("a")>>, <<v>>) : v \in values}
        \union {MapOf(<<Key("a"), Key("b")>>, <<v, w>>) : v \in values, w \in values}
Lists(values) ==
    {ListOf(<<>>)} \union {ListOf(<<v>>) : v \in values}
        \union {ListOf(<<v, w>>) : v \in values, w \in values}
        \union {ListOf(<<v, w, v>>) : v \in values, w \in values}

(* What a command line can make: items are strings or cast.                 *)
Items == Strings \union Cast
Contents == {String(t) : t \in Texts}
                \union {String(<<"%d">>), String(<<"a", "%d", "%d">>)}
                \union Cast \union Lists(Items) \union Maps(Items)
AllComposed ==
    {[Base EXCEPT !.body = b] : b \in Contents}
        \union {[Base EXCEPT !.properties = p] : p \in Maps(Items)}
        \union {[Base EXCEPT !.subject = t, !.id = String(i), !.to = a, !.body = String(<<"%d">>)] :
                   t \in Texts, i \in {<<>>, <<"5">>, <<"ID:", "5">>},
                   a \in {<<"word">>, <<"topic://", "word">>}}

(* What may come from other clients.                                        *)
Ids == {Null, String(<<>>), String(<<"ID:">>), String(<<"ID:", "5">>),
        Scalar("ULONG", <<"5">>), Scalar("UUID", <<"word">>), Scalar("BINARY", <<"word">>)}
AllReceived ==
    {[Base EXCEPT !.body = b] :
        b \in Numbers \union Others \union Nested \union Lists(Others \union Nested)
                 \union Maps(Others \union Nested) \union Maps(Numbers)
                 \union {MapOf(<<k>>, <<String(<<"word">>)>>) :
                            k \in {Scalar("INT", <<"5">>), Key("'")}}}
        \union {[Base EXCEPT !.id = i, !.correlation_id = c, !.reply_to = t,
                             !.durable = d, !.delivery_count = n] :
                   i \in Ids, c \in Ids, t \in {<<>>, <<"word">>, <<"'">>},
                   d \in BOOLEAN, n \in {<<"0">>, <<"1">>}}
        \union {[Base EXCEPT !.content_type = t, !.user = t, !.content_encoding = t,
                             !.group_id = t, !.reply_to_group_id = t,
                             !.first_acquirer = f] : t \in Texts, f \in BOOLEAN}

Printed == [n \in 0..MaxMessages |-> ToString(n)]
Literals == {"None", "True", "False", "0", "1", "2", "4", "5", "1.5"}

(* For the counterexample: a message whose id is a number.                  *)
NoMessages == {}
NumberedReceived == {[Base EXCEPT !.id = Scalar("ULONG", <<"5">>)]}
=============================================================================
