----------------------------- MODULE Formatting -----------------------------
(***************************************************************************)
(* What --log-msgs prints of a message: the "dict" format (ReactorDecoder  *)
(* through DictWriter, DictFormatter::printMessage) and the "interop" one  *)
(* (DictFormatter::printMessageInterop).  Text is a sequence of symbols, a *)
(* delimiter or a word each; the blanks between the fields are left out.   *)
(*                                                                         *)
(* A value is a record [type, text, keys, parts]: its AMQP type, how C++   *)
(* prints a scalar of it, and the elements of a list or a map with, for a  *)
(* map, their keys.  The text of a null is empty.                          *)
(***************************************************************************)
EXTENDS Strings, SequencesExt

Compound == {"LIST", "MAP", "ARRAY", "DESCRIBED"}

(* DictWriter *)

Quoted(str) == <<"'">> \o str \o <<"'">>

Named(name, text) == Quoted(<<name>>) \o <<":">> \o text

Field(name, text) == Named(name, text) \o <<",">>

Separated_offByOne(texts) ==                                    \* mutant
    FlattenSeq([i \in DOMAIN texts |->
        IF i < Len(texts) - 1 THEN Append(texts[i], ",") ELSE texts[i]])

(* The loops over a list or a map: a comma behind all but the last.         *)
Separated(texts) ==
    FlattenSeq([i \in DOMAIN texts |->
        IF i < Len(texts) THEN Append(texts[i], ",") ELSE texts[i]])

Bracketed(open, texts, close) == <<open>> \o Separated(texts) \o <<close>>

escapeQuotes_first(s) ==                                        \* mutant
    LET at == Find(s, <<"'">>, 0)
    IN  IF at = NPOS THEN s
        ELSE Substr(s, 0, at) \o <<"\\", "'">> \o From(s, at + 1)

(* Of either class: the loop goes on behind what it has put in.             *)
escapeQuotes(s) ==
    FlattenSeq([i \in DOMAIN s |-> IF s[i] = "'" THEN <<"\\", "'">> ELSE <<s[i]>>])

formatBool(b) == IF b THEN <<"True">> ELSE <<"False">>
-----------------------------------------------------------------------------
(* ReactorDecoder: the dict format.                                         *)

(* A string of the header.                                                  *)
write(name, text) == Field(name, IF text = <<>> THEN <<"None">> ELSE Quoted(text))

(* An id of one of these types is text by one of the three conversions; one *)
(* that all three refuse, of the type binary, is logged and shown as None.  *)
Converted == {"NULL", "STRING", "ULONG", "UUID"}

IdText(id) == IF id.type \in Converted THEN id.text ELSE <<>>

write_id(name, id) == write(name, IdText(id))

DictNumbers == {"UINT", "LONG", "INT", "FLOAT", "DOUBLE"}

decodeValue(v) ==
    CASE v.type \in Compound \union {"NULL"} -> <<>>
      [] v.type = "STRING"       -> Quoted(escapeQuotes(v.text))
      [] v.type \in DictNumbers  -> v.text
      [] v.type = "BOOLEAN"      -> formatBool(v.text = <<"true">>)
      [] OTHER                   -> Quoted(v.text)

(* A nested list is read as a list of strings.                              *)
decodeThrows(v) ==
    v.type = "LIST" /\ \E i \in DOMAIN v.parts : v.parts[i].type # "STRING"

Entry(key, text) == Quoted(key.text) \o <<":">> \o text

writeProperties(properties) ==
    Bracketed("{", [i \in DOMAIN properties.parts |->
                       Entry(properties.keys[i], decodeValue(properties.parts[i]))], "}")

decodeHeader(m) ==
    Field("redelivered", formatBool(m.delivery_count # <<"0">>))
        \o write("reply_to", m.reply_to)
        \o write("subject", m.subject)
        \o write("content_type", m.content_type)
        \o write("user_id", m.user)
        \o write_id("id", m.id)
        \o write_id("correlation_id", m.correlation_id)
        \o Field("priority", m.priority)
        \o Field("durable", formatBool(m.durable))
        \o Field("ttl", m.ttl)

decodeContent(body) ==
    CASE body.type = "MAP" ->
            Bracketed("{", [i \in DOMAIN body.parts |->
                               Entry(body.keys[i], decodeValue(body.parts[i]))], "}")
      [] body.type = "LIST" ->
            Bracketed("[", [i \in DOMAIN body.parts |-> decodeValue(body.parts[i])], "]")
      [] OTHER ->
            IF decodeValue(body) = <<>> THEN <<"None">> ELSE decodeValue(body)

(* A map is read with strings for keys.                                     *)
HasForeignKey(v) ==
    v.type = "MAP" /\ \E i \in DOMAIN v.keys : v.keys[i].type # "STRING"

printMessageThrows_asNested(m) == decodeThrows(m.body)          \* mutant

printMessageThrows(m) ==
    \/ HasForeignKey(m.body)
    \/ /\ m.body.type \in {"LIST", "MAP"}
       /\ \E i \in DOMAIN m.body.parts : decodeThrows(m.body.parts[i])

printMessage(m) ==
    <<"{">> \o decodeHeader(m)
            \o Named("properties", writeProperties(m.properties)) \o <<",">>
            \o Named("content", decodeContent(m.body)) \o <<"}">>
-----------------------------------------------------------------------------
(* DictFormatter: the interop format.                                       *)

Without(prefix, s) == IF Find(s, <<prefix>>, 0) = 0 THEN Tail(s) ELSE s

formatString(s) == IF s = <<>> THEN <<"None">> ELSE Quoted(s)

(* Of an id that is only the prefix an empty string is left.                *)
formatId(s) == IF s = <<>> THEN <<"None">> ELSE Quoted(Without("ID:", s))

InteropNumbers == {"DOUBLE", "FLOAT", "INT", "LONG", "UINT", "ULONG"}

ScalarText(v) ==
    CASE v.type = "STRING"         -> formatString(escapeQuotes(v.text))
      [] v.type = "NULL"           -> <<"None">>
      [] v.type \in InteropNumbers -> v.text
      [] OTHER                     -> Quoted(v.text)

formatMap(v) ==
    Bracketed("{", [i \in DOMAIN v.parts |->
                       Entry(v.keys[i], ScalarText(v.parts[i]))], "}")

formatList(v) ==
    Bracketed("[", [i \in DOMAIN v.parts |-> ScalarText(v.parts[i])], "]")

(* Lists and maps are read with scalars for elements.                       *)
getValueThrows(v) ==
    \/ HasForeignKey(v)
    \/ /\ v.type \in {"LIST", "MAP"}
       /\ \E i \in DOMAIN v.parts : v.parts[i].type \in Compound

getValue(v) ==
    CASE v.type \in {"ARRAY", "DESCRIBED"} -> <<>>
      [] v.type = "LIST"                   -> formatList(v)
      [] v.type = "MAP"                    -> formatMap(v)
      [] OTHER                             -> ScalarText(v)

(* Neither get<string> nor coerce<string> takes anything but a string.       *)
IdThrows(id) == id.type \notin {"NULL", "STRING"}

InteropField(name, text, throws) == [name |-> name, text |-> text, throws |-> throws]
Safe(name, text) == InteropField(name, text, FALSE)

InteropFields(m) ==
    << Safe("durable", formatBool(m.durable)),
       Safe("priority", m.priority),
       Safe("ttl", m.ttl),
       Safe("first-acquirer", formatBool(m.first_acquirer)),
       Safe("delivery-count", m.delivery_count),
       InteropField("id", formatId(m.id.text), IdThrows(m.id)),
       Safe("user-id", formatString(m.user)),
       Safe("address", formatString(Without("topic://", m.to))),
       Safe("subject", formatString(m.subject)),
       Safe("reply-to", formatString(m.reply_to)),
       InteropField("correlation-id", formatId(m.correlation_id.text),
                    IdThrows(m.correlation_id)),
       Safe("content-type", formatString(m.content_type)),
       Safe("content-encoding", formatString(m.content_encoding)),
       Safe("absolute-expiry-time", m.expiry_time),
       Safe("creation-time", m.creation_time),
       Safe("group-id", formatString(m.group_id)),
       Safe("group-sequence", m.group_sequence),
       Safe("reply-to-group-id", formatString(m.reply_to_group_id)),
       Safe("properties", formatMap(m.properties)),
       InteropField("content", getValue(m.body), getValueThrows(m.body)) >>

(* An exception on the way is caught, and what is there by then is printed: *)
(* the name of the field, not its text and no brace.                        *)
printMessageInterop(m) ==
    LET fields == InteropFields(m)
        thrown == {i \in DOMAIN fields : fields[i].throws}
        last == Min({Len(fields)} \union thrown)
        texts == [i \in 1..last |->
                     Named(fields[i].name, IF fields[i].throws THEN <<>> ELSE fields[i].text)]
    IN  <<"{">> \o Separated(texts) \o IF thrown = {} THEN <<"}">> ELSE <<>>
=============================================================================
