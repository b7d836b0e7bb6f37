--------------------------- MODULE MessageOptions ---------------------------
(***************************************************************************)
(* How the sender makes a message of the repeated options --msg-property,  *)
(* --msg-content-list-item and --msg-content-map-item: a callback joins    *)
(* the values to one string, which is split again after the command line   *)
(* is read; every item is taken apart at its separator, and cast when that *)
(* is a "~" (StringAppendCallback.cpp, SendingClient::nameVal and          *)
(* setMessage...).                                                         *)
(***************************************************************************)
EXTENDS Strings, SequencesExt

CONSTANTS
    Numerals,       \* words that are numbers
    Fractional,     \* words with an "e", an "E" or a "." in them
    Truths          \* from the spellings of true and false to these two

(* StringAppendCallback *)

EMPTY == <<"'", "'">>

append_unquoted(str, s) == str \o s \o <<";">>      \* mutant

append(str, s) == str \o (IF s = <<>> THEN EMPTY ELSE s) \o <<";">>

(* An empty part is dropped, and a quoted one is empty.                     *)
Kept(str) ==
    IF str = <<>> THEN <<>> ELSE IF str = EMPTY THEN <<(<<>>)>> ELSE <<str>>

(* Where the part that ends at a position begins.                           *)
PartStart(str, end) == Max({0} \union {i \in 1..(end - 1) : str[i] = ";"}) + 1

getStrings(str) ==
    FlattenSeq([i \in 1..Len(str) |->
        IF str[i] = ";" THEN Kept(SubSeq(str, PartStart(str, i), i - 1)) ELSE <<>>])

(* nameVal: "=" wins over "~", wherever it stands.  found: there is a value. *)
nameVal(in) ==
    LET equals == Find(in, <<"=">>, 0)
        tilde == Find(in, <<"~">>, 0)
        at == IF equals # NPOS THEN equals ELSE tilde
    IN  [separator |-> IF equals # NPOS THEN "=" ELSE "~",
         name      |-> IF at = NPOS THEN in ELSE Substr(in, 0, at),
         value     |-> IF at = NPOS THEN <<>> ELSE From(in, at + 1),
         found     |-> at # NPOS /\ at + 1 < Len(in)]

Value(type, of) == [type |-> type, of |-> of]
Text(s) == Value("string", s)

(* What atol and atof make of a word: a number, or zero.                    *)
Number(type, val) == Value(type, IF val[1] \in Numerals THEN val ELSE <<"0">>)

Cast(val) ==
    IF Len(val) = 1 /\ val[1] \in DOMAIN Truths THEN Value("bool", <<Truths[val[1]]>>)
    ELSE IF \E i \in DOMAIN val : val[i] \in Fractional THEN Number("double", val)
    ELSE Number("long", val)

(* The value of a property or a map item.                                   *)
ItemValue(item) ==
    LET parts == nameVal(item)
    IN  IF parts.found /\ parts.separator = "~" THEN Cast(parts.value)
                                                ELSE Text(parts.value)

(* A list item is cast only behind a "~"; of any other the value is lost    *)
(* when it has a separator.                                                 *)
ListValue(item) ==
    LET parts == nameVal(item)
    IN  IF parts.found /\ parts.separator = "~"
        THEN IF /\ Has(parts.value, "~")
                /\ Cast(parts.value).type = "long"
             THEN Text(parts.value)
             ELSE Cast(parts.value)
        ELSE Text(parts.name)

(* Later items of the same name replace earlier ones.                       *)
Put(map, item) == (nameVal(item).name :> ItemValue(item)) @@ map

MapOf(items) == FoldLeft(Put, <<>>, items)

ListOf(items) == [k \in DOMAIN items |-> ListValue(items[k])]
=============================================================================
