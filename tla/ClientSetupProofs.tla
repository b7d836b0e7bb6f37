-------------------------- MODULE ClientSetupProofs --------------------------
(***************************************************************************)
(* Theorems about what run() makes of its arguments, for every list of     *)
(* arguments whatever.                                                     *)
(***************************************************************************)
EXTENDS ClientSetup, DataProofs

(* What every action of the parser keeps.                                   *)
ValuesOK ==
    /\ DOMAIN values \subseteq IntOptions \union StringOptions \union FlagOptions
    /\ \A o \in DOMAIN values \intersect IntOptions :
           values[o] # <<>> /\ values[o][1] \in Numerals
    /\ DOMAIN appended = ItemOptions

ParserStatus == {"parsing", "parsed", "invalid", "success", "usage error"}

(* An option that is set adds itself to the options that are set, and       *)
(* leaves the values of the others alone.                                   *)
LEMMA SetFacts ==
    ASSUME NEW o, NEW v, Set(o, v)
    PROVE  /\ DOMAIN values' = DOMAIN values \union {o}
           /\ values'[o] = v
           /\ \A q \in DOMAIN values \ {o} : values'[q] = values[q]
           /\ UNCHANGED <<appended, leftover, status>>
  BY DEF Set

(* An option with a value fit for it keeps what is said of the values.      *)
LEMMA SetKeepsValues ==
    ASSUME ValuesOK, UNCHANGED parser,
           NEW o \in IntOptions \union StringOptions \union FlagOptions, NEW v,
           o \in IntOptions => v # <<>> /\ v[1] \in Numerals,
           Set(o, v)
    PROVE  ValuesOK'
  <1>1. /\ IntOptions' = IntOptions /\ StringOptions' = StringOptions
        /\ FlagOptions' = FlagOptions /\ ItemOptions' = ItemOptions
    BY DEF IntOptions, StringOptions, FlagOptions, ItemOptions
  <1>2. /\ DOMAIN values' = DOMAIN values \union {o}
        /\ values'[o] = v
        /\ \A q \in DOMAIN values \ {o} : values'[q] = values[q]
        /\ appended' = appended
    BY SetFacts
  <1>3. DOMAIN values' \subseteq IntOptions \union StringOptions \union FlagOptions
    BY <1>2 DEF ValuesOK
  <1>4. ASSUME NEW q \in DOMAIN values' \intersect IntOptions
        PROVE  values'[q] # <<>> /\ values'[q][1] \in Numerals
    <2>1. CASE q = o BY <1>2, <1>4, <2>1
    <2>2. CASE q # o
      <3>1. q \in DOMAIN values \intersect IntOptions BY <1>2, <1>4, <2>2
      <3>2. values'[q] = values[q] BY <1>2, <2>2, <3>1
      <3> QED BY <3>1, <3>2 DEF ValuesOK
    <2> QED BY <2>1, <2>2
  <1> QED BY <1>1, <1>2, <1>3, <1>4 DEF ValuesOK

(* No client has a flag with a value.                                       *)
LEMMA FlagsAreNoInts ==
    ASSUME parser \in {SenderParser, ReceiverParser, ConnectorParser}
    PROVE  FlagOptions \intersect IntOptions = {}
  BY DEF SenderParser, ReceiverParser, ConnectorParser, Parser, ModernInts,
         ModernFlags, IntOptions, FlagOptions

(* Whatever process_opt is given as the value of an option there is.        *)
LEMMA ProcessFacts ==
    ASSUME parser \in {SenderParser, ReceiverParser, ConnectorParser},
           ValuesOK, UNCHANGED parser, status = "parsing",
           NEW o, NEW v, process_opt(o, v)
    PROVE  ValuesOK' /\ status' \in ParserStatus
  <1>1. ASSUME NEW code \in {"success", "usage error"}, Quit(code)
        PROVE  ValuesOK' /\ status' \in ParserStatus
    BY <1>1 DEF Quit, ValuesOK, IntOptions, StringOptions, FlagOptions,
       ItemOptions, ParserStatus
  <1>2. CASE /\ o \in IntOptions \union StringOptions
             /\ TypeChecks(o, v) /\ Set(o, v)
    <2>1. o \in IntOptions => v # <<>> /\ v[1] \in Numerals
      BY <1>2 DEF TypeChecks
    <2>2. status' = status BY <1>2, SetFacts
    <2> QED BY <1>2, <2>1, <2>2, SetKeepsValues DEF ParserStatus
  <1>3. CASE o \in FlagOptions /\ Set(o, <<"1">>)
    <2>1. o \notin IntOptions BY <1>3, FlagsAreNoInts
    <2>2. status' = status BY <1>3, SetFacts
    <2> QED BY <1>3, <2>1, <2>2, SetKeepsValues DEF ParserStatus
  <1>4. CASE /\ appended' = [appended EXCEPT ![o] = append(@, v)]
             /\ UNCHANGED <<values, leftover, status>>
    BY <1>4 DEF ValuesOK, IntOptions, StringOptions, FlagOptions,
       ItemOptions, ParserStatus
  <1> QED BY <1>1, <1>2, <1>3, <1>4 DEF process_opt

(* One argument more.                                                       *)
LEMMA ParseFacts ==
    ASSUME parser \in {SenderParser, ReceiverParser, ConnectorParser},
           ValuesOK, parse_args
    PROVE  /\ parser' = parser /\ status = "parsing"
           /\ ValuesOK' /\ status' \in ParserStatus
  <1>1. parser' = parser /\ status = "parsing"
    BY DEF parse_args, handle_long_opt, handle_short_opt, KeepArgument,
       EndOfOptions, Finish, HasNext
  <1>2. CASE Quit("usage error")
    BY <1>1, <1>2 DEF Quit, ValuesOK, IntOptions, StringOptions, FlagOptions,
       ItemOptions, ParserStatus
  <1>3. ASSUME \E o, v : process_opt(o, v)
        PROVE  ValuesOK' /\ status' \in ParserStatus
    <2>1. PICK o, v : process_opt(o, v) BY <1>3
    <2> QED BY <1>1, <2>1, ProcessFacts
  <1>4. CASE handle_long_opt
    <2>1. Quit("usage error") \/ \E o, v : process_opt(o, v)
      BY <1>4 DEF handle_long_opt
    <2> QED BY <1>1, <1>2, <1>3, <2>1
  <1>5. CASE handle_short_opt
    <2>1. Quit("usage error") \/ \E o, v : process_opt(o, v)
      BY <1>5 DEF handle_short_opt
    <2> QED BY <1>1, <1>2, <1>3, <2>1
  <1>6. CASE KeepArgument \/ EndOfOptions \/ Finish
    BY <1>1, <1>6 DEF KeepArgument, EndOfOptions, Finish, ValuesOK,
       IntOptions, StringOptions, FlagOptions, ItemOptions, ParserStatus
  <1> QED BY <1>1, <1>4, <1>5, <1>6 DEF parse_args

(* The type invariant, and that a handler was set up only of arguments that *)
(* are valid.                                                               *)
SetupInv ==
    /\ parser \in {SenderParser, ReceiverParser, ConnectorParser}
    /\ ValuesOK
    /\ status \in ParserStatus \union {"running"}
    /\ Running => client # <<>> /\ setup # <<>>
    /\ ~Running => client = <<>> /\ setup = <<>>
    /\ Running => ~Invalid /\ setup = SetupOf

(* validate() and run() read nothing else.                                  *)
LEMMA SameSetup ==
    ASSUME UNCHANGED <<parser, values, appended>>
    PROVE  Invalid' = Invalid /\ SetupOf' = SetupOf
  <1>1. Invalid' = Invalid
    BY DEF Invalid, ModernInvalid, SenderInvalid, ReceiverInvalid, IsSet, ValueOr,
           IsBoolean, IsTrue
  <1>2. SenderSetup' = SenderSetup
    BY DEF SenderSetup, setMessageOptions, Body, NumberOr, ValueOr, IsSet
  <1>3. ReceiverSetup' = ReceiverSetup
    BY DEF ReceiverSetup, NumberOr, ValueOr, IsSet, IsTrue, IsBoolean, ClientId
  <1>4. ConnectorSetup' = ConnectorSetup
    BY DEF ConnectorSetup, setConnectionOptions, NumberOr, ValueOr, IsSet
  <1> QED BY <1>1, <1>2, <1>3, <1>4 DEF SetupOf

(* A record with a field is not the empty sequence.                         *)
LEMMA RecordIsNoSequence ==
    ASSUME NEW r, NEW field, field \in DOMAIN r PROVE r # <<>>
  OBVIOUS

(* SetupInv, for every set of command lines.                                *)
THEOREM SetupCorrect == Spec => []SetupInv
  <1>1. Init => SetupInv
    <2> SUFFICES ASSUME Init PROVE SetupInv OBVIOUS
    <2>1. parser \in {SenderParser, ReceiverParser, ConnectorParser}
      BY CommandLinesAssumption DEF Init
    <2>2. /\ values = <<>> /\ appended = [o \in ItemOptions |-> <<>>]
          /\ status = "parsing" /\ client = <<>> /\ setup = <<>>
      BY DEF Init, ParserInit, ItemOptions
    <2>3. ValuesOK BY <2>2 DEF ValuesOK
    <2> QED BY <2>1, <2>2, <2>3 DEF SetupInv, ParserStatus, Running
  <1>2. SetupInv /\ [Next]_vars => SetupInv'
    <2> SUFFICES ASSUME SetupInv, [Next]_vars PROVE SetupInv' OBVIOUS
    <2>1. CASE parse_args /\ UNCHANGED <<line, client, setup>>
      <3>1. /\ parser' = parser /\ status = "parsing"
            /\ ValuesOK' /\ status' \in ParserStatus
        BY <2>1, ParseFacts DEF SetupInv
      <3>2. client = <<>> /\ setup = <<>> BY <3>1 DEF SetupInv, Running
      <3>3. ~Running' BY <3>1 DEF Running, ParserStatus
      <3> QED BY <2>1, <3>1, <3>2, <3>3 DEF SetupInv
    <2>2. CASE run
      <3>1. /\ UNCHANGED <<parser, values, appended>> /\ status = "parsed"
        BY <2>2 DEF run, Quit
      <3>2. ValuesOK'
        BY <3>1 DEF SetupInv, ValuesOK, IntOptions, StringOptions,
           FlagOptions, ItemOptions
      <3>3. CASE Quit("invalid") /\ UNCHANGED <<client, setup>>
        <4>1. status' = "invalid" BY <3>3 DEF Quit
        <4>2. client = <<>> /\ setup = <<>> BY <3>1 DEF SetupInv, Running
        <4> QED BY <3>1, <3>2, <3>3, <4>1, <4>2
                DEF SetupInv, Running, ParserStatus
      <3>4. CASE /\ ~Invalid
                 /\ status' = "running"
                 /\ client' = ClientOf(ValueOr("broker-url", <<>>))
                 /\ setup' = SetupOf
        <4>1. client' # <<>>
          <5>1. "address" \in DOMAIN client' BY <3>4 DEF ClientOf
          <5> QED BY <5>1, RecordIsNoSequence
        <4>2. parser.name \in {"sender", "receiver", "connector"}
          BY DEF SetupInv, SenderParser, ReceiverParser, ConnectorParser, Parser
        <4>3. setup' # <<>>
          <5>1. CASE parser.name = "sender"
            <6>1. "timeout" \in DOMAIN setup'
              BY <3>4, <5>1 DEF SetupOf, SenderSetup
            <6> QED BY <6>1, RecordIsNoSequence
          <5>2. CASE parser.name = "receiver"
            <6>1. "timeout" \in DOMAIN setup'
              BY <3>4, <5>2 DEF SetupOf, ReceiverSetup
            <6> QED BY <6>1, RecordIsNoSequence
          <5>3. CASE parser.name = "connector"
            <6>1. "timeout" \in DOMAIN setup'
              BY <3>4, <5>3 DEF SetupOf, ConnectorSetup
            <6> QED BY <6>1, RecordIsNoSequence
          <5> QED BY <4>2, <5>1, <5>2, <5>3
        <4>4. ~Invalid' /\ setup' = SetupOf'
          <5>1. Invalid' = Invalid /\ SetupOf' = SetupOf BY <3>1, SameSetup
          <5> QED BY <3>4, <5>1
        <4> QED BY <3>1, <3>2, <3>4, <4>1, <4>3, <4>4 DEF SetupInv, Running
      <3> QED BY <2>2, <3>3, <3>4 DEF run
    <2>3. CASE UNCHANGED vars
      <3>1. UNCHANGED <<parser, values, appended, status, client, setup>>
        BY <2>3 DEF vars, parserVars
      <3>2. Invalid' = Invalid /\ SetupOf' = SetupOf BY <3>1, SameSetup
      <3> QED BY <3>1, <3>2 DEF SetupInv, ValuesOK, Running, IntOptions,
         StringOptions, FlagOptions, ItemOptions
    <2> QED BY <2>1, <2>2, <2>3 DEF Next, Exited
  <1> QED BY <1>1, <1>2, PTL DEF Spec

(* TypeOK, for every set of command lines.                                  *)
THEOREM TypeCorrect == Spec => []TypeOK
  <1>1. SetupInv => TypeOK
    BY DEF SetupInv, ValuesOK, ParserStatus, Running, TypeOK
  <1> QED BY <1>1, SetupCorrect, PTL

(* DividesSafely, for every set of command lines: validate and run read the *)
(* batch size in different ways, one as a number above 0 and one with a      *)
(* default for what is no number, and agree because the parser lets only    *)
(* numbers through.                                                         *)
THEOREM DividesSafelyCorrect == Spec => []DividesSafely
  <1>1. SetupInv => DividesSafely
    <2> SUFFICES ASSUME SetupInv, Running, parser.name = "receiver"
                 PROVE  setup.msg_action_size[1] \in Positive
      BY DEF DividesSafely
    <2>1. /\ ~ReceiverInvalid
          /\ setup.msg_action_size = NumberOr("action-size", "1")
      <3>1. ~Invalid /\ setup = SetupOf BY DEF SetupInv
      <3>2. ~ReceiverInvalid BY <3>1 DEF Invalid
      <3>3. SetupOf = ReceiverSetup BY DEF SetupOf
      <3> QED BY <3>1, <3>2, <3>3 DEF ReceiverSetup
    <2>2. CASE ~IsSet("action-size")
      BY <2>1, <2>2, PositiveAssumption DEF NumberOr
    <2>3. CASE IsSet("action-size")
      <3>1. parser = ReceiverParser
        BY DEF SetupInv, SenderParser, ReceiverParser, ConnectorParser, Parser
      <3>2. "action-size" \in IntOptions
        BY <3>1 DEF ReceiverParser, Parser, IntOptions
      <3>3. values["action-size"][1] \in Numerals
        BY <2>3, <3>2 DEF SetupInv, ValuesOK, IsSet
      <3>4. values["action-size"][1] \in Positive
        BY <2>1, <2>3 DEF ReceiverInvalid
      <3>5. NumberOr("action-size", "1") = values["action-size"]
        BY <2>3, <3>3 DEF NumberOr, Number, Value
      <3> QED BY <2>1, <3>4, <3>5
    <2> QED BY <2>2, <2>3
  <1> QED BY <1>1, SetupCorrect, PTL
-----------------------------------------------------------------------------
(* The options of a parser.                                                 *)

(* No option is in two classes, and every letter is that of an option with  *)
(* a value, or of help.                                                     *)
LEMMA ClassFacts ==
    ASSUME parser \in {SenderParser, ReceiverParser, ConnectorParser}
    PROVE  /\ (IntOptions \union StringOptions) \intersect FlagOptions = {}
           /\ (IntOptions \union StringOptions) \intersect ItemOptions = {}
           /\ (IntOptions \union StringOptions) \intersect Exiting = {}
           /\ FlagOptions \intersect ItemOptions = {}
           /\ FlagOptions \intersect Exiting = {}
           /\ ItemOptions \intersect Exiting = {}
  <1>1. CASE parser = SenderParser
    BY <1>1 DEF SenderParser, Parser, ModernInts, ModernStrings,
         ModernFlags, IntOptions, StringOptions, FlagOptions, ItemOptions, Exiting
  <1>2. CASE parser = ReceiverParser
    BY <1>2 DEF ReceiverParser, Parser, ModernInts, ModernStrings,
         ModernFlags, IntOptions, StringOptions, FlagOptions, ItemOptions, Exiting
  <1>3. CASE parser = ConnectorParser
    BY <1>3 DEF ConnectorParser, Parser, ModernInts, ModernStrings,
         ModernFlags, IntOptions, StringOptions, FlagOptions, ItemOptions, Exiting
  <1> QED BY <1>1, <1>2, <1>3

(* The letters.                                                             *)
Letters == {"b", "u", "p", "c", "h"}

(* Every letter is that of one option with a value, or of help.             *)
LEMMA LetterFacts ==
    ASSUME parser \in {SenderParser, ReceiverParser, ConnectorParser}
    PROVE  /\ DOMAIN ShortOpts = Letters
           /\ \A l \in Letters : l # "-" /\ ShortOpts[l] \in Valued \union Exiting
           /\ \A l, k \in Letters : ShortOpts[l] = ShortOpts[k] => l = k
  <1>1. ShortOpts = ModernShort
    BY DEF ShortOpts, SenderParser, ReceiverParser, ConnectorParser, Parser
  <1>2. {"count", "broker-url", "user", "password"} \subseteq Valued
    BY DEF SenderParser, ReceiverParser, ConnectorParser, Parser, ModernStrings,
           Valued, IntOptions, StringOptions
  <1> QED BY <1>1, <1>2 DEF ModernShort, Letters, Exiting
-----------------------------------------------------------------------------
(* Arguments.                                                               *)

(* The symbols: strings, as these literals are.                             *)
Symbols == STRING \union {"-", "=", ";", "'"} \union Letters

(* They are symbols.                                                        *)
LEMMA SymbolFacts ==
    /\ "-" \in Symbols /\ "=" \in Symbols /\ ";" \in Symbols /\ "'" \in Symbols
    /\ STRING \subseteq Symbols
    /\ Letters \subseteq Symbols
  BY Zenon DEF Symbols

(* The sequence of one.                                                     *)
LEMMA OneFacts ==
    ASSUME NEW S, NEW a \in S
    PROVE  <<a>> \in Seq(S) /\ Len(<<a>>) = 1 /\ <<a>>[1] = a
  OBVIOUS

(* Two texts one behind the other.                                          *)
LEMMA BothFacts ==
    ASSUME NEW s \in Seq(Symbols), NEW r \in Seq(Symbols)
    PROVE  /\ s \o r \in Seq(Symbols) /\ Len(s \o r) = Len(s) + Len(r)
           /\ \A i \in 1..Len(s) : (s \o r)[i] = s[i]
           /\ \A i \in 1..Len(r) : (s \o r)[Len(s) + i] = r[i]
  <1> DEFINE b == s \o r
  <1>1. /\ b \in Seq(Symbols) /\ Len(b) = Len(s) + Len(r)
        /\ \A i \in 1..(Len(s) + Len(r)) : b[i] = IF i <= Len(s) THEN s[i] ELSE r[i - Len(s)]
    BY ConcatProperties
  <1>2. Len(s) \in Nat /\ Len(r) \in Nat OBVIOUS
  <1> HIDE DEF b
  <1>3. \A i \in 1..Len(s) : b[i] = s[i] BY <1>1, <1>2
  <1>4. \A i \in 1..Len(r) : b[Len(s) + i] = r[i]
    <2> SUFFICES ASSUME NEW i \in 1..Len(r) PROVE b[Len(s) + i] = r[i] OBVIOUS
    <2>1. /\ Len(s) + i \in 1..(Len(s) + Len(r)) /\ ~(Len(s) + i <= Len(s))
          /\ (Len(s) + i) - Len(s) = i
      BY <1>2
    <2> QED BY <1>1, <2>1
  <1> QED BY <1>1, <1>3, <1>4 DEF b

(* The sequence of two.                                                     *)
LEMMA TwoFacts ==
    ASSUME NEW S, NEW a \in S, NEW b \in S
    PROVE  <<a, b>> \in Seq(S) /\ Len(<<a, b>>) = 2 /\ <<a, b>>[1] = a /\ <<a, b>>[2] = b
  OBVIOUS

(* The sequence of three.                                                   *)
LEMMA ThreeFacts ==
    ASSUME NEW S, NEW a \in S, NEW b \in S, NEW c \in S
    PROVE  /\ <<a, b, c>> \in Seq(S) /\ Len(<<a, b, c>>) = 3
           /\ <<a, b, c>>[1] = a /\ <<a, b, c>>[2] = b /\ <<a, b, c>>[3] = c
  OBVIOUS

(* What is cut out of a text.                                               *)
LEMMA CutFacts ==
    ASSUME NEW s \in Seq(Symbols), NEW m \in 1..(Len(s) + 1), NEW n \in 0..Len(s),
           m <= n + 1
    PROVE  /\ SubSeq(s, m, n) \in Seq(Symbols)
           /\ Len(SubSeq(s, m, n)) = n - m + 1
           /\ \A i \in 1..(n - m + 1) : SubSeq(s, m, n)[i] = s[m + i - 1]
  <1>1. \A i \in m..n : s[i] \in Symbols OBVIOUS
  <1>2. m \in Int /\ n \in Int OBVIOUS
  <1>3. /\ SubSeq(s, m, n) \in Seq(Symbols)
        /\ Len(SubSeq(s, m, n)) = IF m <= n THEN n - m + 1 ELSE 0
        /\ \A i \in 1..(n - m + 1) : SubSeq(s, m, n)[i] = s[m + i - 1]
    BY <1>1, SubSeqProperties
  <1> HIDE DEF Symbols
  <1>4. (IF m <= n THEN n - m + 1 ELSE 0) = n - m + 1 BY <1>2
  <1> QED BY <1>3, <1>4

(* Of an argument only one of four kinds is true.                           *)
LEMMA ArgumentKinds ==
    ASSUME NEW arg \in Seq(Symbols)
    PROVE  /\ IsLong(arg) <=> Len(arg) > 2 /\ arg[1] = "-" /\ arg[2] = "-"
           /\ IsEnd(arg) <=> Len(arg) = 2 /\ arg[1] = "-" /\ arg[2] = "-"
           /\ IsLong(arg) => ~IsEnd(arg) /\ ~IsShort(arg) /\ ~IsPlain(arg)
           /\ IsShort(arg) => ~IsEnd(arg) /\ ~IsLong(arg) /\ ~IsPlain(arg)
           /\ IsEnd(arg) => ~IsLong(arg) /\ ~IsShort(arg) /\ ~IsPlain(arg)
           /\ IsPlain(arg) => ~IsEnd(arg) /\ ~IsLong(arg) /\ ~IsShort(arg)
  <1> DEFINE two == SubSeq(arg, 1, 2)
             end == <<"-", "-">>
  <1>1. end \in Seq(Symbols) /\ Len(end) = 2 /\ end[1] = "-" /\ end[2] = "-"
    BY SymbolFacts, TwoFacts, Zenon
  <1>2. \A s \in Seq(Symbols) :
            s = end <=> Len(s) = 2 /\ s[1] = "-" /\ s[2] = "-"
    <2> SUFFICES ASSUME NEW s \in Seq(Symbols), Len(s) = 2, s[1] = "-", s[2] = "-"
                 PROVE  s = end
      BY <1>1
    <2> HIDE DEF end
    <2>1. \A i \in 1..Len(s) : i = 1 \/ i = 2 OBVIOUS
    <2>2. \A i \in 1..Len(s) : s[i] = end[i] BY <1>1, <2>1
    <2> QED BY <1>1, <2>2, SeqEqual
  <1>3. ASSUME Len(arg) > 2
        PROVE  two = end <=> arg[1] = "-" /\ arg[2] = "-"
    <2>1. /\ two \in Seq(Symbols) /\ Len(two) = 2
          /\ \A i \in 1..2 : two[i] = arg[i]
      <3>1. 1 \in 1..(Len(arg) + 1) /\ 2 \in 0..Len(arg) BY <1>3
      <3>2. /\ two \in Seq(Symbols) /\ Len(two) = 2 - 1 + 1
            /\ \A i \in 1..(2 - 1 + 1) : two[i] = arg[1 + i - 1]
        BY <3>1, CutFacts
      <3> HIDE DEF two
      <3> QED BY <3>2
    <2> HIDE DEF two, end
    <2> QED BY <1>2, <2>1
  <1>4. IsLong(arg) <=> Len(arg) > 2 /\ arg[1] = "-" /\ arg[2] = "-"
    BY <1>3 DEF IsLong
  <1>5. IsEnd(arg) <=> Len(arg) = 2 /\ arg[1] = "-" /\ arg[2] = "-"
    BY <1>2 DEF IsEnd
  <1>6. IsShort(arg) => arg[2] # "-" BY DEF IsShort
  <1>7. IsPlain(arg) <=> ~(IsEnd(arg) \/ IsLong(arg) \/ IsShort(arg)) BY DEF IsPlain
  <1> HIDE DEF two, end
  <1>8. Len(arg) > 2 => Len(arg) # 2
    <2>1. Len(arg) \in Nat OBVIOUS
    <2>2. \A n \in Nat : n > 2 => n # 2 OBVIOUS
    <2> QED BY <2>1, <2>2, Zenon
  <1> QED BY <1>4, <1>5, <1>6, <1>7, <1>8, Zenon

(* A long option without a value behind it.                                 *)
LEMMA LongBare ==
    ASSUME NEW o \in Symbols
    PROVE  LET arg == <<"-", "-", o>>
           IN  /\ arg \in Seq(Symbols)
               /\ IsLong(arg)
               /\ From(arg, 2) = <<o>>
               /\ o # "=" => Find(From(arg, 2), <<"=">>, 0) = NPOS
  <1> DEFINE arg == <<"-", "-", o>>
             one == <<o>>
             cut == From(arg, 2)
  <1>1. /\ arg \in Seq(Symbols) /\ Len(arg) = 3
        /\ arg[1] = "-" /\ arg[2] = "-" /\ arg[3] = o
    BY SymbolFacts, ThreeFacts, Zenon
  <1>2. one \in Seq(Symbols) /\ Len(one) = 1 /\ one[1] = o OBVIOUS
  <1> HIDE DEF arg, one
  <1>3. IsLong(arg) BY <1>1, ArgumentKinds
  <1>4. cut = one
    <2>1. /\ cut \in Seq(Symbols) /\ Len(cut) = 3 - 3 + 1
          /\ \A i \in 1..(3 - 3 + 1) : cut[i] = arg[3 + i - 1]
      <3>1. 3 \in 1..(Len(arg) + 1) /\ 3 \in 0..Len(arg) BY <1>1
      <3>2. cut = SubSeq(arg, 3, 3) BY <1>1 DEF From
      <3> HIDE DEF cut
      <3>3. /\ SubSeq(arg, 3, 3) \in Seq(Symbols) /\ Len(SubSeq(arg, 3, 3)) = 3 - 3 + 1
            /\ \A i \in 1..(3 - 3 + 1) : SubSeq(arg, 3, 3)[i] = arg[3 + i - 1]
        BY <1>1, <3>1, CutFacts
      <3> QED BY <3>2, <3>3
    <2> HIDE DEF cut
    <2>2. cut[1] = o /\ Len(cut) = 1 BY <1>1, <2>1
    <2>3. \A i \in 1..1 : cut[i] = one[i] BY <1>2, <2>2
    <2> QED BY <1>2, <2>1, <2>2, <2>3, SeqEqual
  <1>5. ASSUME o # "=" PROVE Find(one, <<"=">>, 0) = NPOS
    <2>1. \/ Find(one, <<"=">>, 0) = NPOS
          \/ /\ Find(one, <<"=">>, 0) \in 0..(Len(one) - 1)
             /\ one[Find(one, <<"=">>, 0) + 1] = "="
      BY <1>2, FindFacts
    <2> DEFINE at == Find(one, <<"=">>, 0)
    <2> HIDE DEF at
    <2>2. at = NPOS \/ (at \in 0..(Len(one) - 1) /\ one[at + 1] = "=")
      BY <2>1 DEF at
    <2>3. at # NPOS => at = 0 BY <1>2, <2>2
    <2>4. at = NPOS BY <1>2, <1>5, <2>2, <2>3
    <2> QED BY <2>4 DEF at
  <1> QED BY <1>1, <1>3, <1>4, <1>5 DEF arg, one

(* A long option with a value behind an equals sign.                        *)
LEMMA LongGiven ==
    ASSUME NEW o \in Symbols, o # "=", NEW v \in Seq(Symbols)
    PROVE  LET arg == <<"-", "-", o>> \o <<"=">> \o v
               optstr == From(arg, 2)
           IN  /\ arg \in Seq(Symbols)
               /\ IsLong(arg)
               /\ Find(optstr, <<"=">>, 0) = 1
               /\ Substr(optstr, 0, 1) = <<o>>
               /\ From(optstr, 2) = v
  <1> DEFINE long == <<"-", "-", o>>
             equals == <<"=">>
             head == long \o equals
             arg == head \o v
             optstr == From(arg, 2)
  <1>1. /\ long \in Seq(Symbols) /\ Len(long) = 3
        /\ long[1] = "-" /\ long[2] = "-" /\ long[3] = o
    BY SymbolFacts, ThreeFacts, Zenon
  <1>2. equals \in Seq(Symbols) /\ Len(equals) = 1 /\ equals[1] = "="
    BY SymbolFacts, OneFacts, Zenon
  <1> HIDE DEF long, equals
  <1>3. /\ head \in Seq(Symbols) /\ Len(head) = 4
        /\ head[1] = "-" /\ head[2] = "-" /\ head[3] = o /\ head[4] = "="
    <2>1. /\ head \in Seq(Symbols) /\ Len(head) = Len(long) + Len(equals)
          /\ \A i \in 1..Len(long) : head[i] = long[i]
          /\ \A i \in 1..Len(equals) : head[Len(long) + i] = equals[i]
      BY <1>1, <1>2, BothFacts, Zenon
    <2> HIDE DEF head
    <2> QED BY <1>1, <1>2, <2>1
  <1> HIDE DEF head
  <1>4. /\ arg \in Seq(Symbols) /\ Len(arg) = 4 + Len(v)
        /\ arg[1] = "-" /\ arg[2] = "-" /\ arg[3] = o /\ arg[4] = "="
        /\ \A i \in 1..Len(v) : arg[4 + i] = v[i]
    <2>1. /\ arg \in Seq(Symbols) /\ Len(arg) = Len(head) + Len(v)
          /\ \A i \in 1..Len(head) : arg[i] = head[i]
          /\ \A i \in 1..Len(v) : arg[Len(head) + i] = v[i]
      BY <1>3, BothFacts, Zenon
    <2> HIDE DEF arg
    <2> QED BY <1>3, <2>1
  <1>5. Len(v) \in Nat OBVIOUS
  <1> HIDE DEF arg
  <1>6. IsLong(arg) BY <1>4, <1>5, ArgumentKinds
  <1>7. /\ optstr \in Seq(Symbols) /\ Len(optstr) = 2 + Len(v)
        /\ \A i \in 1..(2 + Len(v)) : optstr[i] = arg[2 + i]
    <2>1. 3 \in 1..(Len(arg) + 1) /\ Len(arg) \in 0..Len(arg) /\ 3 <= Len(arg) + 1
      BY <1>4, <1>5
    <2>2. optstr = SubSeq(arg, 3, Len(arg)) BY DEF From
    <2> HIDE DEF optstr
    <2>3. /\ optstr \in Seq(Symbols) /\ Len(optstr) = Len(arg) - 3 + 1
          /\ \A i \in 1..(Len(arg) - 3 + 1) : optstr[i] = arg[3 + i - 1]
      BY <1>4, <2>1, <2>2, CutFacts
    <2> QED BY <1>4, <1>5, <2>3
  <1> HIDE DEF optstr
  <1>8. optstr[1] = o /\ optstr[2] = "=" /\ \A i \in 1..Len(v) : optstr[2 + i] = v[i]
    <2>1. optstr[1] = arg[3] /\ optstr[2] = arg[4] BY <1>5, <1>7
    <2>2. \A i \in 1..Len(v) : optstr[2 + i] = arg[4 + i] BY <1>5, <1>7
    <2> QED BY <1>4, <2>1, <2>2
  <1>9. Find(optstr, <<"=">>, 0) = 1
    <2> DEFINE at == Find(optstr, <<"=">>, 0)
    <2>1. \/ at = -1 /\ \A i \in 1..Len(optstr) : optstr[i] # "="
          \/ /\ at \in 0..(Len(optstr) - 1) /\ optstr[at + 1] = "="
             /\ \A i \in 1..at : optstr[i] # "="
      BY <1>7, FindFacts DEF NPOS
    <2> HIDE DEF at
    <2>2. 2 \in 1..Len(optstr) BY <1>5, <1>7
    <2>3. at \in 0..(Len(optstr) - 1) /\ at # 0 /\ ~(2 \in 1..at) BY <1>8, <2>1, <2>2
    <2>4. at = 1 BY <1>5, <1>7, <2>3
    <2> QED BY <2>4 DEF at
  <1>10. Substr(optstr, 0, 1) = <<o>>
    <2> DEFINE one == <<o>>
               cut == SubSeq(optstr, 1, 1)
    <2>1. one \in Seq(Symbols) /\ Len(one) = 1 /\ one[1] = o OBVIOUS
    <2>2. 1 \in 0..Len(optstr) /\ 1 \in 1..(Len(optstr) + 1) BY <1>5, <1>7
    <2>3. Substr(optstr, 0, 1) = cut BY <1>7, <2>2, SubstrFacts
    <2>4. /\ cut \in Seq(Symbols) /\ Len(cut) = 1 - 1 + 1
          /\ \A i \in 1..(1 - 1 + 1) : cut[i] = optstr[1 + i - 1]
      BY <1>7, <2>2, CutFacts
    <2> HIDE DEF one, cut
    <2>5. Len(cut) = 1 /\ cut[1] = o BY <1>8, <2>4
    <2>6. \A i \in 1..1 : cut[i] = one[i] BY <2>1, <2>5
    <2>7. cut = one BY <2>1, <2>4, <2>5, <2>6, SeqEqual
    <2> QED BY <2>3, <2>7 DEF one
  <1>11. From(optstr, 2) = v
    <2> DEFINE cut == From(optstr, 2)
    <2>1. 3 \in 1..(Len(optstr) + 1) /\ Len(optstr) \in 0..Len(optstr)
          /\ 3 <= Len(optstr) + 1
      BY <1>5, <1>7
    <2>2. cut = SubSeq(optstr, 3, Len(optstr)) BY DEF From
    <2> HIDE DEF cut
    <2>3. /\ cut \in Seq(Symbols) /\ Len(cut) = Len(optstr) - 3 + 1
          /\ \A i \in 1..(Len(optstr) - 3 + 1) : cut[i] = optstr[3 + i - 1]
      BY <1>7, <2>1, <2>2, CutFacts
    <2>4. Len(cut) = Len(v) /\ \A i \in 1..Len(v) : cut[i] = optstr[2 + i]
      BY <1>5, <1>7, <2>3
    <2>5. \A i \in 1..Len(v) : cut[i] = v[i] BY <1>8, <2>4
    <2>6. cut = v BY <2>3, <2>4, <2>5, SeqEqual
    <2> QED BY <2>6 DEF cut
  <1>12. /\ arg \in Seq(Symbols) /\ IsLong(arg) BY <1>4, <1>6
  <1> QED BY <1>9, <1>10, <1>11, <1>12 DEF arg, head, long, equals, optstr

(* A short option with a value joined to it, or none.                       *)
LEMMA ShortJoined ==
    ASSUME NEW l \in Symbols, l # "-", NEW v \in Seq(Symbols)
    PROVE  LET arg == <<"-", l>> \o v
           IN  /\ arg \in Seq(Symbols)
               /\ IsShort(arg)
               /\ arg[2] = l
               /\ From(arg, 2) = v
  <1> DEFINE short == <<"-", l>>
             arg == short \o v
             cut == From(arg, 2)
  <1>1. /\ short \in Seq(Symbols) /\ Len(short) = 2
        /\ short[1] = "-" /\ short[2] = l
    BY SymbolFacts, TwoFacts, Zenon
  <1> HIDE DEF short
  <1>2. /\ arg \in Seq(Symbols) /\ Len(arg) = 2 + Len(v)
        /\ arg[1] = "-" /\ arg[2] = l
        /\ \A i \in 1..Len(v) : arg[2 + i] = v[i]
    <2>1. /\ arg \in Seq(Symbols) /\ Len(arg) = Len(short) + Len(v)
          /\ \A i \in 1..Len(short) : arg[i] = short[i]
          /\ \A i \in 1..Len(v) : arg[Len(short) + i] = v[i]
      BY <1>1, BothFacts, Zenon
    <2> HIDE DEF arg
    <2> QED BY <1>1, <2>1
  <1>3. Len(v) \in Nat OBVIOUS
  <1> HIDE DEF arg
  <1>4. IsShort(arg) BY <1>2, <1>3 DEF IsShort
  <1>5. 3 \in 1..(Len(arg) + 1) /\ Len(arg) \in 0..Len(arg) /\ 3 <= Len(arg) + 1
    BY <1>2, <1>3
  <1>6. cut = SubSeq(arg, 3, Len(arg)) BY DEF From
  <1> HIDE DEF cut
  <1>7. /\ cut \in Seq(Symbols) /\ Len(cut) = Len(arg) - 3 + 1
        /\ \A i \in 1..(Len(arg) - 3 + 1) : cut[i] = arg[3 + i - 1]
    BY <1>2, <1>5, <1>6, CutFacts
  <1>8. Len(cut) = Len(v) /\ \A i \in 1..Len(v) : cut[i] = arg[2 + i]
    BY <1>2, <1>3, <1>7
  <1>9. \A i \in 1..Len(v) : cut[i] = v[i] BY <1>2, <1>8
  <1>10. cut = v BY <1>7, <1>8, <1>9, SeqEqual
  <1> QED BY <1>2, <1>4, <1>10 DEF arg, short, cut
-----------------------------------------------------------------------------
(* One setting.                                                             *)

Arguments == Seq(Symbols)

(* The next argument, and those behind it.                                  *)
LEMMA OneAhead ==
    ASSUME NEW a \in Arguments, NEW rest \in Seq(Arguments)
    PROVE  LET r == <<a>> \o rest
           IN  /\ r \in Seq(Arguments) /\ r # <<>> /\ Len(r) = 1 + Len(rest)
               /\ Head(r) = a /\ Tail(r) = rest /\ From(r, 1) = rest
  <1> DEFINE one == <<a>>
             r == one \o rest
  <1>1. one \in Seq(Arguments) /\ Len(one) = 1 /\ one[1] = a OBVIOUS
  <1> HIDE DEF one
  <1>2. /\ r \in Seq(Arguments) /\ Len(r) = 1 + Len(rest)
        /\ \A i \in 1..(1 + Len(rest)) : r[i] = IF i <= 1 THEN one[i] ELSE rest[i - 1]
    <2>1. /\ r \in Seq(Arguments) /\ Len(r) = Len(one) + Len(rest)
          /\ \A i \in 1..(Len(one) + Len(rest)) :
                 r[i] = IF i <= Len(one) THEN one[i] ELSE rest[i - Len(one)]
      BY <1>1, ConcatProperties
    <2> HIDE DEF r
    <2> QED BY <1>1, <2>1
  <1>3. Len(rest) \in Nat OBVIOUS
  <1> HIDE DEF r, Arguments
  <1>4. r # <<>> /\ Head(r) = a BY <1>1, <1>2, <1>3
  <1>5. /\ Tail(r) \in Seq(Arguments) /\ Len(Tail(r)) = Len(rest)
        /\ \A i \in 1..Len(rest) : Tail(r)[i] = r[i + 1]
    BY <1>2, <1>3, <1>4
  <1>6. \A i \in 1..Len(rest) : Tail(r)[i] = rest[i]
    <2> SUFFICES ASSUME NEW i \in 1..Len(rest) PROVE Tail(r)[i] = rest[i] OBVIOUS
    <2>1. i + 1 \in 1..(1 + Len(rest)) /\ ~(i + 1 <= 1) /\ (i + 1) - 1 = i BY <1>3
    <2> QED BY <1>2, <1>5, <2>1
  <1>7. Tail(r) = rest BY <1>5, <1>6, SeqEqual
  <1>8. From(r, 1) = Tail(r)
    <2>1. From(r, 1) = SubSeq(r, 2, Len(r)) BY DEF From
    <2> QED BY <1>2, <1>4, <2>1, HeadTailProperties
  <1> QED BY <1>2, <1>4, <1>7, <1>8 DEF r, one

(* The two next arguments, and those behind them.                           *)
LEMMA TwoAhead ==
    ASSUME NEW a \in Arguments, NEW b \in Arguments, NEW rest \in Seq(Arguments)
    PROVE  LET r == <<a, b>> \o rest
           IN  /\ r \in Seq(Arguments) /\ r # <<>> /\ Len(r) = 2 + Len(rest)
               /\ Head(r) = a /\ r[2] = b /\ From(r, 2) = rest
  <1> DEFINE two == <<a, b>>
             r == two \o rest
  <1>1. two \in Seq(Arguments) /\ Len(two) = 2 /\ two[1] = a /\ two[2] = b OBVIOUS
  <1> HIDE DEF two
  <1>2. /\ r \in Seq(Arguments) /\ Len(r) = 2 + Len(rest)
        /\ \A i \in 1..(2 + Len(rest)) : r[i] = IF i <= 2 THEN two[i] ELSE rest[i - 2]
    BY <1>1, ConcatProperties
  <1>3. Len(rest) \in Nat OBVIOUS
  <1> HIDE DEF r, Arguments
  <1>4. r # <<>> /\ Head(r) = a /\ r[2] = b BY <1>1, <1>2, <1>3
  <1> DEFINE cut == SubSeq(r, 3, Len(r))
  <1>5. /\ cut \in Seq(Arguments) /\ Len(cut) = Len(rest)
        /\ \A i \in 1..Len(rest) : cut[i] = r[i + 2]
    <2>1. \A i \in 3..Len(r) : r[i] \in Arguments BY <1>2, <1>3
    <2>2. /\ cut \in Seq(Arguments)
          /\ Len(cut) = IF 3 <= Len(r) THEN Len(r) - 3 + 1 ELSE 0
          /\ \A i \in 1..(Len(r) - 3 + 1) : cut[i] = r[3 + i - 1]
      BY <1>2, <1>3, <2>1, SubSeqProperties
    <2> HIDE DEF cut
    <2> QED BY <1>2, <1>3, <2>2
  <1> HIDE DEF cut
  <1>6. \A i \in 1..Len(rest) : cut[i] = rest[i]
    <2> SUFFICES ASSUME NEW i \in 1..Len(rest) PROVE cut[i] = rest[i] OBVIOUS
    <2>1. i + 2 \in 1..(2 + Len(rest)) /\ ~(i + 2 <= 2) /\ (i + 2) - 2 = i BY <1>3
    <2> QED BY <1>2, <1>5, <2>1
  <1>7. cut = rest BY <1>5, <1>6, SeqEqual
  <1>8. From(r, 2) = cut BY DEF From, cut
  <1> QED BY <1>2, <1>4, <1>7, <1>8 DEF r, two

(* The next argument chooses the handler.                                   *)
LEMMA HandlerFacts ==
    ASSUME remaining \in Seq(Arguments), remaining # <<>>, parse_args
    PROVE  /\ parser' = parser /\ status = "parsing"
           /\ IsLong(Head(remaining)) => handle_long_opt
           /\ IsShort(Head(remaining)) => handle_short_opt
           /\ IsPlain(Head(remaining)) => KeepArgument
           /\ IsEnd(Head(remaining)) => EndOfOptions
  <1> DEFINE arg == Head(remaining)
  <1>1. arg \in Seq(Symbols)
    <2>1. arg \in Arguments
      <3> HIDE DEF Arguments
      <3> QED OBVIOUS
    <2> QED BY <2>1 DEF Arguments
  <1>2. /\ IsLong(arg) => ~IsEnd(arg) /\ ~IsShort(arg) /\ ~IsPlain(arg)
        /\ IsShort(arg) => ~IsEnd(arg) /\ ~IsLong(arg) /\ ~IsPlain(arg)
        /\ IsEnd(arg) => ~IsLong(arg) /\ ~IsShort(arg) /\ ~IsPlain(arg)
        /\ IsPlain(arg) => ~IsEnd(arg) /\ ~IsLong(arg) /\ ~IsShort(arg)
    <2> HIDE DEF arg
    <2> QED BY <1>1, ArgumentKinds
  <1>3. /\ handle_long_opt => IsLong(arg) /\ status = "parsing"
        /\ handle_short_opt => IsShort(arg) /\ status = "parsing"
        /\ KeepArgument => IsPlain(arg) /\ status = "parsing"
        /\ EndOfOptions => IsEnd(arg) /\ status = "parsing"
        /\ ~Finish
    BY DEF handle_long_opt, handle_short_opt, KeepArgument, EndOfOptions, Finish, HasNext
  <1>4. /\ parser' = parser
        /\ \/ handle_long_opt \/ handle_short_opt \/ KeepArgument \/ EndOfOptions
           \/ Finish
    BY DEF parse_args
  <1> HIDE DEF arg
  <1> QED BY <1>2, <1>3, <1>4, Zenon DEF arg

(* What a setting does.                                                     *)
Does(setting) ==
    \/ /\ setting.option \in IntOptions \union StringOptions
       /\ Set(setting.option, setting.value)
    \/ /\ setting.option \in FlagOptions
       /\ Set(setting.option, <<"1">>)
    \/ /\ setting.option \in ItemOptions
       /\ appended' = [appended EXCEPT ![setting.option] = append(@, setting.value)]
       /\ UNCHANGED <<values, leftover, status>>

Obeys(setting) ==
    /\ Stops(setting) =>
           Quit(IF setting.option \in Exiting THEN "success" ELSE "usage error")
    /\ ~Stops(setting) => Does(setting)

(* An option the parser knows, with its value.                              *)
LEMMA ProcessObeys ==
    ASSUME parser \in {SenderParser, ReceiverParser, ConnectorParser},
           NEW setting, NEW v, setting.option \in LongOpts,
           setting.option \in Valued => v = setting.value,
           setting.style # "letter",
           setting.style \in {"equals", "next", "bare"} => ~Missing(setting.option, v),
           process_opt(setting.option, v)
    PROVE  Obeys(setting)
  <1> DEFINE o == setting.option
  <1>1. /\ Valued = IntOptions \union StringOptions \union ItemOptions
        /\ LongOpts = Valued \union FlagOptions \union Exiting
    BY DEF Valued, LongOpts
  <1>2. Wrong(setting) <=> o \in IntOptions /\ ~TypeChecks(o, setting.value)
    <2>1. /\ o \in Valued \ {"msg-content-list-item"}
          /\ setting.value = <<>>
          /\ setting.style \in {"equals", "next", "bare"}
          => FALSE
      BY DEF Missing
    <2> QED BY <2>1 DEF Wrong, TypeChecks
  <1>3. CASE o \in Exiting
    <2>1. ~(o \in IntOptions \union StringOptions \union FlagOptions \union ItemOptions)
      BY <1>3, ClassFacts
    <2>2. Quit("success") BY <2>1, <1>3 DEF process_opt
    <2> QED BY <1>3, <2>2 DEF Obeys, Stops
  <1>4. CASE o \in IntOptions \union StringOptions
    <2>1. ~(o \in Exiting \union FlagOptions \union ItemOptions)
      BY <1>4, ClassFacts
    <2>2. v = setting.value BY <1>1, <1>4
    <2>3. IF TypeChecks(o, v) THEN Set(o, v) ELSE Quit("usage error")
      BY <2>1, <1>4 DEF process_opt
    <2>4. o \notin IntOptions => TypeChecks(o, v) BY DEF TypeChecks
    <2>5. CASE TypeChecks(o, v)
      <3>1. ~Stops(setting) BY <1>2, <2>1, <2>2, <2>5 DEF Stops
      <3> QED BY <1>4, <2>2, <2>3, <2>5, <3>1 DEF Obeys, Does
    <2>6. CASE ~TypeChecks(o, v)
      <3>1. Stops(setting) BY <1>2, <2>2, <2>4, <2>6 DEF Stops
      <3> QED BY <2>1, <2>3, <2>6, <3>1 DEF Obeys
    <2> QED BY <2>5, <2>6
  <1>5. CASE o \in FlagOptions
    <2>1. ~(o \in Exiting \union IntOptions \union StringOptions \union ItemOptions)
      BY <1>5, ClassFacts
    <2>2. Set(o, <<"1">>) BY <2>1, <1>5 DEF process_opt
    <2>3. ~Stops(setting) BY <1>2, <2>1 DEF Stops
    <2> QED BY <1>5, <2>2, <2>3 DEF Obeys, Does
  <1>6. CASE o \in ItemOptions
    <2>1. ~(o \in Exiting \union IntOptions \union StringOptions \union FlagOptions)
      BY <1>6, ClassFacts
    <2>2. /\ appended' = [appended EXCEPT ![o] = append(@, v)]
          /\ UNCHANGED <<values, leftover, status>>
      BY <2>1, <1>6 DEF process_opt
    <2>3. v = setting.value BY <1>1, <1>6
    <2>4. ~Stops(setting) BY <1>2, <2>1 DEF Stops
    <2> QED BY <1>6, <2>2, <2>3, <2>4 DEF Obeys, Does
  <1> QED BY <1>1, <1>3, <1>4, <1>5, <1>6

(* The option that handle_long_opt looks up by its name is that of the name. *)
LEMMA LookUp ==
    ASSUME NEW o
    PROVE  /\ (\E q \in LongOpts : <<o>> = <<q>>) <=> o \in LongOpts
           /\ o \in LongOpts => (CHOOSE q \in LongOpts : <<o>> = <<q>>) = o
  <1>1. \A q : <<o>> = <<q>> <=> o = q OBVIOUS
  <1> QED BY <1>1

(* A long option with a value behind an equals sign.                        *)
LEMMA LongGivenStep ==
    ASSUME handle_long_opt, NEW o \in Symbols, o # "=", NEW v \in Seq(Symbols),
           Head(remaining) = <<"-", "-", o>> \o <<"=">> \o v
    PROVE  /\ o \in LongOpts =>
                  /\ remaining' = From(remaining, 1)
                  /\ IF Missing(o, v) THEN Quit("usage error") ELSE process_opt(o, v)
           /\ o \notin LongOpts => Quit("usage error")
  <1> DEFINE optstr == From(Head(remaining), 2)
             delim == Find(optstr, <<"=">>, 0)
  <1>1. /\ delim = 1
        /\ Substr(optstr, 0, 1) = <<o>>
        /\ From(optstr, 2) = v
    BY LongGiven, Zenon
  <1> HIDE DEF optstr
  <1>2. LET given == delim # NPOS
            opt == IF given THEN Substr(optstr, 0, delim) ELSE optstr
            option == CHOOSE q \in LongOpts : opt = <<q>>
            next == TakesNext(option, given) /\ Len(remaining) > 1
            value == IF next THEN remaining[2]
                     ELSE IF given THEN From(optstr, delim + 1) ELSE <<>>
        IN  IF \E q \in LongOpts : opt = <<q>>
            THEN /\ remaining' = From(remaining, IF next THEN 2 ELSE 1)
                 /\ IF Missing(option, value) THEN Quit("usage error")
                                              ELSE process_opt(option, value)
            ELSE remaining' = Tail(remaining) /\ Quit("usage error")
    BY DEF handle_long_opt, optstr
  <1>3. 1 # NPOS /\ 1 + 1 = 2 BY DEF NPOS
  <1> HIDE DEF delim
  <1>4. LET option == CHOOSE q \in LongOpts : <<o>> = <<q>>
        IN  IF \E q \in LongOpts : <<o>> = <<q>>
            THEN /\ remaining' = From(remaining, 1)
                 /\ IF Missing(option, v) THEN Quit("usage error")
                                          ELSE process_opt(option, v)
            ELSE Quit("usage error")
    BY <1>1, <1>2, <1>3, Zenon DEF TakesNext
  <1> QED BY <1>4, LookUp, Zenon

(* A long option alone: it takes the next argument, if there is one, for its *)
(* value.                                                                   *)
LEMMA LongBareStep ==
    ASSUME handle_long_opt, NEW o \in Symbols, o # "=",
           Head(remaining) = <<"-", "-", o>>
    PROVE  LET next == o \in Valued /\ Len(remaining) > 1
               value == IF next THEN remaining[2] ELSE <<>>
           IN  /\ o \in LongOpts =>
                      /\ remaining' = From(remaining, IF next THEN 2 ELSE 1)
                      /\ IF Missing(o, value) THEN Quit("usage error")
                                              ELSE process_opt(o, value)
               /\ o \notin LongOpts => Quit("usage error")
  <1> DEFINE optstr == From(Head(remaining), 2)
             delim == Find(optstr, <<"=">>, 0)
  <1>1. delim = NPOS /\ optstr = <<o>> BY LongBare, Zenon
  <1> HIDE DEF optstr
  <1>2. LET given == delim # NPOS
            opt == IF given THEN Substr(optstr, 0, delim) ELSE optstr
            option == CHOOSE q \in LongOpts : opt = <<q>>
            next == TakesNext(option, given) /\ Len(remaining) > 1
            value == IF next THEN remaining[2]
                     ELSE IF given THEN From(optstr, delim + 1) ELSE <<>>
        IN  IF \E q \in LongOpts : opt = <<q>>
            THEN /\ remaining' = From(remaining, IF next THEN 2 ELSE 1)
                 /\ IF Missing(option, value) THEN Quit("usage error")
                                              ELSE process_opt(option, value)
            ELSE remaining' = Tail(remaining) /\ Quit("usage error")
    BY DEF handle_long_opt, optstr
  <1> HIDE DEF delim
  <1>3. LET option == CHOOSE q \in LongOpts : <<o>> = <<q>>
            next == option \in Valued /\ Len(remaining) > 1
            value == IF next THEN remaining[2] ELSE <<>>
        IN  IF \E q \in LongOpts : <<o>> = <<q>>
            THEN /\ remaining' = From(remaining, IF next THEN 2 ELSE 1)
                 /\ IF Missing(option, value) THEN Quit("usage error")
                                              ELSE process_opt(option, value)
            ELSE Quit("usage error")
    BY <1>1, <1>2, Zenon DEF TakesNext
  <1> QED BY <1>3, LookUp, Zenon

(* A short option of an option with a value, or of help.                    *)
LEMMA ShortStep ==
    ASSUME parser \in {SenderParser, ReceiverParser, ConnectorParser},
           handle_short_opt, NEW l \in Letters, NEW v \in Seq(Symbols),
           Head(remaining) = <<"-", l>> \o v
    PROVE  LET option == ShortOpts[l]
               next == option \in Valued /\ v = <<>>
           IN  /\ ~(next /\ Len(remaining) = 1) =>
                      /\ option \in Valued =>
                             remaining' = IF next THEN From(remaining, 2)
                                                  ELSE Tail(remaining)
                      /\ process_opt(option, IF next THEN remaining[2] ELSE v)
               /\ next /\ Len(remaining) = 1 => Quit("usage error")
  <1>1. l \in Symbols /\ l # "-" /\ l \in DOMAIN ShortOpts
    BY SymbolFacts, LetterFacts
  <1>2. Head(remaining)[2] = l /\ From(Head(remaining), 2) = v
    BY <1>1, ShortJoined, Zenon
  <1>3. LET opt == Head(remaining)[2]
            rest == From(Head(remaining), 2)
            option == ShortOpts[opt]
            next == TakesNext(option, rest # <<>>)
        IN  IF opt \in DOMAIN ShortOpts /\ ~(next /\ Len(remaining) = 1)
            THEN /\ remaining' = IF next THEN From(remaining, 2)
                                 ELSE IF option \notin Valued /\ rest # <<>>
                                 THEN <<(<<"-">> \o rest)>> \o Tail(remaining)
                                 ELSE Tail(remaining)
                 /\ process_opt(option, IF next THEN remaining[2] ELSE rest)
            ELSE remaining' = Tail(remaining) /\ Quit("usage error")
    BY DEF handle_short_opt
  <1> QED BY <1>1, <1>2, <1>3, Zenon DEF TakesNext

(* A letter that is no option's, or one whose value is missing at the end.   *)
LEMMA LetterStep ==
    ASSUME handle_short_opt, NEW arg \in Seq(Symbols), Head(remaining) = arg,
           \/ arg[2] \notin DOMAIN ShortOpts
           \/ /\ ShortOpts[arg[2]] \in Valued
              /\ Len(arg) = 2 /\ Len(remaining) = 1
    PROVE  Quit("usage error")
  <1>1. LET opt == Head(remaining)[2]
            rest == From(Head(remaining), 2)
            option == ShortOpts[opt]
            next == TakesNext(option, rest # <<>>)
        IN  IF opt \in DOMAIN ShortOpts /\ ~(next /\ Len(remaining) = 1)
            THEN TRUE
            ELSE remaining' = Tail(remaining) /\ Quit("usage error")
    BY DEF handle_short_opt
  <1>2. CASE arg[2] \notin DOMAIN ShortOpts BY <1>1, <1>2
  <1>3. CASE /\ ShortOpts[arg[2]] \in Valued
             /\ Len(arg) = 2 /\ Len(remaining) = 1
    <2>1. From(arg, 2) = <<>>
      <3>1. From(arg, 2) = SubSeq(arg, 3, 2) BY <1>3 DEF From
      <3>2. 3 \in 1..(Len(arg) + 1) /\ 2 \in 0..Len(arg) /\ 3 <= 2 + 1 BY <1>3
      <3>3. SubSeq(arg, 3, 2) \in Seq(Symbols) /\ Len(SubSeq(arg, 3, 2)) = 2 - 3 + 1
        BY <3>2, CutFacts
      <3> QED BY <3>1, <3>3
    <2> QED BY <1>1, <1>3, <2>1, Zenon DEF TakesNext
  <1> QED BY <1>2, <1>3

(* What a setting is typed as.                                              *)
LEMMA TypedFacts ==
    ASSUME NEW setting
    PROVE  LET long == <<"-", "-", setting.option>>
               short == <<"-", CHOOSE l \in DOMAIN ShortOpts : ShortOpts[l] = setting.option>>
           IN  /\ setting.style = "equals" => Typed(setting) = <<long \o <<"=">> \o setting.value>>
               /\ setting.style = "next" => Typed(setting) = <<long, setting.value>>
               /\ setting.style = "joined" => Typed(setting) = <<short \o setting.value>>
               /\ setting.style = "short" => Typed(setting) = <<short, setting.value>>
               /\ setting.style = "bare" => Typed(setting) = <<long>>
               /\ setting.style \in {"plain", "letter"} => Typed(setting) = <<setting.value>>
               /\ setting.style = "end" => Typed(setting) = <<(<<"-", "-">>)>>
  BY DEF Typed

(* What is known of a setting.                                              *)
LEMMA SettingFacts ==
    ASSUME parser \in {SenderParser, ReceiverParser, ConnectorParser},
           NEW setting, NEW last, IsSetting(parser, setting, last)
    PROVE  /\ setting.option \in Symbols /\ setting.option # "="
           /\ setting.value \in Seq(Symbols)
           /\ setting.style \in {"equals", "next", "bare", "short", "joined", "letter",
                                 "plain", "end"}
           /\ setting.style = "next" => setting.option \notin FlagOptions
           /\ setting.style = "bare" =>
                  setting.value = <<>> /\ (setting.option \in Valued => last)
           /\ setting.style = "short" => setting.option \in Valued
           /\ setting.style \in {"short", "joined"} =>
                  \E l \in Letters : ShortOpts[l] = setting.option
           /\ setting.style = "joined" /\ setting.option \in Valued => setting.value # <<>>
           /\ setting.style = "letter" =>
                  /\ IsShort(setting.value)
                  /\ setting.option \notin Exiting
                  /\ \/ setting.value[2] \notin DOMAIN ShortOpts
                     \/ /\ ShortOpts[setting.value[2]] \in Valued
                        /\ Len(setting.value) = 2
                        /\ last
           /\ setting.style = "plain" => IsPlain(setting.value)
  <1>1. \A o : TakesValue(parser, o) <=> o \in Valued
    BY Zenon DEF TakesValue, Valued, IntOptions, StringOptions, ItemOptions
  <1>2. \A o : HasLetter(parser, o) <=> \E l \in Letters : ShortOpts[l] = o
    <2>1. DOMAIN parser.shorts = Letters BY LetterFacts DEF ShortOpts
    <2> QED BY <2>1, Zenon DEF HasLetter, ShortOpts
  <1>3. setting.option \in Symbols BY Zenon DEF IsSetting, Symbols
  <1>4. setting.value \in Seq(Symbols)
    <2>1. STRING \subseteq Symbols BY SymbolFacts
    <2>2. Seq(STRING) \subseteq Seq(Symbols) BY <2>1, SeqMonotonic
    <2>3. setting.value \in Seq(STRING) BY Zenon DEF IsSetting
    <2> QED BY <2>2, <2>3, Zenon
  <1>5. setting.option # "=" BY Zenon DEF IsSetting
  <1> DEFINE style == setting.style
             option == setting.option
             value == setting.value
  <1>7. \/ style = "equals"
        \/ style = "next" /\ option \notin FlagOptions
        \/ /\ style = "bare" /\ value = <<>>
           /\ option \in Valued => last
        \/ /\ style = "short"
           /\ \E l \in Letters : ShortOpts[l] = option
           /\ option \in Valued
        \/ /\ style = "joined" /\ \E l \in Letters : ShortOpts[l] = option
           /\ option \in Valued => value # <<>>
        \/ /\ style = "letter" /\ IsShort(value)
           /\ option \notin Exiting
           /\ \/ value[2] \notin DOMAIN ShortOpts
              \/ /\ ShortOpts[value[2]] \in Valued
                 /\ Len(value) = 2 /\ last
        \/ style = "plain" /\ IsPlain(value)
        \/ style = "end"
    BY <1>1, <1>2, Zenon DEF IsSetting, FlagOptions, ShortOpts
  <1> HIDE DEF style, option, value
  <1>8. /\ "equals" # "next" /\ "equals" # "bare" /\ "equals" # "short" /\ "equals" # "joined"
        /\ "equals" # "letter" /\ "equals" # "plain" /\ "next" # "bare" /\ "next" # "short"
        /\ "next" # "joined" /\ "next" # "letter" /\ "next" # "plain" /\ "bare" # "short"
        /\ "bare" # "joined" /\ "bare" # "letter" /\ "bare" # "plain" /\ "short" # "joined"
        /\ "short" # "letter" /\ "short" # "plain" /\ "joined" # "letter" /\ "joined" # "plain"
        /\ "letter" # "plain" /\ "end" # "equals" /\ "end" # "next" /\ "end" # "bare"
        /\ "end" # "short" /\ "end" # "joined" /\ "end" # "letter" /\ "end" # "plain"
    OBVIOUS
  <1>9. /\ style \in {"equals", "next", "bare", "short", "joined", "letter", "plain", "end"}
        /\ style = "next" => option \notin FlagOptions
        /\ style = "bare" => value = <<>> /\ (option \in Valued => last)
        /\ style = "short" => option \in Valued
        /\ style \in {"short", "joined"} => \E l \in Letters : ShortOpts[l] = option
        /\ style = "joined" /\ option \in Valued => value # <<>>
        /\ style = "letter" =>
               /\ IsShort(value)
               /\ option \notin Exiting
               /\ \/ value[2] \notin DOMAIN ShortOpts
                  \/ /\ ShortOpts[value[2]] \in Valued
                     /\ Len(value) = 2
                     /\ last
        /\ style = "plain" => IsPlain(value)
    BY <1>7, <1>8, Zenon
  <1> QED BY <1>3, <1>4, <1>5, <1>9, Zenon DEF style, option, value

(* What handle_long_opt makes of a name and what it takes for the value.    *)
HandlesLong(o, v) ==
    /\ o \in LongOpts => IF Missing(o, v) THEN Quit("usage error")
                                         ELSE process_opt(o, v)
    /\ o \notin LongOpts => Quit("usage error")

(* A long option obeys, whatever its name.                                  *)
LEMMA LongObeys ==
    ASSUME parser \in {SenderParser, ReceiverParser, ConnectorParser},
           NEW setting, setting.style \in {"equals", "next", "bare"},
           NEW v, setting.option \in Valued => v = setting.value,
           HandlesLong(setting.option, v)
    PROVE  Obeys(setting)
  <1>1. CASE setting.option \notin LongOpts
    <2>1. Stops(setting) BY <1>1 DEF Stops, Wrong
    <2>2. setting.option \notin Exiting BY <1>1 DEF LongOpts
    <2> QED BY <1>1, <2>1, <2>2 DEF Obeys, HandlesLong
  <1>2. CASE setting.option \in LongOpts /\ Missing(setting.option, v)
    <2>1. setting.option \in Valued \ {"msg-content-list-item"} /\ v = <<>>
      BY <1>2 DEF Missing
    <2>2. Stops(setting) BY <2>1 DEF Stops, Wrong
    <2>3. setting.option \notin Exiting BY <2>1, ClassFacts DEF Valued
    <2> QED BY <1>2, <2>2, <2>3 DEF Obeys, HandlesLong
  <1>3. CASE setting.option \in LongOpts /\ ~Missing(setting.option, v)
    <2>1. setting.style # "letter" OBVIOUS
    <2>2. process_opt(setting.option, v) BY <1>3 DEF HandlesLong
    <2> QED BY <1>3, <2>1, <2>2, ProcessObeys
  <1> QED BY <1>1, <1>2, <1>3

(* A setting the parser does not stop at has a known option.                *)
LEMMA GoesOn ==
    ASSUME NEW setting, ~Stops(setting)
    PROVE  /\ setting.option \in LongOpts /\ setting.option \notin Exiting
           /\ setting.style # "letter"
  BY DEF Stops, Wrong

(* A setting that is one argument, or two, and those of the next ones.      *)
Ahead(setting, rest) ==
    /\ parser \in {SenderParser, ReceiverParser, ConnectorParser}
    /\ rest \in Seq(Arguments)
    /\ IsSetting(parser, setting, rest = <<>>)
    /\ setting.style \notin {"plain", "end"}
    /\ remaining = Typed(setting) \o rest
    /\ parse_args

(* A setting typed as --option=value is obeyed, and only it is taken away.  *)
LEMMA EqualsObeys ==
    ASSUME NEW setting, NEW rest, Ahead(setting, rest), setting.style = "equals"
    PROVE  Obeys(setting) /\ (~Stops(setting) => remaining' = rest)
  <1> DEFINE o == setting.option
             v == setting.value
             arg == <<"-", "-", o>> \o <<"=">> \o v
  <1>1. o \in Symbols /\ o # "=" /\ v \in Seq(Symbols) BY SettingFacts DEF Ahead
  <1>2. arg \in Arguments /\ IsLong(arg) BY <1>1, LongGiven DEF Arguments
  <1>3. remaining = <<arg>> \o rest BY TypedFacts DEF Ahead
  <1> HIDE DEF arg, o, v
  <1>4. /\ remaining \in Seq(Arguments) /\ remaining # <<>>
        /\ Head(remaining) = arg /\ From(remaining, 1) = rest
    BY <1>2, <1>3, OneAhead DEF Ahead
  <1>5. handle_long_opt BY <1>2, <1>4, HandlerFacts DEF Ahead
  <1>6. /\ o \in LongOpts =>
               /\ remaining' = From(remaining, 1)
               /\ IF Missing(o, v) THEN Quit("usage error") ELSE process_opt(o, v)
        /\ o \notin LongOpts => Quit("usage error")
    BY <1>1, <1>4, <1>5, LongGivenStep DEF arg
  <1>7. Obeys(setting)
    <2>1. parser \in {SenderParser, ReceiverParser, ConnectorParser} BY DEF Ahead
    <2>2. setting.style \in {"equals", "next", "bare"} OBVIOUS
    <2>3. HandlesLong(o, v) BY <1>6 DEF HandlesLong
    <2>4. HandlesLong(setting.option, setting.value) BY <2>3 DEF o, v
    <2> QED BY <2>1, <2>2, <2>4, LongObeys
  <1>8. ~Stops(setting) => remaining' = rest BY <1>4, <1>6, GoesOn DEF o
  <1> QED BY <1>7, <1>8

(* A long option without a value is obeyed: a flag, or the last argument.   *)
LEMMA BareObeys ==
    ASSUME NEW setting, NEW rest, Ahead(setting, rest), setting.style = "bare"
    PROVE  Obeys(setting) /\ (~Stops(setting) => remaining' = rest)
  <1> DEFINE o == setting.option
             arg == <<"-", "-", o>>
  <1>1. /\ o \in Symbols /\ o # "=" /\ setting.value = <<>>
        /\ o \in Valued => rest = <<>>
    BY SettingFacts DEF Ahead
  <1>2. arg \in Arguments /\ IsLong(arg) BY <1>1, LongBare DEF Arguments
  <1>3. remaining = <<arg>> \o rest BY TypedFacts DEF Ahead
  <1> HIDE DEF arg, o
  <1>4. /\ remaining \in Seq(Arguments) /\ remaining # <<>>
        /\ Len(remaining) = 1 + Len(rest)
        /\ Head(remaining) = arg /\ From(remaining, 1) = rest
    BY <1>2, <1>3, OneAhead DEF Ahead
  <1>5. handle_long_opt BY <1>2, <1>4, HandlerFacts DEF Ahead
  <1>6. o \in Valued => ~(Len(remaining) > 1)
    <2>1. o \in Valued => Len(rest) = 0 BY <1>1
    <2> QED BY <1>4, <2>1
  <1> DEFINE next == o \in Valued /\ Len(remaining) > 1
             value == IF next THEN remaining[2] ELSE <<>>
  <1>7. /\ o \in LongOpts =>
               /\ remaining' = From(remaining, IF next THEN 2 ELSE 1)
               /\ IF Missing(o, value) THEN Quit("usage error")
                                       ELSE process_opt(o, value)
        /\ o \notin LongOpts => Quit("usage error")
    BY <1>1, <1>4, <1>5, LongBareStep DEF arg
  <1>8. ~next BY <1>6
  <1> HIDE DEF next
  <1>9. /\ o \in LongOpts =>
               /\ remaining' = From(remaining, 1)
               /\ IF Missing(o, <<>>) THEN Quit("usage error")
                                      ELSE process_opt(o, <<>>)
        /\ o \notin LongOpts => Quit("usage error")
    BY <1>7, <1>8
  <1>10. Obeys(setting)
    <2>1. parser \in {SenderParser, ReceiverParser, ConnectorParser} BY DEF Ahead
    <2>2. setting.style \in {"equals", "next", "bare"} OBVIOUS
    <2>3. HandlesLong(o, <<>>) BY <1>9 DEF HandlesLong
    <2>4. o \in Valued => <<>> = setting.value BY <1>1
    <2>5. HandlesLong(setting.option, <<>>) BY <2>3 DEF o
    <2>6. setting.option \in Valued => <<>> = setting.value BY <2>4 DEF o
    <2> QED BY <2>1, <2>2, <2>5, <2>6, LongObeys
  <1>11. ~Stops(setting) => remaining' = rest BY <1>4, <1>9, GoesOn DEF o
  <1> QED BY <1>10, <1>11

(* A setting whose value is the next argument is obeyed with both taken.    *)
LEMMA NextObeys ==
    ASSUME NEW setting, NEW rest, Ahead(setting, rest), setting.style = "next"
    PROVE  Obeys(setting) /\ (~Stops(setting) => remaining' = rest)
  <1> DEFINE o == setting.option
             v == setting.value
             arg == <<"-", "-", o>>
  <1>1. /\ o \in Symbols /\ o # "=" /\ v \in Seq(Symbols)
        /\ o \notin FlagOptions
    BY SettingFacts DEF Ahead
  <1>2. arg \in Arguments /\ IsLong(arg) /\ v \in Arguments
    BY <1>1, LongBare DEF Arguments
  <1>3. remaining = <<arg, v>> \o rest BY TypedFacts DEF Ahead
  <1> HIDE DEF arg, o, v
  <1>4. /\ remaining \in Seq(Arguments) /\ remaining # <<>>
        /\ Len(remaining) = 2 + Len(rest)
        /\ Head(remaining) = arg /\ remaining[2] = v /\ From(remaining, 2) = rest
    BY <1>2, <1>3, TwoAhead DEF Ahead
  <1>5. handle_long_opt BY <1>2, <1>4, HandlerFacts DEF Ahead
  <1>6. Len(remaining) > 1
    <2>1. rest \in Seq(Arguments) BY DEF Ahead
    <2>2. Len(rest) \in Nat
      <3> HIDE DEF Arguments
      <3> QED BY <2>1
    <2> QED BY <1>4, <2>2
  <1> DEFINE next == o \in Valued /\ Len(remaining) > 1
             value == IF next THEN remaining[2] ELSE <<>>
  <1>7. /\ o \in LongOpts =>
               /\ remaining' = From(remaining, IF next THEN 2 ELSE 1)
               /\ IF Missing(o, value) THEN Quit("usage error")
                                       ELSE process_opt(o, value)
        /\ o \notin LongOpts => Quit("usage error")
    BY <1>1, <1>4, <1>5, LongBareStep DEF arg
  <1>8. next <=> o \in Valued BY <1>6
  <1>9. o \in Valued => value = v BY <1>4, <1>8
  <1> HIDE DEF next, value
  <1>10. Obeys(setting)
    <2>1. parser \in {SenderParser, ReceiverParser, ConnectorParser} BY DEF Ahead
    <2>2. setting.style \in {"equals", "next", "bare"} OBVIOUS
    <2>3. HandlesLong(o, value) BY <1>7 DEF HandlesLong
    <2>4. HandlesLong(setting.option, value) BY <2>3 DEF o
    <2>5. setting.option \in Valued => value = setting.value BY <1>9 DEF o, v
    <2> QED BY <2>1, <2>2, <2>4, <2>5, LongObeys
  <1>11. ~Stops(setting) => remaining' = rest
    <2>1. ~Stops(setting) => o \in Valued
      BY <1>1, GoesOn DEF LongOpts, o
    <2>2. ~Stops(setting) => o \in LongOpts BY GoesOn DEF o
    <2> QED BY <1>4, <1>7, <1>8, <2>1, <2>2
  <1> QED BY <1>10, <1>11

(* A setting with a letter is typed with that letter.                       *)
LEMMA LetterTyped ==
    ASSUME NEW setting, NEW rest, Ahead(setting, rest),
           setting.style \in {"short", "joined"}
    PROVE  \E l \in Letters :
               /\ ShortOpts[l] = setting.option
               /\ setting.style = "short" => Typed(setting) = <<(<<"-", l>>), setting.value>>
               /\ setting.style = "joined" => Typed(setting) = <<(<<"-", l>> \o setting.value)>>
  <1> DEFINE l == CHOOSE k \in DOMAIN ShortOpts : ShortOpts[k] = setting.option
  <1>1. DOMAIN ShortOpts = Letters BY LetterFacts DEF Ahead
  <1>2. \E k \in Letters : ShortOpts[k] = setting.option BY SettingFacts DEF Ahead
  <1>3. l \in Letters /\ ShortOpts[l] = setting.option BY <1>1, <1>2
  <1>4. /\ setting.style = "short" => Typed(setting) = <<(<<"-", l>>), setting.value>>
        /\ setting.style = "joined" => Typed(setting) = <<(<<"-", l>> \o setting.value)>>
    BY TypedFacts
  <1> HIDE DEF l
  <1> QED BY <1>3, <1>4

(* A setting typed as a letter with its value joined to it is obeyed.       *)
LEMMA JoinedObeys ==
    ASSUME NEW setting, NEW rest, Ahead(setting, rest), setting.style = "joined"
    PROVE  Obeys(setting) /\ (~Stops(setting) => remaining' = rest)
  <1> DEFINE o == setting.option
             v == setting.value
  <1>1. v \in Seq(Symbols) /\ (o \in Valued => v # <<>>) BY SettingFacts DEF Ahead
  <1>2. PICK l \in Letters : ShortOpts[l] = o /\ Typed(setting) = <<(<<"-", l>> \o v)>>
    BY LetterTyped
  <1> DEFINE arg == <<"-", l>> \o v
  <1>3. l \in Symbols /\ l # "-" /\ ShortOpts[l] \in Valued \union Exiting
    BY SymbolFacts, LetterFacts DEF Ahead
  <1>4. arg \in Arguments /\ IsShort(arg) BY <1>1, <1>3, ShortJoined DEF Arguments
  <1>5. remaining = <<arg>> \o rest BY <1>2 DEF Ahead
  <1> HIDE DEF arg, o, v
  <1>6. /\ remaining \in Seq(Arguments) /\ remaining # <<>>
        /\ Head(remaining) = arg /\ Tail(remaining) = rest
    BY <1>4, <1>5, OneAhead DEF Ahead
  <1>7. handle_short_opt BY <1>4, <1>6, HandlerFacts DEF Ahead
  <1> DEFINE next == o \in Valued /\ v = <<>>
  <1>8. /\ ~(next /\ Len(remaining) = 1) =>
               /\ o \in Valued =>
                      remaining' = IF next THEN From(remaining, 2) ELSE Tail(remaining)
               /\ process_opt(o, IF next THEN remaining[2] ELSE v)
        /\ next /\ Len(remaining) = 1 => Quit("usage error")
    <2>1. parser \in {SenderParser, ReceiverParser, ConnectorParser} BY DEF Ahead
    <2>2. Head(remaining) = <<"-", l>> \o v BY <1>6 DEF arg
    <2> QED BY <1>1, <1>2, <1>7, <2>1, <2>2, ShortStep
  <1>9. ~next BY <1>1
  <1> HIDE DEF next
  <1>10. (o \in Valued => remaining' = Tail(remaining)) /\ process_opt(o, v)
    BY <1>8, <1>9
  <1>11. o \in LongOpts BY <1>2, <1>3 DEF LongOpts
  <1>12. Obeys(setting)
    <2>1. parser \in {SenderParser, ReceiverParser, ConnectorParser} BY DEF Ahead
    <2>2. setting.style # "letter" /\ setting.style \notin {"equals", "next", "bare"}
      OBVIOUS
    <2>3. setting.option \in LongOpts BY <1>11 DEF o
    <2>4. process_opt(setting.option, setting.value) BY <1>10 DEF o, v
    <2> QED BY <2>1, <2>2, <2>3, <2>4, ProcessObeys
  <1>13. ~Stops(setting) => remaining' = rest
    <2>1. ~Stops(setting) => o \notin Exiting BY GoesOn DEF o
    <2> QED BY <1>2, <1>3, <1>6, <1>10, <2>1
  <1> QED BY <1>12, <1>13

(* A letter takes the next argument for its value, when none is joined.     *)
LEMMA ShortObeys ==
    ASSUME NEW setting, NEW rest, Ahead(setting, rest), setting.style = "short"
    PROVE  Obeys(setting) /\ (~Stops(setting) => remaining' = rest)
  <1> DEFINE o == setting.option
             v == setting.value
  <1>1. v \in Seq(Symbols) /\ o \in Valued BY SettingFacts DEF Ahead
  <1>2. PICK l \in Letters : ShortOpts[l] = o /\ Typed(setting) = <<(<<"-", l>>), v>>
    BY LetterTyped
  <1> DEFINE arg == <<"-", l>>
  <1>3. l \in Symbols /\ l # "-" BY SymbolFacts, LetterFacts DEF Ahead
  <1>4. arg \in Arguments /\ IsShort(arg) /\ arg = <<"-", l>> \o <<>>
    <2>1. arg \in Seq(Symbols) BY <1>3, SymbolFacts, TwoFacts, Zenon
    <2> HIDE DEF Symbols
    <2>2. arg = arg \o <<>> BY <2>1, ConcatEmptySeq
    <2>3. <<>> \in Seq(Symbols) OBVIOUS
    <2>4. IsShort(<<"-", l>> \o <<>>) BY <1>3, <2>3, ShortJoined
    <2> QED BY <2>1, <2>2, <2>4, Zenon DEF Arguments
  <1>5. remaining = <<arg, v>> \o rest /\ v \in Arguments
    BY <1>1, <1>2 DEF Ahead, Arguments
  <1> HIDE DEF arg, o, v
  <1>6. /\ remaining \in Seq(Arguments) /\ remaining # <<>>
        /\ Len(remaining) = 2 + Len(rest)
        /\ Head(remaining) = arg /\ remaining[2] = v /\ From(remaining, 2) = rest
    BY <1>4, <1>5, TwoAhead DEF Ahead
  <1>7. handle_short_opt BY <1>4, <1>6, HandlerFacts DEF Ahead
  <1> DEFINE next == o \in Valued /\ <<>> = <<>>
  <1>8. /\ ~(next /\ Len(remaining) = 1) =>
               /\ o \in Valued =>
                      remaining' = IF next THEN From(remaining, 2) ELSE Tail(remaining)
               /\ process_opt(o, IF next THEN remaining[2] ELSE <<>>)
        /\ next /\ Len(remaining) = 1 => Quit("usage error")
    <2>1. parser \in {SenderParser, ReceiverParser, ConnectorParser} BY DEF Ahead
    <2>2. Head(remaining) = <<"-", l>> \o <<>> BY <1>4, <1>6
    <2>3. <<>> \in Seq(Symbols) OBVIOUS
    <2> QED BY <1>2, <1>7, <2>1, <2>2, <2>3, ShortStep
  <1>9. next /\ Len(remaining) # 1
    <2>1. rest \in Seq(Arguments) BY DEF Ahead
    <2>2. Len(rest) \in Nat
      <3> HIDE DEF Arguments
      <3> QED BY <2>1
    <2> QED BY <1>1, <1>6, <2>2 DEF o
  <1> HIDE DEF next
  <1>10. remaining' = rest /\ process_opt(o, v)
    BY <1>1, <1>6, <1>8, <1>9 DEF o
  <1>11. Obeys(setting)
    <2>1. parser \in {SenderParser, ReceiverParser, ConnectorParser} BY DEF Ahead
    <2>2. setting.style # "letter" /\ setting.style \notin {"equals", "next", "bare"}
      OBVIOUS
    <2>3. setting.option \in LongOpts BY <1>1 DEF o, LongOpts
    <2>4. process_opt(setting.option, setting.value) BY <1>10 DEF o, v
    <2> QED BY <2>1, <2>2, <2>3, <2>4, ProcessObeys
  <1> QED BY <1>10, <1>11

(* A letter no option has, or one whose value is missing, stops the parser. *)
LEMMA LetterObeys ==
    ASSUME NEW setting, NEW rest, Ahead(setting, rest), setting.style = "letter"
    PROVE  Obeys(setting) /\ Stops(setting)
  <1> DEFINE arg == setting.value
  <1>1. /\ arg \in Seq(Symbols) /\ IsShort(arg) /\ setting.option \notin Exiting
        /\ \/ arg[2] \notin DOMAIN ShortOpts
           \/ /\ ShortOpts[arg[2]] \in Valued
              /\ Len(arg) = 2 /\ rest = <<>>
    BY SettingFacts DEF Ahead
  <1>2. remaining = <<arg>> \o rest BY TypedFacts DEF Ahead
  <1> HIDE DEF arg
  <1>3. /\ remaining \in Seq(Arguments) /\ remaining # <<>>
        /\ Len(remaining) = 1 + Len(rest) /\ Head(remaining) = arg
    BY <1>1, <1>2, OneAhead DEF Ahead, Arguments
  <1>4. handle_short_opt BY <1>1, <1>3, HandlerFacts DEF Ahead
  <1>5. rest = <<>> => Len(remaining) = 1
    <2>1. rest = <<>> => Len(rest) = 0 OBVIOUS
    <2>2. 1 + 0 = 1 OBVIOUS
    <2> QED BY <1>3, <2>1, <2>2
  <1>6. Quit("usage error")
    <2>1. \/ arg[2] \notin DOMAIN ShortOpts
          \/ /\ ShortOpts[arg[2]] \in Valued
             /\ Len(arg) = 2 /\ Len(remaining) = 1
      BY <1>1, <1>5
    <2> QED BY <1>1, <1>3, <1>4, <2>1, LetterStep
  <1>7. Stops(setting) BY DEF Stops, Wrong
  <1> QED BY <1>1, <1>6, <1>7 DEF Obeys

(* Whatever the way it is typed, a setting does what it means, or ends the  *)
(* client, and the settings behind it come next.                            *)
LEMMA SettingObeys ==
    ASSUME NEW setting, NEW rest, Ahead(setting, rest)
    PROVE  Obeys(setting) /\ (~Stops(setting) => remaining' = rest)
  <1>1. setting.style \in {"equals", "next", "bare", "short", "joined", "letter"}
    BY SettingFacts DEF Ahead
  <1> QED BY <1>1, EqualsObeys, NextObeys, BareObeys, ShortObeys, JoinedObeys,
             LetterObeys

(* What the values are joined with.                                         *)
Semi == ";"

(* It is a symbol.                                                          *)
LEMMA SemiFacts == Semi \in Symbols
  BY SymbolFacts, Zenon DEF Semi

(* What stands for an empty value.                                                *)
LEMMA EmptyFacts ==
    /\ EMPTY \in Seq(Symbols) /\ Len(EMPTY) = 2
    /\ \A i \in 1..2 : EMPTY[i] # Semi
  <1>1. EMPTY \in Seq(Symbols) /\ Len(EMPTY) = 2 /\ EMPTY[1] = "'" /\ EMPTY[2] = "'"
    BY SymbolFacts, TwoFacts, Zenon DEF EMPTY
  <1>2. "'" # Semi BY Zenon DEF Semi
  <1>3. \A i \in 1..2 : i = 1 \/ i = 2 OBVIOUS
  <1> HIDE DEF EMPTY
  <1> QED BY <1>1, <1>2, <1>3, Zenon

(* A string of a callback: what it ends with.                               *)
IsJoined(str) == str \in Seq(Symbols) /\ (str # <<>> => str[Len(str)] = Semi)

(* Where a part of a string begins.                                         *)
LEMMA PartFacts ==
    ASSUME NEW str \in Seq(Symbols), NEW end \in 1..Len(str)
    PROVE  PartStart(str, end) \in 1..end
  <1> DEFINE T == {0} \union {i \in 1..(end - 1) : str[i] = Semi}
  <1>1. T \in SUBSET (0..(end - 1)) /\ T # {} /\ end - 1 \in Nat OBVIOUS
  <1>2. PartStart(str, end) = Max(T) + 1 BY Zenon DEF PartStart, Semi
  <1> HIDE DEF T
  <1>3. Max(T) \in T BY <1>1, MaxFacts
  <1> DEFINE top == Max(T)
  <1>4. top \in 0..(end - 1) BY <1>1, <1>3
  <1> HIDE DEF top
  <1>5. top + 1 \in 1..end BY <1>4
  <1> QED BY <1>2, <1>5 DEF top

(* What getStrings makes of the end of a part.                              *)
Turn(str, i) ==
    IF str[i] = Semi THEN Kept(SubSeq(str, PartStart(str, i), i - 1)) ELSE <<>>

(* It is a text, or nothing.                                                *)
LEMMA TurnType ==
    ASSUME NEW str \in Seq(Symbols), NEW i \in 1..Len(str)
    PROVE  Turn(str, i) \in Seq(Arguments)
  <1> DEFINE start == PartStart(str, i)
             part == SubSeq(str, start, i - 1)
  <1>1. part \in Arguments
    <2>1. start \in 1..i BY PartFacts
    <2> HIDE DEF start
    <2>2. start \in 1..(Len(str) + 1) /\ i - 1 \in 0..Len(str) /\ start <= (i - 1) + 1
      BY <2>1
    <2> QED BY <2>2, CutFacts DEF Arguments
  <1>2. <<>> \in Arguments BY DEF Arguments
  <1> HIDE DEF part, Arguments
  <1>3. Kept(part) \in Seq(Arguments)
    <2>1. <<>> \in Seq(Arguments) OBVIOUS
    <2>2. <<(<<>>)>> \in Seq(Arguments) BY <1>2, OneFacts
    <2>3. <<part>> \in Seq(Arguments) BY <1>1, OneFacts
    <2> QED BY <2>1, <2>2, <2>3, Zenon DEF Kept
  <1>4. Turn(str, i) = Kept(part) \/ Turn(str, i) = <<>> BY Zenon DEF Turn, part
  <1>5. <<>> \in Seq(Arguments) OBVIOUS
  <1> QED BY <1>3, <1>4, <1>5, Zenon

(* A whole value appended to a string is its last part: getStrings finds    *)
(* the values that were appended, the empty ones among them.                *)
LEMMA GetAppended ==
    ASSUME NEW str, IsJoined(str), NEW v \in Seq(Symbols), v # EMPTY,
           \A i \in 1..Len(v) : v[i] # Semi
    PROVE  /\ IsJoined(append(str, v))
           /\ getStrings(append(str, v)) = getStrings(str) \o <<v>>
  <1> DEFINE w == IF v = <<>> THEN EMPTY ELSE v
             n == Len(str)
             m == Len(w)
             semi == <<Semi>>
             body == str \o w
             new == body \o semi
  <1>1. str \in Seq(Symbols) /\ n \in Nat /\ (n # 0 => str[n] = Semi)
    <2>1. str \in Seq(Symbols) BY DEF IsJoined
    <2>2. Len(str) # 0 => str # <<>> OBVIOUS
    <2> QED BY <2>1, <2>2 DEF IsJoined
  <1>2. /\ w \in Seq(Symbols) /\ m \in Nat /\ m # 0
        /\ \A i \in 1..m : w[i] # Semi
    <2>1. CASE v = <<>>
      <3>1. w = EMPTY BY <2>1
      <3> HIDE DEF w
      <3> QED BY <3>1, EmptyFacts
    <2>2. CASE v # <<>>
      <3>1. w = v BY <2>2
      <3> HIDE DEF w
      <3> QED BY <2>2, <3>1
    <2> QED BY <2>1, <2>2
  <1>3. Kept(w) = <<v>>
    <2>1. CASE v = <<>>
      <3>1. w = EMPTY BY <2>1
      <3>2. EMPTY # <<>>
        <4>1. Len(EMPTY) # Len(<<>>) BY EmptyFacts
        <4> QED BY <4>1, Zenon
      <3> HIDE DEF w
      <3> QED BY <2>1, <3>1, <3>2, Zenon DEF Kept
    <2>2. CASE v # <<>>
      <3>1. w = v BY <2>2
      <3> HIDE DEF w
      <3> QED BY <2>2, <3>1, Zenon DEF Kept
    <2> QED BY <2>1, <2>2
  <1>4. semi \in Seq(Symbols) /\ Len(semi) = 1 /\ semi[1] = Semi
    BY SemiFacts, OneFacts, Zenon
  <1>5. append(str, v) = new BY Zenon DEF append, Semi
  <1> HIDE DEF semi, w
  <1>6. /\ body \in Seq(Symbols) /\ Len(body) = n + m
        /\ \A i \in 1..n : body[i] = str[i]
        /\ \A i \in 1..m : body[n + i] = w[i]
    BY <1>1, <1>2, BothFacts, Zenon
  <1> HIDE DEF body
  <1>7. /\ new \in Seq(Symbols) /\ Len(new) = n + m + 1
        /\ \A i \in 1..n : new[i] = str[i]
        /\ \A i \in 1..m : new[n + i] = w[i]
        /\ new[n + m + 1] = Semi
    <2>1. /\ new \in Seq(Symbols) /\ Len(new) = Len(body) + Len(semi)
          /\ \A i \in 1..Len(body) : new[i] = body[i]
          /\ \A i \in 1..Len(semi) : new[Len(body) + i] = semi[i]
      BY <1>4, <1>6, BothFacts, Zenon
    <2> HIDE DEF new, n, m
    <2>2. \A i \in 1..n : i \in 1..(n + m) BY <1>1, <1>2
    <2>3. \A i \in 1..m : n + i \in 1..(n + m) BY <1>1, <1>2
    <2>4. 1 \in 1..Len(semi) BY <1>4
    <2>5. \A i \in 1..n : new[i] = str[i] BY <1>6, <2>1, <2>2, Zenon
    <2>6. \A i \in 1..m : new[n + i] = w[i] BY <1>6, <2>1, <2>3, Zenon
    <2>7. new[n + m + 1] = Semi BY <1>4, <1>6, <2>1, <2>4, Zenon
    <2> QED BY <1>4, <1>6, <2>1, <2>5, <2>6, <2>7, Zenon
  <1> HIDE DEF new
  <1>8. IsJoined(new)
    <2> HIDE DEF n, m
    <2> QED BY <1>7 DEF IsJoined
  <1> DEFINE p == [i \in 1..n |-> Turn(str, i)]
             mid == [i \in 1..(n + m) |-> Turn(new, i)]
             q == [i \in 1..(n + m + 1) |-> Turn(new, i)]
  <1>9. getStrings(str) = FlattenSeq(p) BY Zenon DEF getStrings, Turn, Semi
  <1>10. getStrings(new) = FlattenSeq(q) BY <1>7, Zenon DEF getStrings, Turn, Semi
  <1>11. /\ \A i \in 1..n : Turn(str, i) \in Seq(Arguments)
         /\ \A i \in 1..(n + m + 1) : Turn(new, i) \in Seq(Arguments)
    <2> HIDE DEF Arguments
    <2> QED BY <1>1, <1>7, TurnType
  <1> HIDE DEF n, m
  <1>12. /\ p \in Seq(Seq(Arguments)) /\ Len(p) = n
         /\ mid \in Seq(Seq(Arguments)) /\ Len(mid) = n + m
         /\ q \in Seq(Seq(Arguments)) /\ Len(q) = n + m + 1
    <2> HIDE DEF Arguments
    <2> QED BY <1>1, <1>2, <1>11
  <1>13. ASSUME NEW i \in 1..n PROVE Turn(new, i) = Turn(str, i)
    <2>1. new[i] = str[i] BY <1>7
    <2>2. PartStart(new, i) = PartStart(str, i)
      <3>1. \A j \in 1..(i - 1) : new[j] = str[j] BY <1>1, <1>7
      <3>2. {j \in 1..(i - 1) : new[j] = Semi} = {j \in 1..(i - 1) : str[j] = Semi}
        BY <3>1
      <3> QED BY <3>2, Zenon DEF PartStart, Semi
    <2> DEFINE start == PartStart(str, i)
    <2>3. start \in 1..i
      <3>1. i \in 1..Len(str) BY DEF n
      <3> QED BY <1>1, <3>1, PartFacts
    <2> HIDE DEF start
    <2>4. SubSeq(new, start, i - 1) = SubSeq(str, start, i - 1)
      <3>1. /\ start \in 1..(Len(str) + 1) /\ i - 1 \in 0..Len(str) /\ start <= (i - 1) + 1
            /\ start \in 1..(Len(new) + 1) /\ i - 1 \in 0..Len(new)
            /\ \A k \in 1..((i - 1) - start + 1) : start + k - 1 \in 1..n
        BY <1>1, <1>2, <1>7, <2>3 DEF n
      <3> DEFINE a == SubSeq(new, start, i - 1)
                 b == SubSeq(str, start, i - 1)
      <3>2. /\ a \in Seq(Symbols) /\ Len(a) = (i - 1) - start + 1
            /\ \A k \in 1..((i - 1) - start + 1) : a[k] = new[start + k - 1]
        BY <1>7, <3>1, CutFacts
      <3>3. /\ b \in Seq(Symbols) /\ Len(b) = (i - 1) - start + 1
            /\ \A k \in 1..((i - 1) - start + 1) : b[k] = str[start + k - 1]
        BY <1>1, <3>1, CutFacts
      <3> HIDE DEF a, b
      <3>4. \A k \in 1..Len(a) : a[k] = b[k] BY <1>7, <3>1, <3>2, <3>3
      <3>5. a = b BY <3>2, <3>3, <3>4, SeqEqual
      <3> QED BY <3>5 DEF a, b
    <2> QED BY <2>1, <2>2, <2>4, Zenon DEF Turn, start
  <1>14. ASSUME NEW i \in (n + 1)..(n + m) PROVE Turn(new, i) = <<>>
    <2>1. i - n \in 1..m /\ n + (i - n) = i BY <1>1, <1>2
    <2>2. new[i] = w[i - n] BY <1>7, <2>1
    <2>3. new[i] # Semi BY <1>2, <2>1, <2>2
    <2> QED BY <2>3, Zenon DEF Turn
  <1>15. Turn(new, n + m + 1) = <<v>>
    <2> DEFINE T == {0} \union {i \in 1..((n + m + 1) - 1) : new[i] = Semi}
    <2>1. n \in T
      <3>1. n # 0 => n \in 1..((n + m + 1) - 1) /\ n \in 1..n BY <1>1, <1>2
      <3>2. n # 0 => new[n] = Semi BY <1>1, <1>7, <3>1
      <3> QED BY <3>1, <3>2
    <2>2. \A i \in T : n >= i
      <3> SUFFICES ASSUME NEW i \in T, i > n PROVE FALSE BY <1>1, <1>2
      <3>1. i \in 1..((n + m + 1) - 1) /\ new[i] = Semi BY <1>1
      <3>2. i - n \in 1..m /\ n + (i - n) = i BY <1>1, <1>2, <3>1
      <3>3. new[i] = w[i - n] BY <1>7, <3>2
      <3> QED BY <1>2, <3>1, <3>2, <3>3
    <2>3. T \in SUBSET Int BY <1>1, <1>2
    <2>4. PartStart(new, n + m + 1) = Max(T) + 1 BY Zenon DEF PartStart, Semi
    <2> HIDE DEF T
    <2>5. PartStart(new, n + m + 1) = n + 1 BY <2>1, <2>2, <2>3, <2>4, MaxIs
    <2>6. SubSeq(new, n + 1, n + m) = w
      <3> DEFINE a == SubSeq(new, n + 1, n + m)
      <3>1. n + 1 \in 1..(Len(new) + 1) /\ n + m \in 0..Len(new) /\ n + 1 <= (n + m) + 1
        BY <1>1, <1>2, <1>7
      <3>2. /\ a \in Seq(Symbols) /\ Len(a) = (n + m) - (n + 1) + 1
            /\ \A k \in 1..((n + m) - (n + 1) + 1) : a[k] = new[(n + 1) + k - 1]
        BY <1>7, <3>1, CutFacts
      <3> HIDE DEF a
      <3>3. Len(a) = m /\ \A k \in 1..m : a[k] = new[n + k] BY <1>1, <1>2, <3>2
      <3>4. Len(w) = m BY DEF m
      <3>5. \A k \in 1..Len(a) : a[k] = w[k] BY <1>7, <3>3
      <3>6. a = w BY <1>2, <3>2, <3>3, <3>4, <3>5, SeqEqual
      <3> QED BY <3>6 DEF a
    <2>7. (n + m + 1) - 1 = n + m BY <1>1, <1>2
    <2> QED BY <1>3, <1>7, <2>5, <2>6, <2>7, Zenon DEF Turn
  <1>16. FlattenSeq(mid) = FlattenSeq(p)
    <2>1. Len(p) <= Len(mid) BY <1>1, <1>2, <1>12
    <2>2. \A i \in 1..Len(p) : mid[i] = p[i]
      <3> SUFFICES ASSUME NEW i \in 1..n PROVE mid[i] = p[i] BY <1>12
      <3>1. i \in 1..(n + m) BY <1>1, <1>2
      <3>2. mid[i] = Turn(new, i) /\ p[i] = Turn(str, i) BY <3>1
      <3> QED BY <1>13, <3>2
    <2>3. \A i \in (Len(p) + 1)..Len(mid) : mid[i] = <<>>
      <3> SUFFICES ASSUME NEW i \in (n + 1)..(n + m) PROVE mid[i] = <<>> BY <1>12
      <3>1. i \in 1..(n + m) BY <1>1, <1>2
      <3>2. mid[i] = Turn(new, i) BY <3>1
      <3> QED BY <1>14, <3>2
    <2> HIDE DEF p, mid, Arguments
    <2> QED BY <1>12, <2>1, <2>2, <2>3, FlattenPad
  <1>17. FlattenSeq(q) = FlattenSeq(mid) \o q[n + m + 1]
    <2>1. Len(q) = Len(mid) + 1 BY <1>1, <1>2, <1>12
    <2>2. \A i \in 1..Len(mid) : q[i] = mid[i]
      <3> SUFFICES ASSUME NEW i \in 1..(n + m) PROVE q[i] = mid[i] BY <1>12
      <3>1. i \in 1..(n + m + 1) BY <1>1, <1>2
      <3> QED BY <3>1
    <2> HIDE DEF q, mid, Arguments
    <2>3. FlattenSeq(q) = FlattenSeq(mid) \o q[Len(q)] BY <1>12, <2>1, <2>2, FlattenLast
    <2>4. Len(q) = n + m + 1 BY <1>12
    <2> QED BY <2>3, <2>4, Zenon
  <1>18. q[n + m + 1] = <<v>>
    <2>1. n + m + 1 \in 1..(n + m + 1) BY <1>1, <1>2
    <2>2. q[n + m + 1] = Turn(new, n + m + 1) BY <2>1
    <2> QED BY <1>15, <2>2
  <1> HIDE DEF p, q, mid
  <1>19. getStrings(new) = getStrings(str) \o <<v>>
    BY <1>9, <1>10, <1>16, <1>17, <1>18, Zenon
  <1> QED BY <1>5, <1>8, <1>19, Zenon

(* One string behind another keeps its parts: the values of the first come  *)
(* before those of the second.                                              *)
LEMMA GetJoined ==
    ASSUME NEW str, IsJoined(str), NEW t, IsJoined(t)
    PROVE  /\ IsJoined(str \o t)
           /\ getStrings(str \o t) = getStrings(str) \o getStrings(t)
  <1> DEFINE n == Len(str)
             m == Len(t)
             new == str \o t
  <1>1. str \in Seq(Symbols) /\ n \in Nat /\ (n # 0 => str[n] = Semi)
    <2>1. str \in Seq(Symbols) BY DEF IsJoined
    <2>2. Len(str) # 0 => str # <<>> OBVIOUS
    <2> QED BY <2>1, <2>2 DEF IsJoined
  <1>2. t \in Seq(Symbols) /\ m \in Nat /\ (m # 0 => t[m] = Semi)
    <2>1. t \in Seq(Symbols) BY DEF IsJoined
    <2>2. Len(t) # 0 => t # <<>> OBVIOUS
    <2> QED BY <2>1, <2>2 DEF IsJoined
  <1>3. /\ new \in Seq(Symbols) /\ Len(new) = n + m
        /\ \A i \in 1..n : new[i] = str[i]
        /\ \A i \in 1..m : new[n + i] = t[i]
    BY <1>1, <1>2, BothFacts, Zenon
  <1> HIDE DEF new
  <1>4. IsJoined(new)
    <2>1. new # <<>> => new[Len(new)] = Semi
      <3> SUFFICES ASSUME new # <<>> PROVE new[Len(new)] = Semi OBVIOUS
      <3>1. Len(new) # 0 BY <1>3
      <3> HIDE DEF n, m
      <3>2. CASE m = 0
        <4>1. Len(new) = n /\ n \in 1..n BY <1>1, <1>3, <3>1, <3>2
        <4> QED BY <1>1, <1>3, <3>1, <4>1
      <3>3. CASE m # 0
        <4>1. m \in 1..m BY <1>2, <3>3
        <4> QED BY <1>2, <1>3, <3>3, <4>1
      <3> QED BY <3>2, <3>3
    <2> QED BY <1>3, <2>1 DEF IsJoined
  <1> DEFINE p == [i \in 1..n |-> Turn(str, i)]
             r == [i \in 1..m |-> Turn(t, i)]
             q == [i \in 1..(n + m) |-> Turn(new, i)]
  <1>5. getStrings(str) = FlattenSeq(p) BY Zenon DEF getStrings, Turn, Semi
  <1>6. getStrings(t) = FlattenSeq(r) BY Zenon DEF getStrings, Turn, Semi
  <1>7. getStrings(new) = FlattenSeq(q) BY <1>3, Zenon DEF getStrings, Turn, Semi
  <1>8. /\ \A i \in 1..n : Turn(str, i) \in Seq(Arguments)
        /\ \A i \in 1..m : Turn(t, i) \in Seq(Arguments)
        /\ \A i \in 1..(n + m) : Turn(new, i) \in Seq(Arguments)
    <2> HIDE DEF Arguments
    <2> QED BY <1>1, <1>2, <1>3, TurnType
  <1> HIDE DEF n, m
  <1>9. /\ p \in Seq(Seq(Arguments)) /\ Len(p) = n
        /\ r \in Seq(Seq(Arguments)) /\ Len(r) = m
        /\ q \in Seq(Seq(Arguments)) /\ Len(q) = n + m
    <2> HIDE DEF Arguments
    <2> QED BY <1>1, <1>2, <1>8
  <1>10. ASSUME NEW i \in 1..n PROVE Turn(new, i) = Turn(str, i)
    <2>1. new[i] = str[i] BY <1>3
    <2>2. PartStart(new, i) = PartStart(str, i)
      <3>1. \A j \in 1..(i - 1) : new[j] = str[j] BY <1>1, <1>3
      <3>2. {j \in 1..(i - 1) : new[j] = Semi} = {j \in 1..(i - 1) : str[j] = Semi}
        BY <3>1
      <3> QED BY <3>2, Zenon DEF PartStart, Semi
    <2> DEFINE start == PartStart(str, i)
    <2>3. start \in 1..i
      <3>1. i \in 1..Len(str) BY DEF n
      <3> QED BY <1>1, <3>1, PartFacts
    <2> HIDE DEF start
    <2>4. SubSeq(new, start, i - 1) = SubSeq(str, start, i - 1)
      <3>1. /\ start \in 1..(Len(str) + 1) /\ i - 1 \in 0..Len(str) /\ start <= (i - 1) + 1
            /\ start \in 1..(Len(new) + 1) /\ i - 1 \in 0..Len(new)
            /\ \A k \in 1..((i - 1) - start + 1) : start + k - 1 \in 1..n
        BY <1>1, <1>2, <1>3, <2>3 DEF n
      <3> DEFINE a == SubSeq(new, start, i - 1)
                 b == SubSeq(str, start, i - 1)
      <3>2. /\ a \in Seq(Symbols) /\ Len(a) = (i - 1) - start + 1
            /\ \A k \in 1..((i - 1) - start + 1) : a[k] = new[start + k - 1]
        BY <1>3, <3>1, CutFacts
      <3>3. /\ b \in Seq(Symbols) /\ Len(b) = (i - 1) - start + 1
            /\ \A k \in 1..((i - 1) - start + 1) : b[k] = str[start + k - 1]
        BY <1>1, <3>1, CutFacts
      <3> HIDE DEF a, b
      <3>4. \A k \in 1..Len(a) : a[k] = b[k] BY <1>3, <3>1, <3>2, <3>3
      <3>5. a = b BY <3>2, <3>3, <3>4, SeqEqual
      <3> QED BY <3>5 DEF a, b
    <2> QED BY <2>1, <2>2, <2>4, Zenon DEF Turn, start
  <1>11. ASSUME NEW i \in 1..m PROVE Turn(new, n + i) = Turn(t, i)
    <2>1. new[n + i] = t[i] BY <1>3
    <2> DEFINE T == {0} \union {j \in 1..(i - 1) : t[j] = Semi}
               U == {0} \union {j \in 1..((n + i) - 1) : new[j] = Semi}
               top == Max(T)
    <2>2. T \in SUBSET (0..(i - 1)) /\ T # {} /\ i - 1 \in Nat
      BY <1>2
    <2>3. PartStart(t, i) = top + 1 /\ PartStart(new, n + i) = Max(U) + 1
      BY Zenon DEF PartStart, Semi
    <2>4. top \in T /\ \A j \in T : j <= top
      <3> HIDE DEF T
      <3> QED BY <2>2, MaxFacts
    <2>5. top \in 0..(i - 1) BY <2>2, <2>4
    <2> HIDE DEF top
    <2>6. n + top \in U
      <3>1. CASE top = 0
        <4>1. n # 0 => n \in 1..n /\ n \in 1..((n + i) - 1) BY <1>1
        <4>2. n # 0 => new[n] = Semi BY <1>1, <1>3, <4>1
        <4>3. n + top = n BY <1>1, <3>1
        <4> QED BY <4>1, <4>2, <4>3
      <3>2. CASE top # 0
        <4>1. top \in 1..(i - 1) /\ t[top] = Semi BY <2>4, <3>2
        <4>2. top \in 1..m /\ n + top \in 1..((n + i) - 1) BY <1>1, <1>2, <4>1
        <4>3. new[n + top] = Semi BY <1>3, <4>1, <4>2
        <4> QED BY <4>2, <4>3
      <3> QED BY <3>1, <3>2
    <2>7. ASSUME NEW j \in U PROVE n + top >= j
      <3> SUFFICES ASSUME j > n + top PROVE FALSE BY <1>1, <2>5
      <3>1. j \in 1..((n + i) - 1) /\ new[j] = Semi BY <1>1, <2>5
      <3>2. j - n \in 1..(i - 1) /\ j - n \in 1..m /\ n + (j - n) = j
        BY <1>1, <1>2, <2>5, <3>1
      <3>3. t[j - n] = Semi BY <1>3, <3>1, <3>2
      <3>4. j - n \in T BY <3>2, <3>3
      <3>5. j - n <= top BY <2>4, <3>4
      <3> QED BY <1>1, <2>5, <3>1, <3>5
    <2>8. U \in SUBSET Int BY <1>1
    <2> HIDE DEF T, U
    <2>9. PartStart(new, n + i) = n + (top + 1)
      <3>1. Max(U) = n + top BY <2>6, <2>7, <2>8, MaxIs
      <3> QED BY <1>1, <2>3, <2>5, <3>1
    <2> DEFINE start == top + 1
    <2>10. SubSeq(new, n + start, (n + i) - 1) = SubSeq(t, start, i - 1)
      <3>1. /\ start \in 1..(Len(t) + 1) /\ i - 1 \in 0..Len(t) /\ start <= (i - 1) + 1
            /\ n + start \in 1..(Len(new) + 1) /\ (n + i) - 1 \in 0..Len(new)
            /\ n + start <= ((n + i) - 1) + 1
            /\ ((n + i) - 1) - (n + start) + 1 = (i - 1) - start + 1
        BY <1>1, <1>2, <1>3, <2>5 DEF m
      <3>2. \A k \in 1..((i - 1) - start + 1) :
                /\ start + k - 1 \in 1..m
                /\ (n + start) + k - 1 = n + (start + k - 1)
        BY <1>1, <1>2, <2>5
      <3> HIDE DEF start
      <3> DEFINE a == SubSeq(new, n + start, (n + i) - 1)
                 b == SubSeq(t, start, i - 1)
      <3>3. /\ a \in Seq(Symbols) /\ Len(a) = (i - 1) - start + 1
            /\ \A k \in 1..((i - 1) - start + 1) : a[k] = new[(n + start) + k - 1]
        <4>1. /\ a \in Seq(Symbols) /\ Len(a) = ((n + i) - 1) - (n + start) + 1
              /\ \A k \in 1..(((n + i) - 1) - (n + start) + 1) :
                     a[k] = new[(n + start) + k - 1]
          BY <1>3, <3>1, CutFacts
        <4> QED BY <3>1, <4>1
      <3>4. /\ b \in Seq(Symbols) /\ Len(b) = (i - 1) - start + 1
            /\ \A k \in 1..((i - 1) - start + 1) : b[k] = t[start + k - 1]
        BY <1>2, <3>1, CutFacts
      <3> HIDE DEF a, b
      <3>5. \A k \in 1..Len(a) : a[k] = b[k] BY <1>3, <3>2, <3>3, <3>4
      <3>6. a = b BY <3>3, <3>4, <3>5, SeqEqual
      <3> QED BY <3>6 DEF a, b
    <2> QED BY <2>1, <2>3, <2>9, <2>10, Zenon DEF Turn, start
  <1>12. FlattenSeq(q) = FlattenSeq(p) \o FlattenSeq(r)
    <2>1. \A i \in 1..Len(p) : q[i] = p[i]
      <3> SUFFICES ASSUME NEW i \in 1..n PROVE q[i] = p[i] BY <1>9
      <3>1. i \in 1..(n + m) BY <1>1, <1>2
      <3>2. q[i] = Turn(new, i) /\ p[i] = Turn(str, i) BY <3>1
      <3> QED BY <1>10, <3>2
    <2>2. \A i \in 1..Len(r) : q[Len(p) + i] = r[i]
      <3> SUFFICES ASSUME NEW i \in 1..m PROVE q[n + i] = r[i] BY <1>9
      <3>1. n + i \in 1..(n + m) BY <1>1, <1>2
      <3>2. q[n + i] = Turn(new, n + i) /\ r[i] = Turn(t, i) BY <3>1
      <3> QED BY <1>11, <3>2
    <2>3. Len(q) = Len(p) + Len(r) BY <1>9
    <2> HIDE DEF p, q, r, Arguments
    <2> QED BY <1>9, <2>1, <2>2, <2>3, FlattenBoth
  <1> HIDE DEF p, q, r
  <1>13. getStrings(new) = getStrings(str) \o getStrings(t)
    BY <1>5, <1>6, <1>7, <1>12, Zenon
  <1> QED BY <1>4, <1>13, Zenon DEF new

(* Whatever value is appended to a string, its own parts come last: a value *)
(* with a ";", or spelled like an empty one, disturbs no other.             *)
LEMMA GetArrived ==
    ASSUME NEW str, IsJoined(str), NEW v \in Seq(Symbols)
    PROVE  /\ IsJoined(append(str, v))
           /\ getStrings(append(str, v)) = getStrings(str) \o Arrived(v)
           /\ Arrived(v) \in Seq(Arguments)
  <1>1. CASE IsWhole(v)
    <2>1. v # EMPTY /\ \A i \in DOMAIN v : v[i] # Semi BY <1>1, Zenon DEF IsWhole, Semi
    <2>2. DOMAIN v = 1..Len(v)
      <3> HIDE DEF Symbols
      <3> QED OBVIOUS
    <2>3. \A i \in 1..Len(v) : v[i] # Semi BY <2>1, <2>2
    <2>4. Arrived(v) = <<v>> BY <1>1, Zenon DEF Arrived
    <2>5. <<v>> \in Seq(Arguments)
      <3>1. v \in Arguments BY Zenon DEF Arguments
      <3> HIDE DEF Arguments
      <3> QED BY <3>1, OneFacts, Zenon
    <2>6. /\ IsJoined(append(str, v))
          /\ getStrings(append(str, v)) = getStrings(str) \o <<v>>
      BY <2>1, <2>3, GetAppended
    <2> QED BY <2>4, <2>5, <2>6, Zenon
  <1>2. CASE ~IsWhole(v)
    <2> DEFINE w == IF v = <<>> THEN EMPTY ELSE v
               semi == <<Semi>>
               alone == append(<<>>, v)
    <2>1. w \in Seq(Symbols) /\ semi \in Seq(Symbols) /\ semi[1] = Semi /\ Len(semi) = 1
      BY EmptyFacts, SemiFacts, OneFacts, Zenon
    <2>2. append(str, v) = (str \o w) \o semi /\ alone = (<<>> \o w) \o semi
      BY Zenon DEF append, Semi
    <2>3. str \in Seq(Symbols) BY Zenon DEF IsJoined
    <2> HIDE DEF w, semi, alone
    <2>4. alone = w \o semi
      <3> HIDE DEF Symbols
      <3>1. <<>> \o w = w BY <2>1, ConcatEmptySeq
      <3> QED BY <2>2, <3>1, Zenon
    <2>5. append(str, v) = str \o alone
      <3> HIDE DEF Symbols
      <3>1. (str \o w) \o semi = str \o (w \o semi)
        <4>1. \A a, b, c \in Seq(Symbols) : (a \o b) \o c = a \o (b \o c)
          BY ConcatAssociative
        <4> QED BY <2>1, <2>3, <4>1, Zenon
      <3> QED BY <2>2, <2>4, <3>1, Zenon
    <2>6. IsJoined(alone)
      <3>1. /\ alone \in Seq(Symbols) /\ Len(alone) = Len(w) + Len(semi)
            /\ \A i \in 1..Len(semi) : alone[Len(w) + i] = semi[i]
        BY <2>1, <2>4, BothFacts, Zenon
      <3>2. Len(w) \in Nat
        <4> HIDE DEF Symbols
        <4> QED BY <2>1
      <3>3. 1 \in 1..Len(semi) BY <2>1
      <3>4. alone[Len(alone)] = Semi BY <2>1, <3>1, <3>2, <3>3
      <3> QED BY <3>1, <3>4, Zenon DEF IsJoined
    <2>7. Arrived(v) = getStrings(alone) BY <1>2, Zenon DEF Arrived, alone
    <2>8. /\ IsJoined(str \o alone)
          /\ getStrings(str \o alone) = getStrings(str) \o getStrings(alone)
      BY <2>6, GetJoined, Zenon
    <2>9. getStrings(alone) \in Seq(Arguments)
      <3> DEFINE p == [i \in 1..Len(alone) |-> Turn(alone, i)]
      <3>1. getStrings(alone) = FlattenSeq(p) BY Zenon DEF getStrings, Turn, Semi
      <3>2. alone \in Seq(Symbols) BY <2>6, Zenon DEF IsJoined
      <3>3. \A i \in 1..Len(alone) : Turn(alone, i) \in Seq(Arguments) BY <3>2, TurnType
      <3> HIDE DEF Arguments
      <3>4. Len(alone) \in Nat
        <4> HIDE DEF Symbols
        <4> QED BY <3>2
      <3>5. p \in Seq(Seq(Arguments)) BY <3>3, <3>4
      <3> HIDE DEF p
      <3> QED BY <3>1, <3>5, FlattenType, Zenon
    <2> QED BY <2>5, <2>7, <2>8, <2>9, Zenon
  <1> QED BY <1>1, <1>2

(* Of no string come no values.                                             *)
LEMMA GetNothing == getStrings(<<>>) = <<>> /\ IsJoined(<<>>)
  <1> DEFINE p == [i \in 1..0 |-> Turn(<<>>, i)]
  <1>1. getStrings(<<>>) = FlattenSeq(p)
    <2>1. Len(<<>>) = 0 OBVIOUS
    <2> QED BY <2>1, Zenon DEF getStrings, Turn, Semi
  <1>2. p = <<>> OBVIOUS
  <1> HIDE DEF p
  <1> QED BY <1>1, <1>2, FlattenNothing DEF IsJoined
-----------------------------------------------------------------------------
(* The line.                                                                *)

(* What is known of the line a user typed.                                  *)
LineOK ==
    /\ parser \in {SenderParser, ReceiverParser, ConnectorParser}
    /\ line \in Seq({line[k] : k \in DOMAIN line})
    /\ \A k \in 1..Len(line) : IsSetting(parser, line[k], k = Len(line))

(* A setting that may be the last may be one of the others.                 *)
LEMMA SettingMonotone ==
    ASSUME NEW p, NEW setting, NEW a \in BOOLEAN, NEW b \in BOOLEAN, a => b,
           IsSetting(p, setting, a)
    PROVE  IsSetting(p, setting, b)
  BY Zenon DEF IsSetting

(* A setting is typed as one argument or two.                               *)
LEMMA TypedType ==
    ASSUME parser \in {SenderParser, ReceiverParser, ConnectorParser},
           NEW setting, NEW last, IsSetting(parser, setting, last)
    PROVE  Typed(setting) \in Seq(Arguments) /\ Typed(setting) # <<>>
  <1> DEFINE style == setting.style
             o == setting.option
             v == setting.value
             typed == Typed(setting)
             long == <<"-", "-", o>>
             given == <<"-", "-", o>> \o <<"=">> \o v
             end == <<"-", "-">>
             l == CHOOSE k \in DOMAIN ShortOpts : ShortOpts[k] = o
             short == <<"-", l>>
             joined == short \o v
  <1>1. /\ o \in Symbols /\ o # "=" /\ v \in Seq(Symbols)
        /\ style \in {"equals", "next", "bare", "short", "joined", "letter",
                      "plain", "end"}
        /\ style \in {"short", "joined"} => \E k \in Letters : ShortOpts[k] = o
    BY SettingFacts
  <1>2. /\ style = "equals" => typed = <<given>>
        /\ style = "next" => typed = <<long, v>>
        /\ style = "joined" => typed = <<joined>>
        /\ style = "short" => typed = <<short, v>>
        /\ style = "bare" => typed = <<long>>
        /\ style \in {"plain", "letter"} => typed = <<v>>
        /\ style = "end" => typed = <<end>>
    BY TypedFacts
  <1>3. style \in {"short", "joined"} => l \in Symbols
    <2>1. DOMAIN ShortOpts = Letters BY LetterFacts
    <2>2. style \in {"short", "joined"} => l \in Letters BY <1>1, <2>1
    <2> QED BY <2>2, SymbolFacts, Zenon
  <1> HIDE DEF l
  <1>4. long \in Arguments /\ given \in Arguments /\ v \in Arguments /\ end \in Arguments
    <2>1. long \in Seq(Symbols) BY <1>1, LongBare
    <2>2. given \in Seq(Symbols) BY <1>1, LongGiven
    <2>3. end \in Seq(Symbols) BY SymbolFacts, TwoFacts, Zenon
    <2> QED BY <1>1, <2>1, <2>2, <2>3, Zenon DEF Arguments
  <1>5. style \in {"short", "joined"} => short \in Arguments /\ joined \in Arguments
    <2>1. SUFFICES ASSUME l \in Symbols PROVE short \in Seq(Symbols) /\ joined \in Seq(Symbols)
      BY <1>3, Zenon DEF Arguments
    <2>2. short \in Seq(Symbols) BY <2>1, SymbolFacts, TwoFacts, Zenon
    <2> HIDE DEF short
    <2> QED BY <1>1, <2>2, BothFacts
  <1> HIDE DEF style, typed, long, given, end, short, joined, v, Arguments
  <1>6. \A a \in Arguments : <<a>> \in Seq(Arguments) /\ <<a>> # <<>> OBVIOUS
  <1>7. \A a, b \in Arguments : <<a, b>> \in Seq(Arguments) /\ <<a, b>> # <<>>
    OBVIOUS
  <1>8. typed \in Seq(Arguments) /\ typed # <<>>
    <2>1. CASE style = "equals" BY <1>2, <1>4, <1>6, <2>1, Zenon
    <2>2. CASE style = "next" BY <1>2, <1>4, <1>7, <2>2, Zenon
    <2>3. CASE style = "bare" BY <1>2, <1>4, <1>6, <2>3, Zenon
    <2>4. CASE style = "short" BY <1>2, <1>4, <1>5, <1>7, <2>4, Zenon
    <2>5. CASE style = "joined" BY <1>2, <1>5, <1>6, <2>5, Zenon
    <2>6. CASE style \in {"plain", "letter"} BY <1>2, <1>4, <1>6, <2>6, Zenon
    <2>7. CASE style = "end" BY <1>2, <1>4, <1>6, <2>7, Zenon
    <2> QED BY <1>1, <2>1, <2>2, <2>3, <2>4, <2>5, <2>6, <2>7
  <1> QED BY <1>8 DEF typed

(* What is still to come behind the first n settings.                       *)
Left(n) == AllTyped(SubSeq(line, n + 1, Len(line)))

(* The line from behind its first n settings.                               *)
LEMMA LineFrom ==
    ASSUME LineOK, NEW n \in 0..Len(line)
    PROVE  LET s == SubSeq(line, n + 1, Len(line))
           IN  DOMAIN s = 1..(Len(line) - n) /\ \A i \in 1..(Len(line) - n) : s[i] = line[n + i]
  <1> DEFINE S == {line[k] : k \in DOMAIN line}
             s == SubSeq(line, n + 1, Len(line))
  <1>1. line \in Seq(S) BY DEF LineOK
  <1> HIDE DEF S
  <1>2. Len(line) \in Nat BY <1>1
  <1>3. \A i \in (n + 1)..Len(line) : line[i] \in S BY <1>1
  <1>4. /\ s \in Seq(S)
        /\ Len(s) = IF n + 1 <= Len(line) THEN Len(line) - (n + 1) + 1 ELSE 0
        /\ \A i \in 1..(Len(line) - (n + 1) + 1) : s[i] = line[(n + 1) + i - 1]
    BY <1>2, <1>3, SubSeqProperties
  <1> HIDE DEF s
  <1>5. Len(s) = Len(line) - n BY <1>2, <1>4
  <1>6. DOMAIN s = 1..Len(s) BY <1>4
  <1>7. \A i \in 1..(Len(line) - n) : s[i] = line[n + i]
    <2> SUFFICES ASSUME NEW i \in 1..(Len(line) - n) PROVE s[i] = line[n + i] OBVIOUS
    <2>1. i \in 1..(Len(line) - (n + 1) + 1) /\ (n + 1) + i - 1 = n + i BY <1>2
    <2> QED BY <1>4, <2>1
  <1> QED BY <1>5, <1>6, <1>7 DEF s

(* Behind the last there is nothing; before another one there is that.      *)
LEMMA LeftFacts ==
    ASSUME LineOK
    PROVE  /\ Left(0) = AllTyped(line)
           /\ \A n \in 0..Len(line) : Left(n) \in Seq(Arguments)
           /\ Left(Len(line)) = <<>> /\ Left(Len(line) + 1) = <<>>
           /\ \A n \in 0..(Len(line) - 1) : Left(n) = Typed(line[n + 1]) \o Left(n + 1)
  <1> DEFINE S == {line[k] : k \in DOMAIN line}
             Rest(n) == SubSeq(line, n + 1, Len(line))
             T(n) == [i \in DOMAIN Rest(n) |-> Typed(Rest(n)[i])]
  <1>1. line \in Seq(S) BY DEF LineOK
  <1> HIDE DEF S
  <1>2. Len(line) \in Nat BY <1>1
  <1>3. \A k \in 1..Len(line) : Typed(line[k]) \in Seq(Arguments)
    <2> SUFFICES ASSUME NEW k \in 1..Len(line) PROVE Typed(line[k]) \in Seq(Arguments)
      OBVIOUS
    <2>1. /\ parser \in {SenderParser, ReceiverParser, ConnectorParser}
          /\ IsSetting(parser, line[k], k = Len(line))
      BY DEF LineOK
    <2> QED BY <2>1, TypedType
  <1>4. \A n : Left(n) = FlattenSeq(T(n)) BY Zenon DEF Left, AllTyped
  <1>5. ASSUME NEW n \in 0..Len(line)
        PROVE  /\ T(n) \in Seq(Seq(Arguments)) /\ Len(T(n)) = Len(line) - n
               /\ \A i \in 1..(Len(line) - n) : T(n)[i] = Typed(line[n + i])
    <2> DEFINE t == T(n)
    <2>1. /\ DOMAIN t = 1..(Len(line) - n)
          /\ \A i \in 1..(Len(line) - n) : t[i] = Typed(line[n + i])
          /\ t = [i \in 1..(Len(line) - n) |-> t[i]]
      <3>1. /\ DOMAIN Rest(n) = 1..(Len(line) - n)
            /\ \A i \in 1..(Len(line) - n) : Rest(n)[i] = line[n + i]
        BY LineFrom
      <3> HIDE DEF Rest
      <3> QED BY <3>1
    <2>2. Len(line) - n \in Nat BY <1>2
    <2>3. \A i \in 1..(Len(line) - n) : n + i \in 1..Len(line) BY <1>2
    <2>4. \A i \in 1..(Len(line) - n) : t[i] \in Seq(Arguments) BY <1>3, <2>1, <2>3
    <2> HIDE DEF t, Arguments
    <2>5. t \in Seq(Seq(Arguments)) /\ Len(t) = Len(line) - n
      BY <2>1, <2>2, <2>4
    <2> QED BY <2>1, <2>5 DEF t
  <1> HIDE DEF T, Arguments
  <1>6. Left(0) = AllTyped(line)
    <2>1. Rest(0) = line BY <1>1, <1>2, SubSeqFull
    <2> QED BY <2>1, Zenon DEF Left
  <1>7. \A n \in 0..Len(line) : Left(n) \in Seq(Arguments)
    BY <1>4, <1>5, FlattenType
  <1>8. Left(Len(line)) = <<>>
    <2>1. Len(line) \in 0..Len(line) /\ Len(line) - Len(line) = 0 BY <1>2
    <2>2. T(Len(line)) \in Seq(Seq(Arguments)) /\ Len(T(Len(line))) = 0 BY <1>5, <2>1
    <2>3. T(Len(line)) = <<>> BY <2>2
    <2> QED BY <1>4, <2>3, FlattenNothing
  <1>9. Left(Len(line) + 1) = <<>>
    <2>1. Rest(Len(line) + 1) = <<>> BY <1>2, SubSeqEmpty
    <2>2. T(Len(line) + 1) = <<>>
      <3> HIDE DEF Rest
      <3> QED BY <2>1 DEF T
    <2> QED BY <1>4, <2>2, FlattenNothing
  <1>10. ASSUME NEW n \in 0..(Len(line) - 1)
         PROVE  Left(n) = Typed(line[n + 1]) \o Left(n + 1)
    <2>1. n \in 0..Len(line) /\ n + 1 \in 0..Len(line) BY <1>2
    <2>2. Len(T(n)) = Len(T(n + 1)) + 1 BY <1>2, <1>5, <2>1
    <2>3. T(n)[1] = Typed(line[n + 1])
      <3>1. 1 \in 1..(Len(line) - n) BY <1>2
      <3> QED BY <1>5, <2>1, <3>1
    <2>4. \A i \in 1..Len(T(n + 1)) : T(n)[i + 1] = T(n + 1)[i]
      <3> SUFFICES ASSUME NEW i \in 1..(Len(line) - (n + 1))
                   PROVE  T(n)[i + 1] = T(n + 1)[i]
        BY <1>5, <2>1
      <3>1. i + 1 \in 1..(Len(line) - n) /\ n + (i + 1) = (n + 1) + i BY <1>2
      <3>2. T(n)[i + 1] = Typed(line[n + (i + 1)]) BY <1>5, <2>1, <3>1
      <3>3. T(n + 1)[i] = Typed(line[(n + 1) + i]) BY <1>5, <2>1
      <3> QED BY <3>1, <3>2, <3>3
    <2>5. FlattenSeq(T(n)) = T(n)[1] \o FlattenSeq(T(n + 1))
      BY <1>5, <2>1, <2>2, <2>4, FlattenFirst
    <2> QED BY <1>4, <2>3, <2>5, Zenon
  <1> QED BY <1>6, <1>7, <1>8, <1>9, <1>10
-----------------------------------------------------------------------------
(* How far the parser is.                                                   *)

(* The options and the other arguments among the first n settings, those    *)
(* that give one option, and what some of them give.                        *)
OptionsTo(n) == {k \in 1..n : line[k].style # "plain"}
PlainTo(n) == {k \in 1..n : line[k].style = "plain"}
Given(option, n) == {k \in OptionsTo(n) : line[k].option = option}
ValuesTo(n, places) ==
    FlattenSeq([k \in 1..n |-> IF k \in places THEN <<line[k].value>> ELSE <<>>])
ArrivedTo(n, places) ==
    FlattenSeq([k \in 1..n |-> IF k \in places THEN Arrived(line[k].value) ELSE <<>>])

NoneStops(n) ==
    \A k \in 1..n : line[k].style # "end" /\ (line[k].style # "plain" => ~Stops(line[k]))

ValuesRead(n) ==
    /\ DOMAIN values = {line[k].option : k \in OptionsTo(n)} \ ItemOptions
    /\ \A o \in DOMAIN values : \E k \in Given(o, n) :
           /\ \A j \in Given(o, n) : j <= k
           /\ values[o] = IF o \in FlagOptions THEN <<"1">> ELSE line[k].value

ItemsRead(n) ==
    /\ DOMAIN appended = ItemOptions
    /\ \A o \in ItemOptions :
           IsJoined(appended[o]) /\ getStrings(appended[o]) = ArrivedTo(n, Given(o, n))

PlainRead(n, rest) == leftover = ValuesTo(n, PlainTo(n)) \o rest

(* The first n settings are done, and nothing else.                         *)
HasRead(n) == NoneStops(n) /\ ValuesRead(n) /\ ItemsRead(n) /\ PlainRead(n, <<>>)

(* All of the line is done: the settings before "--", and what is behind it. *)
AllRead ==
    \E n \in 0..Len(line) :
        /\ n < Len(line) => line[n + 1].style = "end"
        /\ NoneStops(n) /\ ValuesRead(n) /\ ItemsRead(n) /\ PlainRead(n, Left(n + 1))

(* The first setting to stop at is the n-th.                                *)
StopsAt(n) ==
    /\ n \in 1..Len(line) /\ NoneStops(n - 1)
    /\ line[n].style \notin {"plain", "end"} /\ Stops(line[n])

(* The inductive invariant.                                                 *)
LineInv ==
    /\ LineOK
    /\ status = "parsing" =>
           \/ \E n \in 0..Len(line) : HasRead(n) /\ remaining = Left(n)
           \/ AllRead /\ remaining = <<>>
    /\ status \in {"parsed", "invalid", "running"} => AllRead
    /\ status = "success" => \E n : StopsAt(n) /\ line[n].option \in Exiting
    /\ status = "usage error" => \E n : StopsAt(n) /\ line[n].option \notin Exiting
    /\ status \in {"parsing", "parsed", "invalid", "running", "success", "usage error"}

(* One more of the values.                                                  *)
LEMMA OneMoreValue ==
    ASSUME LineOK, NEW n \in 0..(Len(line) - 1), NEW P, NEW Q,
           \A k \in 1..n : k \in P <=> k \in Q
    PROVE  /\ ValuesTo(n, P) \in Seq(Arguments)
           /\ n + 1 \in Q => ValuesTo(n + 1, Q) = ValuesTo(n, P) \o <<line[n + 1].value>>
           /\ n + 1 \notin Q => ValuesTo(n + 1, Q) = ValuesTo(n, P)
  <1> DEFINE Entry(k, places) == IF k \in places THEN <<line[k].value>> ELSE <<>>
             p == [k \in 1..n |-> Entry(k, P)]
             q == [k \in 1..(n + 1) |-> Entry(k, Q)]
  <1>1. Len(line) \in Nat
    <2> DEFINE S == {line[k] : k \in DOMAIN line}
    <2>1. line \in Seq(S) BY DEF LineOK
    <2> HIDE DEF S
    <2> QED BY <2>1
  <1>2. ASSUME NEW k \in 1..Len(line) PROVE line[k].value \in Arguments
    <2>1. /\ parser \in {SenderParser, ReceiverParser, ConnectorParser}
          /\ IsSetting(parser, line[k], k = Len(line))
      BY DEF LineOK
    <2> QED BY <2>1, SettingFacts DEF Arguments
  <1> HIDE DEF Arguments
  <1>3. \A k \in 1..Len(line) : \A places : Entry(k, places) \in Seq(Arguments)
    BY <1>2
  <1>4. \A k \in 1..(n + 1) : k \in 1..Len(line) BY <1>1
  <1>5. ValuesTo(n, P) = FlattenSeq(p) /\ ValuesTo(n + 1, Q) = FlattenSeq(q)
    BY Zenon DEF ValuesTo
  <1> HIDE DEF Entry
  <1>6. /\ p \in Seq(Seq(Arguments)) /\ Len(p) = n
        /\ q \in Seq(Seq(Arguments)) /\ Len(q) = n + 1
    BY <1>3, <1>4
  <1>7. FlattenSeq(q) = FlattenSeq(p) \o Entry(n + 1, Q)
    <2>1. Len(q) = Len(p) + 1 BY <1>6
    <2>2. \A k \in 1..Len(p) : q[k] = p[k] BY <1>6 DEF Entry
    <2>3. q[Len(q)] = Entry(n + 1, Q) BY <1>6
    <2> HIDE DEF p, q
    <2>4. FlattenSeq(q) = FlattenSeq(p) \o q[Len(q)]
      BY <1>6, <2>1, <2>2, FlattenLast
    <2> QED BY <2>3, <2>4, Zenon
  <1>8. FlattenSeq(p) \in Seq(Arguments) BY <1>6, FlattenType
  <1>9. FlattenSeq(p) \o <<>> = FlattenSeq(p) BY <1>8, ConcatEmptySeq
  <1> HIDE DEF p, q
  <1> QED BY <1>5, <1>7, <1>8, <1>9, Zenon DEF Entry

(* One more of the items that arrive.                                       *)
LEMMA OneMoreArrival ==
    ASSUME LineOK, NEW n \in 0..(Len(line) - 1), NEW P, NEW Q,
           \A k \in 1..n : k \in P <=> k \in Q
    PROVE  /\ n + 1 \in Q =>
                  ArrivedTo(n + 1, Q) = ArrivedTo(n, P) \o Arrived(line[n + 1].value)
           /\ n + 1 \notin Q => ArrivedTo(n + 1, Q) = ArrivedTo(n, P)
  <1> DEFINE Entry(k, places) == IF k \in places THEN Arrived(line[k].value) ELSE <<>>
             p == [k \in 1..n |-> Entry(k, P)]
             q == [k \in 1..(n + 1) |-> Entry(k, Q)]
  <1>1. Len(line) \in Nat
    <2> DEFINE S == {line[k] : k \in DOMAIN line}
    <2>1. line \in Seq(S) BY DEF LineOK
    <2> HIDE DEF S
    <2> QED BY <2>1
  <1>2. ASSUME NEW k \in 1..Len(line) PROVE Arrived(line[k].value) \in Seq(Arguments)
    <2>1. /\ parser \in {SenderParser, ReceiverParser, ConnectorParser}
          /\ IsSetting(parser, line[k], k = Len(line))
      BY DEF LineOK
    <2>2. line[k].value \in Seq(Symbols) BY <2>1, SettingFacts
    <2>3. IsJoined(<<>>) BY GetNothing
    <2> QED BY <2>2, <2>3, GetArrived
  <1> HIDE DEF Arguments
  <1>3. \A k \in 1..Len(line) : \A places : Entry(k, places) \in Seq(Arguments)
    BY <1>2
  <1>4. \A k \in 1..(n + 1) : k \in 1..Len(line) BY <1>1
  <1>5. ArrivedTo(n, P) = FlattenSeq(p) /\ ArrivedTo(n + 1, Q) = FlattenSeq(q)
    BY Zenon DEF ArrivedTo
  <1> HIDE DEF Entry
  <1>6. /\ p \in Seq(Seq(Arguments)) /\ Len(p) = n
        /\ q \in Seq(Seq(Arguments)) /\ Len(q) = n + 1
    BY <1>3, <1>4
  <1>7. FlattenSeq(q) = FlattenSeq(p) \o Entry(n + 1, Q)
    <2>1. Len(q) = Len(p) + 1 BY <1>6
    <2>2. \A k \in 1..Len(p) : q[k] = p[k] BY <1>6 DEF Entry
    <2>3. q[Len(q)] = Entry(n + 1, Q) BY <1>6
    <2> HIDE DEF p, q
    <2>4. FlattenSeq(q) = FlattenSeq(p) \o q[Len(q)]
      BY <1>6, <2>1, <2>2, FlattenLast
    <2> QED BY <2>3, <2>4, Zenon
  <1>8. FlattenSeq(p) \in Seq(Arguments) BY <1>6, FlattenType
  <1>9. FlattenSeq(p) \o <<>> = FlattenSeq(p) BY <1>8, ConcatEmptySeq
  <1> HIDE DEF p, q
  <1> QED BY <1>5, <1>7, <1>9, Zenon DEF Entry

(* Before the first none has arrived.                                       *)
LEMMA NoArrivals == \A P : ArrivedTo(0, P) = <<>>
  <1> SUFFICES ASSUME NEW P PROVE ArrivedTo(0, P) = <<>> OBVIOUS
  <1> DEFINE p == [k \in 1..0 |-> IF k \in P THEN Arrived(line[k].value) ELSE <<>>]
  <1>1. p = <<>> OBVIOUS
  <1>2. ArrivedTo(0, P) = FlattenSeq(p) BY DEF ArrivedTo
  <1> HIDE DEF p
  <1> QED BY <1>1, <1>2, FlattenNothing

(* Before the first there are none.                                         *)
LEMMA NoValues == \A P : ValuesTo(0, P) = <<>>
  <1> SUFFICES ASSUME NEW P PROVE ValuesTo(0, P) = <<>> OBVIOUS
  <1> DEFINE p == [k \in 1..0 |-> IF k \in P THEN <<line[k].value>> ELSE <<>>]
  <1>1. p = <<>> OBVIOUS
  <1>2. ValuesTo(0, P) = FlattenSeq(p) BY DEF ValuesTo
  <1> HIDE DEF p
  <1> QED BY <1>1, <1>2, FlattenNothing

(* What the next setting is counted among.                                  *)
LEMMA NextFacts ==
    ASSUME NEW n \in Nat
    PROVE  /\ line[n + 1].style = "plain" =>
                  /\ OptionsTo(n + 1) = OptionsTo(n)
                  /\ PlainTo(n + 1) = PlainTo(n) \union {n + 1}
                  /\ \A o : Given(o, n + 1) = Given(o, n)
           /\ line[n + 1].style # "plain" =>
                  /\ OptionsTo(n + 1) = OptionsTo(n) \union {n + 1}
                  /\ PlainTo(n + 1) = PlainTo(n)
                  /\ \A o : Given(o, n + 1) =
                         IF o = line[n + 1].option THEN Given(o, n) \union {n + 1}
                                                   ELSE Given(o, n)
  <1>1. \A k : k \in 1..(n + 1) <=> k \in 1..n \/ k = n + 1 OBVIOUS
  <1>2. /\ line[n + 1].style = "plain" =>
               /\ OptionsTo(n + 1) = OptionsTo(n)
               /\ PlainTo(n + 1) = PlainTo(n) \union {n + 1}
        /\ line[n + 1].style # "plain" =>
               /\ OptionsTo(n + 1) = OptionsTo(n) \union {n + 1}
               /\ PlainTo(n + 1) = PlainTo(n)
    BY <1>1 DEF OptionsTo, PlainTo
  <1> QED BY <1>2 DEF Given

(* What the line says stays as it is.                                       *)
LEMMA SameLine ==
    ASSUME UNCHANGED <<parser, line>>
    PROVE  /\ LineOK => LineOK'
           /\ FlagOptions' = FlagOptions /\ ItemOptions' = ItemOptions
           /\ \A n : Left(n)' = Left(n)
           /\ \A n : OptionsTo(n)' = OptionsTo(n) /\ PlainTo(n)' = PlainTo(n)
           /\ \A o, n : Given(o, n)' = Given(o, n)
           /\ \A n, P : ValuesTo(n, P)' = ValuesTo(n, P)
           /\ \A n, P : ArrivedTo(n, P)' = ArrivedTo(n, P)
           /\ \A n : NoneStops(n) => NoneStops(n)'
           /\ \A n : StopsAt(n) => StopsAt(n)'
  <1>1. /\ FlagOptions' = FlagOptions /\ ItemOptions' = ItemOptions
        /\ IntOptions' = IntOptions /\ StringOptions' = StringOptions
        /\ ShortOpts' = ShortOpts
    BY DEF FlagOptions, ItemOptions, IntOptions, StringOptions, ShortOpts
  <1>2. LineOK => LineOK' BY DEF LineOK
  <1>3. \A n : Left(n)' = Left(n) BY <1>1 DEF Left, AllTyped, Typed
  <1>4. /\ \A n : OptionsTo(n)' = OptionsTo(n) /\ PlainTo(n)' = PlainTo(n)
        /\ \A o, n : Given(o, n)' = Given(o, n)
    BY DEF OptionsTo, PlainTo, Given
  <1>5. /\ \A n, P : ValuesTo(n, P)' = ValuesTo(n, P)
        /\ \A n, P : ArrivedTo(n, P)' = ArrivedTo(n, P)
    BY DEF ValuesTo, ArrivedTo
  <1>6. \A s : Stops(s)' <=> Stops(s)
    BY <1>1 DEF Stops, Wrong, LongOpts, Valued
  <1>7. \A n : NoneStops(n) => NoneStops(n)' BY <1>6 DEF NoneStops
  <1>8. \A n : StopsAt(n) => StopsAt(n)' BY <1>6, <1>7 DEF StopsAt
  <1> QED BY <1>1, <1>2, <1>3, <1>4, <1>5, <1>7, <1>8

(* One more option.                                                         *)
LEMMA ValuesStep ==
    ASSUME LineOK, UNCHANGED <<parser, line>>, NEW n \in Nat,
           line[n + 1].style # "plain", ValuesRead(n), Does(line[n + 1])
    PROVE  ValuesRead(n + 1)'
  <1> DEFINE o == line[n + 1].option
             v == line[n + 1].value
  <1>1. /\ OptionsTo(n + 1) = OptionsTo(n) \union {n + 1}
        /\ \A q : Given(q, n + 1) = IF q = o THEN Given(q, n) \union {n + 1}
                                             ELSE Given(q, n)
    BY NextFacts
  <1>2. {line[k].option : k \in OptionsTo(n + 1)} =
            {line[k].option : k \in OptionsTo(n)} \union {o}
    BY <1>1
  <1>3. \A q : \A k \in Given(q, n) : k <= n + 1 BY DEF Given, OptionsTo
  <1>4. /\ FlagOptions' = FlagOptions /\ ItemOptions' = ItemOptions
        /\ OptionsTo(n + 1)' = OptionsTo(n + 1)
        /\ \A q : Given(q, n + 1)' = Given(q, n + 1)
        /\ line' = line
    BY SameLine
  <1>5. /\ DOMAIN values = {line[k].option : k \in OptionsTo(n)} \ ItemOptions
        /\ \A q \in DOMAIN values : \E k \in Given(q, n) :
               /\ \A j \in Given(q, n) : j <= k
               /\ values[q] = IF q \in FlagOptions THEN <<"1">> ELSE line[k].value
    BY DEF ValuesRead
  <1> HIDE DEF o
  <1>6. /\ DOMAIN values' = {line[k].option : k \in OptionsTo(n + 1)} \ ItemOptions
        /\ \A q \in DOMAIN values' : \E k \in Given(q, n + 1) :
               /\ \A j \in Given(q, n + 1) : j <= k
               /\ values'[q] = IF q \in FlagOptions THEN <<"1">> ELSE line[k].value
    <2>1. ASSUME NEW w, Set(o, w), o \notin ItemOptions,
                 w = IF o \in FlagOptions THEN <<"1">> ELSE v
          PROVE  /\ DOMAIN values' = {line[k].option : k \in OptionsTo(n + 1)} \ ItemOptions
                 /\ \A q \in DOMAIN values' : \E k \in Given(q, n + 1) :
                        /\ \A j \in Given(q, n + 1) : j <= k
                        /\ values'[q] = IF q \in FlagOptions THEN <<"1">> ELSE line[k].value
      <3>1. /\ DOMAIN values' = DOMAIN values \union {o}
            /\ values'[o] = w
            /\ \A q \in DOMAIN values \ {o} : values'[q] = values[q]
        BY <2>1, SetFacts
      <3>2. DOMAIN values' = {line[k].option : k \in OptionsTo(n + 1)} \ ItemOptions
        BY <1>2, <1>5, <2>1, <3>1
      <3>3. ASSUME NEW q \in DOMAIN values'
            PROVE  \E k \in Given(q, n + 1) :
                       /\ \A j \in Given(q, n + 1) : j <= k
                       /\ values'[q] = IF q \in FlagOptions THEN <<"1">> ELSE line[k].value
        <4>1. CASE q = o
          <5>1. n + 1 \in Given(q, n + 1) BY <1>1, <4>1
          <5>2. \A j \in Given(q, n + 1) : j <= n + 1
            <6>1. Given(q, n + 1) = Given(q, n) \union {n + 1} BY <1>1, <4>1
            <6>2. \A j \in Given(q, n) : j <= n + 1 BY <1>3
            <6>3. n + 1 <= n + 1 OBVIOUS
            <6> QED BY <6>1, <6>2, <6>3, Zenon
          <5>3. values'[q] = IF q \in FlagOptions THEN <<"1">> ELSE line[n + 1].value
            BY <2>1, <3>1, <4>1
          <5> QED BY <5>1, <5>2, <5>3
        <4>2. CASE q # o
          <5>1. q \in DOMAIN values /\ values'[q] = values[q] BY <3>1, <4>2
          <5>2. Given(q, n + 1) = Given(q, n) BY <1>1, <4>2
          <5> QED BY <1>5, <5>1, <5>2
        <4> QED BY <4>1, <4>2
      <3> QED BY <3>2, <3>3
    <2>2. CASE o \in IntOptions \union StringOptions /\ Set(o, v)
      <3>1. o \notin FlagOptions /\ o \notin ItemOptions BY <2>2, ClassFacts DEF LineOK
      <3> QED BY <2>1, <2>2, <3>1
    <2>3. CASE o \in FlagOptions /\ Set(o, <<"1">>)
      <3>1. o \notin ItemOptions BY <2>3, ClassFacts DEF LineOK
      <3> QED BY <2>1, <2>3, <3>1
    <2>4. CASE o \in ItemOptions /\ UNCHANGED values
      <3>1. DOMAIN values' = {line[k].option : k \in OptionsTo(n + 1)} \ ItemOptions
        BY <1>2, <1>5, <2>4
      <3>2. ASSUME NEW q \in DOMAIN values'
            PROVE  \E k \in Given(q, n + 1) :
                       /\ \A j \in Given(q, n + 1) : j <= k
                       /\ values'[q] = IF q \in FlagOptions THEN <<"1">> ELSE line[k].value
        <4>1. q \in DOMAIN values /\ values' = values /\ q # o BY <1>5, <2>4, <3>1
        <4>2. Given(q, n + 1) = Given(q, n) BY <1>1, <4>1
        <4> QED BY <1>5, <4>1, <4>2
      <3> QED BY <3>1, <3>2
    <2> QED BY <2>2, <2>3, <2>4 DEF Does, o
  <1> QED BY <1>4, <1>6 DEF ValuesRead

(* One more item, or one more option that is none.                          *)
LEMMA ItemsStep ==
    ASSUME LineOK, UNCHANGED <<parser, line>>, NEW n \in 0..(Len(line) - 1),
           line[n + 1].style # "plain", ItemsRead(n), Does(line[n + 1])
    PROVE  ItemsRead(n + 1)'
  <1> DEFINE o == line[n + 1].option
             v == line[n + 1].value
  <1>1. \A q : Given(q, n + 1) = IF q = o THEN Given(q, n) \union {n + 1}
                                          ELSE Given(q, n)
    <2>1. n \in Nat OBVIOUS
    <2> QED BY <2>1, NextFacts
  <1>2. \A q : n + 1 \notin Given(q, n) BY DEF Given, OptionsTo
  <1>3. ASSUME NEW q
        PROVE  ArrivedTo(n + 1, Given(q, n + 1)) =
                   IF q = o THEN ArrivedTo(n, Given(q, n)) \o Arrived(v)
                            ELSE ArrivedTo(n, Given(q, n))
    <2>1. \A k \in 1..n : k \in Given(q, n) <=> k \in Given(q, n + 1)
      <3>1. \A k \in 1..n : k # n + 1 OBVIOUS
      <3> QED BY <1>1, <3>1, Zenon
    <2>2. n + 1 \in Given(q, n + 1) <=> q = o BY <1>1, <1>2
    <2> HIDE DEF o, v
    <2>3. /\ n + 1 \in Given(q, n + 1) =>
                 ArrivedTo(n + 1, Given(q, n + 1)) =
                     ArrivedTo(n, Given(q, n)) \o Arrived(line[n + 1].value)
          /\ n + 1 \notin Given(q, n + 1) =>
                 ArrivedTo(n + 1, Given(q, n + 1)) = ArrivedTo(n, Given(q, n))
      BY <2>1, OneMoreArrival, Zenon
    <2> QED BY <2>2, <2>3, Zenon DEF v
  <1>4. /\ ItemOptions' = ItemOptions
        /\ \A q : ArrivedTo(n + 1, Given(q, n + 1))' = ArrivedTo(n + 1, Given(q, n + 1))
    <2>1. \A q : Given(q, n + 1)' = Given(q, n + 1) BY SameLine
    <2>2. line' = line OBVIOUS
    <2> QED BY <2>1, <2>2, SameLine DEF ArrivedTo
  <1>5. v \in Seq(Symbols)
    <2>1. /\ parser \in {SenderParser, ReceiverParser, ConnectorParser}
          /\ IsSetting(parser, line[n + 1], n + 1 = Len(line))
      BY DEF LineOK
    <2> QED BY <2>1, SettingFacts
  <1>6. /\ DOMAIN appended = ItemOptions
        /\ \A q \in ItemOptions : /\ IsJoined(appended[q])
                                  /\ getStrings(appended[q]) = ArrivedTo(n, Given(q, n))
    BY DEF ItemsRead
  <1> HIDE DEF o, v
  <1>7. /\ DOMAIN appended' = ItemOptions
        /\ \A q \in ItemOptions :
               /\ IsJoined(appended'[q])
               /\ getStrings(appended'[q]) = ArrivedTo(n + 1, Given(q, n + 1))
    <2>1. CASE o \notin ItemOptions /\ UNCHANGED appended
      <3>1. \A q \in ItemOptions : ArrivedTo(n + 1, Given(q, n + 1)) = ArrivedTo(n, Given(q, n))
        BY <1>3, <2>1, Zenon
      <3> QED BY <1>6, <2>1, <3>1, Zenon
    <2>2. CASE o \in ItemOptions /\ appended' = [appended EXCEPT ![o] = append(@, v)]
      <3>1. /\ DOMAIN appended' = ItemOptions
            /\ appended'[o] = append(appended[o], v)
            /\ \A q \in ItemOptions : q # o => appended'[q] = appended[q]
        BY <1>6, <2>2, Zenon
      <3>2. /\ IsJoined(append(appended[o], v))
            /\ getStrings(append(appended[o], v)) = getStrings(appended[o]) \o Arrived(v)
        BY <1>5, <1>6, <2>2, GetArrived
      <3>3. ASSUME NEW q \in ItemOptions
            PROVE  /\ IsJoined(appended'[q])
                   /\ getStrings(appended'[q]) = ArrivedTo(n + 1, Given(q, n + 1))
        <4>1. CASE q = o BY <1>3, <1>6, <3>1, <3>2, <4>1, Zenon
        <4>2. CASE q # o BY <1>3, <1>6, <3>1, <4>2, Zenon
        <4> QED BY <4>1, <4>2
      <3> QED BY <3>1, <3>3
    <2>3. \/ o \notin ItemOptions /\ UNCHANGED appended
          \/ o \in ItemOptions /\ appended' = [appended EXCEPT ![o] = append(@, v)]
      <3>1. CASE \E w : o \in IntOptions \union StringOptions \union FlagOptions /\ Set(o, w)
        <4>1. o \notin ItemOptions BY <3>1, ClassFacts DEF LineOK
        <4>2. UNCHANGED appended BY <3>1 DEF Set
        <4> QED BY <4>1, <4>2
      <3>2. CASE /\ o \in ItemOptions
                 /\ appended' = [appended EXCEPT ![o] = append(@, v)]
        BY <3>2
      <3>3. \/ /\ o \in IntOptions \union StringOptions
               /\ Set(o, v)
            \/ /\ o \in FlagOptions
               /\ Set(o, <<"1">>)
            \/ /\ o \in ItemOptions
               /\ appended' = [appended EXCEPT ![o] = append(@, v)]
        BY Zenon DEF Does, o, v
      <3> QED BY <3>1, <3>2, <3>3
    <2> QED BY <2>1, <2>2, <2>3
  <1> QED BY <1>4, <1>7, Zenon DEF ItemsRead

(* A setting for the parser that is not the last one counts.                *)
LEMMA IsAhead ==
    ASSUME LineOK, NEW n \in 0..(Len(line) - 1),
           line[n + 1].style \notin {"plain", "end"},
           remaining = Left(n), parse_args
    PROVE  Ahead(line[n + 1], Left(n + 1))
  <1>1. Len(line) \in Nat
    <2> DEFINE S == {line[k] : k \in DOMAIN line}
    <2>1. line \in Seq(S) BY DEF LineOK
    <2> HIDE DEF S
    <2> QED BY <2>1
  <1>2. n + 1 \in 1..Len(line) /\ n + 1 \in 0..Len(line) BY <1>1
  <1>3. Left(n) = Typed(line[n + 1]) \o Left(n + 1) /\ Left(n + 1) \in Seq(Arguments)
    BY <1>2, LeftFacts, Zenon
  <1>4. n + 1 = Len(line) => Left(n + 1) = <<>> BY LeftFacts, Zenon
  <1>5. IsSetting(parser, line[n + 1], Left(n + 1) = <<>>)
    <2>1. IsSetting(parser, line[n + 1], n + 1 = Len(line)) BY <1>2, Zenon DEF LineOK
    <2>2. (n + 1 = Len(line)) \in BOOLEAN /\ (Left(n + 1) = <<>>) \in BOOLEAN OBVIOUS
    <2> QED BY <1>4, <2>1, <2>2, SettingMonotone, Zenon
  <1>6. parser \in {SenderParser, ReceiverParser, ConnectorParser} BY DEF LineOK
  <1> QED BY <1>3, <1>5, <1>6, Zenon DEF Ahead

(* The option of the next setting.                                          *)
LEMMA OptionStep ==
    ASSUME LineOK, LineOK', NEW n \in 0..(Len(line) - 1), HasRead(n),
           status = "parsing", remaining = Left(n), parse_args, UNCHANGED line,
           line[n + 1].style \notin {"plain", "end"}
    PROVE  LineInv'
  <1> DEFINE s == line[n + 1]
  <1>1. Len(line) \in Nat
    <2> DEFINE S == {line[k] : k \in DOMAIN line}
    <2>1. line \in Seq(S) BY DEF LineOK
    <2> HIDE DEF S
    <2> QED BY <2>1
  <1>2. /\ n + 1 \in 1..Len(line) /\ n + 1 \in 0..Len(line) /\ (n + 1) - 1 = n
        /\ n \in Nat
    BY <1>1
  <1>3. UNCHANGED <<parser, line>> BY DEF parse_args
  <1>4. Obeys(s) /\ (~Stops(s) => remaining' = Left(n + 1)) BY IsAhead, SettingObeys
  <1>5. s.style \notin {"plain", "end"} OBVIOUS
  <1> HIDE DEF s
  <1>6. CASE Stops(s)
    <2> DEFINE code == IF s.option \in Exiting THEN "success" ELSE "usage error"
    <2>1. Quit(code) BY <1>4, <1>6 DEF Obeys
    <2>2. status' = code BY <2>1 DEF Quit
    <2>3. StopsAt(n + 1) BY <1>2, <1>5, <1>6 DEF StopsAt, HasRead, s
    <2>4. StopsAt(n + 1)' BY <1>3, <2>3, SameLine
    <2>5. line'[n + 1].option = s.option BY <1>3 DEF s
    <2> HIDE DEF code
    <2>6. s.option \in Exiting => status' = "success" BY <2>2 DEF code
    <2>7. s.option \notin Exiting => status' = "usage error" BY <2>2 DEF code
    <2>8. CASE s.option \in Exiting
      <3>1. status' = "success" BY <2>6, <2>8
      <3>2. \E m : StopsAt(m)' /\ line'[m].option \in Exiting
        BY <2>4, <2>5, <2>8
      <3> QED BY <3>1, <3>2 DEF LineInv
    <2>9. CASE s.option \notin Exiting
      <3>1. status' = "usage error" BY <2>7, <2>9
      <3>2. \E m : StopsAt(m)' /\ line'[m].option \notin Exiting
        BY <2>4, <2>5, <2>9
      <3> QED BY <3>1, <3>2 DEF LineInv
    <2> QED BY <2>8, <2>9
  <1>7. CASE ~Stops(s)
    <2>1. Does(s) /\ remaining' = Left(n + 1) BY <1>4, <1>7 DEF Obeys
    <2>2. status' = status /\ leftover' = leftover
      BY <2>1 DEF Does, Set
    <2>3. s.style # "plain" /\ s.style # "end" BY <1>5
    <2>4. NoneStops(n + 1)'
      <3>1. NoneStops(n + 1)
        <4>1. \A k \in 1..(n + 1) : k \in 1..n \/ k = n + 1 BY <1>2
        <4>2. NoneStops(n) BY DEF HasRead
        <4> QED BY <1>7, <2>3, <4>1, <4>2 DEF NoneStops, s
      <3> QED BY <1>3, <3>1, SameLine
    <2>5. ValuesRead(n + 1)'
      BY <1>2, <1>3, <2>1, <2>3, ValuesStep DEF HasRead, s
    <2>6. ItemsRead(n + 1)'
      BY <1>2, <1>3, <2>1, <2>3, ItemsStep DEF HasRead, s
    <2>7. PlainRead(n + 1, <<>>)'
      <3>1. PlainTo(n + 1) = PlainTo(n) BY <1>2, <2>3, NextFacts DEF s
      <3>2. \A k \in 1..n : k \in PlainTo(n) <=> k \in PlainTo(n) OBVIOUS
      <3>3. n + 1 \notin PlainTo(n) BY <1>2 DEF PlainTo
      <3>4. ValuesTo(n + 1, PlainTo(n)) = ValuesTo(n, PlainTo(n))
        BY <3>2, <3>3, OneMoreValue
      <3>5. ValuesTo(n + 1, PlainTo(n + 1))' = ValuesTo(n + 1, PlainTo(n + 1))
        <4>1. \A P : ValuesTo(n + 1, P)' = ValuesTo(n + 1, P) BY <1>3, SameLine
        <4>2. PlainTo(n + 1)' = PlainTo(n + 1) BY <1>3, SameLine
        <4> QED BY <1>3 DEF ValuesTo, PlainTo
      <3>6. PlainRead(n, <<>>) BY DEF HasRead
      <3> QED BY <2>2, <3>1, <3>4, <3>5, <3>6, Zenon DEF PlainRead
    <2>8. HasRead(n + 1)' BY <2>4, <2>5, <2>6, <2>7 DEF HasRead
    <2>9. remaining' = Left(n + 1)'
      <3>1. \A m : Left(m)' = Left(m) BY <1>3, SameLine
      <3> QED BY <2>1, <3>1
    <2>10. \E m \in 0..Len(line') : HasRead(m)' /\ remaining' = Left(m)'
      BY <1>2, <1>3, <2>8, <2>9
    <2>11. status' = "parsing" BY <2>2
    <2> QED BY <2>10, <2>11 DEF LineInv
  <1> QED BY <1>6, <1>7

(* An argument that is no option.                                           *)
LEMMA PlainStep ==
    ASSUME LineOK, LineOK', NEW n \in 0..(Len(line) - 1), HasRead(n),
           status = "parsing", remaining = Left(n), parse_args, UNCHANGED line,
           line[n + 1].style = "plain"
    PROVE  LineInv'
  <1> DEFINE s == line[n + 1]
             v == s.value
  <1>1. Len(line) \in Nat
    <2> DEFINE S == {line[k] : k \in DOMAIN line}
    <2>1. line \in Seq(S) BY DEF LineOK
    <2> HIDE DEF S
    <2> QED BY <2>1
  <1>2. n + 1 \in 1..Len(line) /\ n + 1 \in 0..Len(line) /\ n \in Nat
    BY <1>1
  <1>3. UNCHANGED <<parser, line>> BY DEF parse_args
  <1>4. v \in Arguments /\ IsPlain(v) /\ Typed(s) = <<v>>
    <2>1. /\ parser \in {SenderParser, ReceiverParser, ConnectorParser}
          /\ IsSetting(parser, s, n + 1 = Len(line))
      BY <1>2, Zenon DEF LineOK
    <2>2. v \in Seq(Symbols) /\ IsPlain(v) BY <2>1, SettingFacts
    <2> QED BY <2>2, TypedFacts DEF Arguments
  <1>5. remaining = <<v>> \o Left(n + 1) /\ Left(n + 1) \in Seq(Arguments)
    BY <1>2, <1>4, LeftFacts, Zenon
  <1>6. /\ remaining \in Seq(Arguments) /\ remaining # <<>>
        /\ Head(remaining) = v /\ Tail(remaining) = Left(n + 1)
    <2> HIDE DEF v
    <2> QED BY <1>4, <1>5, OneAhead
  <1>7. KeepArgument
    <2> HIDE DEF v
    <2> QED BY <1>4, <1>6, HandlerFacts
  <1>8. /\ remaining' = Left(n + 1) /\ leftover' = Append(leftover, v)
        /\ UNCHANGED <<values, appended, status>>
    BY <1>6, <1>7 DEF KeepArgument
  <1>9. NoneStops(n + 1)'
    <2>1. NoneStops(n + 1)
      <3>1. \A k \in 1..(n + 1) : k \in 1..n \/ k = n + 1 BY <1>2
      <3>2. NoneStops(n) BY DEF HasRead
      <3>3. line[n + 1].style # "end" OBVIOUS
      <3> QED BY <3>1, <3>2, <3>3 DEF NoneStops
    <2> QED BY <1>3, <2>1, SameLine
  <1>10. /\ OptionsTo(n + 1) = OptionsTo(n)
         /\ PlainTo(n + 1) = PlainTo(n) \union {n + 1}
         /\ \A o : Given(o, n + 1) = Given(o, n)
    BY <1>2, NextFacts
  <1>11. /\ ItemOptions' = ItemOptions /\ FlagOptions' = FlagOptions
         /\ \A o : Given(o, n + 1)' = Given(o, n)
         /\ OptionsTo(n + 1)' = OptionsTo(n)
         /\ line' = line
    BY <1>3, <1>10, SameLine
  <1>12. ValuesRead(n + 1)'
    <2>1. ValuesRead(n) BY DEF HasRead
    <2> QED BY <1>8, <1>11, <2>1 DEF ValuesRead
  <1>13. ItemsRead(n + 1)'
    <2>1. ItemsRead(n) BY DEF HasRead
    <2>2. ASSUME NEW o PROVE ArrivedTo(n + 1, Given(o, n + 1))' = ArrivedTo(n, Given(o, n))
      <3>1. \A k \in 1..n : k \in Given(o, n) <=> k \in Given(o, n) OBVIOUS
      <3>2. n + 1 \notin Given(o, n) BY <1>2 DEF Given, OptionsTo
      <3>3. ArrivedTo(n + 1, Given(o, n)) = ArrivedTo(n, Given(o, n))
        BY <3>1, <3>2, OneMoreArrival
      <3>4. ArrivedTo(n + 1, Given(o, n + 1))' = ArrivedTo(n + 1, Given(o, n))
        BY <1>11 DEF ArrivedTo
      <3> QED BY <3>3, <3>4
    <2> QED BY <1>8, <1>11, <2>1, <2>2, Zenon DEF ItemsRead
  <1>14. PlainRead(n + 1, <<>>)'
    <2> DEFINE before == ValuesTo(n, PlainTo(n))
               after == ValuesTo(n + 1, PlainTo(n + 1))
    <2>1. /\ before \in Seq(Arguments)
          /\ after = before \o <<v>>
      <3>1. n + 1 \in PlainTo(n + 1) BY <1>10
      <3>2. \A k \in 1..n : k \in PlainTo(n) <=> k \in PlainTo(n + 1)
        <4>1. \A k \in 1..n : k # n + 1 BY <1>2
        <4> QED BY <1>10, <4>1, Zenon
      <3> QED BY <3>1, <3>2, OneMoreValue
    <2>2. after' = after BY <1>3 DEF ValuesTo, PlainTo
    <2> HIDE DEF before, after
    <2>3. leftover = before \o <<>> BY DEF HasRead, PlainRead, before
    <2> HIDE DEF v, Arguments
    <2>4. Append(before, v) = before \o <<v>> BY <1>4, <2>1, AppendIsConcat
    <2>5. before \o <<>> = before /\ after \in Seq(Arguments)
      BY <1>4, <2>1
    <2>6. after \o <<>> = after BY <2>5
    <2>7. leftover' = after \o <<>> BY <1>8, <2>1, <2>3, <2>4, <2>5, <2>6, Zenon
    <2>8. leftover' = after' \o <<>> BY <2>2, <2>7
    <2> QED BY <2>8 DEF PlainRead, after
  <1>15. HasRead(n + 1)' BY <1>9, <1>12, <1>13, <1>14 DEF HasRead
  <1>16. remaining' = Left(n + 1)'
    <2>1. \A m : Left(m)' = Left(m) BY <1>3, SameLine
    <2> QED BY <1>8, <2>1
  <1>17. \E m \in 0..Len(line') : HasRead(m)' /\ remaining' = Left(m)'
    BY <1>2, <1>3, <1>15, <1>16
  <1>18. status' = "parsing" BY <1>8
  <1> QED BY <1>17, <1>18 DEF LineInv

(* All that was read stays read when the values, the strings and the other  *)
(* arguments do.                                                            *)
LEMMA AllStaysRead ==
    ASSUME AllRead, UNCHANGED <<parser, line, values, appended, leftover>>
    PROVE  AllRead'
  <1>1. PICK n \in 0..Len(line) :
            /\ n < Len(line) => line[n + 1].style = "end"
            /\ NoneStops(n) /\ ValuesRead(n) /\ ItemsRead(n) /\ PlainRead(n, Left(n + 1))
    BY DEF AllRead
  <1>2. /\ FlagOptions' = FlagOptions /\ ItemOptions' = ItemOptions
        /\ \A m : Left(m)' = Left(m)
        /\ OptionsTo(n)' = OptionsTo(n) /\ PlainTo(n)' = PlainTo(n)
        /\ \A o : Given(o, n)' = Given(o, n)
        /\ NoneStops(n)'
    BY <1>1, SameLine
  <1>3. ValuesRead(n)' BY <1>1, <1>2 DEF ValuesRead
  <1>4. ItemsRead(n)'
    <2>1. \A o : ArrivedTo(n, Given(o, n))' = ArrivedTo(n, Given(o, n))
      BY <1>2 DEF ArrivedTo
    <2>2. appended' = appended OBVIOUS
    <2> QED BY <1>1, <1>2, <2>1, <2>2, Zenon DEF ItemsRead
  <1>5. PlainRead(n, Left(n + 1))'
    <2>1. ValuesTo(n, PlainTo(n))' = ValuesTo(n, PlainTo(n)) BY <1>2 DEF ValuesTo
    <2>2. leftover' = leftover /\ Left(n + 1)' = Left(n + 1) BY <1>2
    <2> QED BY <1>1, <2>1, <2>2, Zenon DEF PlainRead
  <1>6. \E m \in 0..Len(line') :
            /\ m < Len(line') => line'[m + 1].style = "end"
            /\ NoneStops(m)' /\ ValuesRead(m)' /\ ItemsRead(m)' /\ PlainRead(m, Left(m + 1))'
    BY <1>1, <1>2, <1>3, <1>4, <1>5
  <1> QED BY <1>6 DEF AllRead

(* The "--".                                                                *)
LEMMA EndStep ==
    ASSUME LineOK, LineOK', NEW n \in 0..(Len(line) - 1), HasRead(n),
           status = "parsing", remaining = Left(n), parse_args, UNCHANGED line,
           line[n + 1].style = "end"
    PROVE  LineInv'
  <1> DEFINE s == line[n + 1]
             end == <<"-", "-">>
  <1>1. Len(line) \in Nat
    <2> DEFINE S == {line[k] : k \in DOMAIN line}
    <2>1. line \in Seq(S) BY DEF LineOK
    <2> HIDE DEF S
    <2> QED BY <2>1
  <1>2. n + 1 \in 0..Len(line) /\ n \in 0..Len(line) BY <1>1
  <1>3. UNCHANGED <<parser, line>> BY DEF parse_args
  <1>4. end \in Arguments /\ IsEnd(end) /\ Typed(s) = <<end>>
    <2>1. end \in Seq(Symbols) BY SymbolFacts, TwoFacts, Zenon
    <2> QED BY <2>1, TypedFacts DEF Arguments, IsEnd
  <1>5. remaining = <<end>> \o Left(n + 1) /\ Left(n + 1) \in Seq(Arguments)
    BY <1>2, <1>4, LeftFacts, Zenon
  <1> HIDE DEF end
  <1>6. /\ remaining \in Seq(Arguments) /\ remaining # <<>>
        /\ Head(remaining) = end /\ Tail(remaining) = Left(n + 1)
    BY <1>4, <1>5, OneAhead
  <1>7. EndOfOptions BY <1>4, <1>6, HandlerFacts
  <1>8. /\ remaining' = <<>> /\ leftover' = leftover \o Left(n + 1)
        /\ UNCHANGED <<values, appended, status>>
    BY <1>6, <1>7 DEF EndOfOptions
  <1>9. /\ FlagOptions' = FlagOptions /\ ItemOptions' = ItemOptions
        /\ \A m : Left(m)' = Left(m)
        /\ OptionsTo(n)' = OptionsTo(n) /\ PlainTo(n)' = PlainTo(n)
        /\ \A o : Given(o, n)' = Given(o, n)
    BY <1>3, SameLine
  <1>10. NoneStops(n)'
    <2>1. NoneStops(n) BY DEF HasRead
    <2> QED BY <1>3, <2>1, SameLine
  <1>11. ValuesRead(n)'
    <2>1. ValuesRead(n) BY DEF HasRead
    <2> QED BY <1>3, <1>8, <1>9, <2>1 DEF ValuesRead
  <1>12. ItemsRead(n)'
    <2>1. ItemsRead(n) BY DEF HasRead
    <2>2. \A o : ArrivedTo(n, Given(o, n))' = ArrivedTo(n, Given(o, n))
      BY <1>3, <1>9 DEF ArrivedTo
    <2> QED BY <1>8, <1>9, <2>1, <2>2, Zenon DEF ItemsRead
  <1>13. PlainRead(n, Left(n + 1))'
    <2> DEFINE before == ValuesTo(n, PlainTo(n))
    <2>1. before' = before BY <1>3, <1>9 DEF ValuesTo
    <2>2. before \in Seq(Arguments)
      <3>1. \A k \in 1..n : k \in PlainTo(n) <=> k \in PlainTo(n) OBVIOUS
      <3> QED BY <3>1, OneMoreValue
    <2>3. leftover = before \o <<>> BY DEF HasRead, PlainRead
    <2> HIDE DEF before, Arguments
    <2>4. before \o <<>> = before BY <2>2
    <2>5. leftover' = before' \o Left(n + 1)' BY <1>8, <1>9, <2>1, <2>3, <2>4
    <2> QED BY <2>5 DEF PlainRead, before
  <1>14. AllRead'
    <2>1. line'[n + 1].style = "end" BY <1>3
    <2>2. \E m \in 0..Len(line') :
              /\ m < Len(line') => line'[m + 1].style = "end"
              /\ NoneStops(m)' /\ ValuesRead(m)' /\ ItemsRead(m)'
              /\ PlainRead(m, Left(m + 1))'
      BY <1>2, <1>3, <1>10, <1>11, <1>12, <1>13, <2>1
    <2> QED BY <2>2 DEF AllRead
  <1> QED BY <1>8, <1>14 DEF LineInv

(* The end of the arguments.                                                *)
LEMMA FinishStep ==
    ASSUME LineOK, LineOK', AllRead, remaining = <<>>, parse_args, UNCHANGED line
    PROVE  LineInv'
  <1>1. Finish /\ parser' = parser
    BY DEF parse_args, handle_long_opt, handle_short_opt, KeepArgument, EndOfOptions,
           HasNext
  <1>2. status' = "parsed" /\ UNCHANGED <<values, appended, leftover>>
    BY <1>1 DEF Finish
  <1>3. AllRead' BY <1>1, <1>2, AllStaysRead
  <1> QED BY <1>2, <1>3 DEF LineInv

(* One argument, or the two of an option and its value.                     *)
LEMMA ParseStep ==
    ASSUME LineInv, parse_args, UNCHANGED line
    PROVE  LineInv'
  <1>1. LineOK BY DEF LineInv
  <1>2. UNCHANGED <<parser, line>> BY DEF parse_args
  <1>3. LineOK' BY <1>1, <1>2, SameLine
  <1>4. status = "parsing"
    BY DEF parse_args, handle_long_opt, handle_short_opt, KeepArgument, EndOfOptions,
           Finish, HasNext
  <1>5. Len(line) \in Nat
    <2> DEFINE S == {line[k] : k \in DOMAIN line}
    <2>1. line \in Seq(S) BY <1>1 DEF LineOK
    <2> HIDE DEF S
    <2> QED BY <2>1
  <1>6. CASE AllRead /\ remaining = <<>> BY <1>1, <1>3, <1>6, FinishStep
  <1>7. ASSUME NEW n \in 0..Len(line), HasRead(n), remaining = Left(n)
        PROVE  LineInv'
    <2>1. CASE n = Len(line)
      <3>1. Left(n) = <<>> /\ Left(n + 1) = <<>> BY <1>1, <2>1, LeftFacts, Zenon
      <3>2. AllRead
        <4>1. ~(n < Len(line)) BY <1>5, <2>1
        <4> QED BY <1>7, <3>1, <4>1, Zenon DEF AllRead, HasRead
      <3> QED BY <1>1, <1>3, <1>7, <3>1, <3>2, FinishStep
    <2>2. CASE n # Len(line)
      <3>1. n \in 0..(Len(line) - 1) BY <1>5, <2>2
      <3>2. CASE line[n + 1].style = "plain"
        BY <1>1, <1>3, <1>4, <1>7, <3>1, <3>2, PlainStep
      <3>3. CASE line[n + 1].style = "end"
        BY <1>1, <1>3, <1>4, <1>7, <3>1, <3>3, EndStep
      <3>4. CASE line[n + 1].style \notin {"plain", "end"}
        BY <1>1, <1>3, <1>4, <1>7, <3>1, <3>4, OptionStep
      <3> QED BY <3>2, <3>3, <3>4
    <2> QED BY <2>1, <2>2
  <1> QED BY <1>4, <1>6, <1>7 DEF LineInv

(* LineInv, for every set of command lines.                                 *)
THEOREM LineCorrect == Spec => []LineInv
  <1>1. Init => LineInv
    <2> SUFFICES ASSUME Init PROVE LineInv OBVIOUS
    <2>1. PICK cl \in CommandLines : parser = cl.parser /\ line = cl.settings
      BY DEF Init
    <2>2. LineOK
      <3>1. cl.parser \in {SenderParser, ReceiverParser, ConnectorParser}
        BY CommandLinesAssumption
      <3>2. /\ cl.settings \in Seq({cl.settings[k] : k \in DOMAIN cl.settings})
            /\ \A k \in 1..Len(cl.settings) :
                   IsSetting(cl.parser, cl.settings[k], k = Len(cl.settings))
        BY SettingsAssumption
      <3> QED BY <2>1, <3>1, <3>2, Zenon DEF LineOK
    <2>3. /\ values = <<>> /\ appended = [o \in ItemOptions |-> <<>>]
          /\ leftover = <<>> /\ status = "parsing" /\ remaining = AllTyped(line)
      BY DEF Init, ParserInit, ItemOptions
    <2>4. OptionsTo(0) = {} BY DEF OptionsTo
    <2>5. HasRead(0)
      <3>1. NoneStops(0) BY DEF NoneStops
      <3>2. ValuesRead(0) BY <2>3, <2>4 DEF ValuesRead
      <3>3. ItemsRead(0)
        <4>1. /\ DOMAIN appended = ItemOptions
              /\ \A o \in ItemOptions : appended[o] = <<>>
          BY <2>3
        <4> QED BY <4>1, GetNothing, NoArrivals, Zenon DEF ItemsRead
      <3>4. PlainRead(0, <<>>)
        <4>1. <<>> \o <<>> = <<>> OBVIOUS
        <4> QED BY <2>3, <4>1, NoValues, Zenon DEF PlainRead
      <3> QED BY <3>1, <3>2, <3>3, <3>4 DEF HasRead
    <2>6. remaining = Left(0) BY <2>2, <2>3, LeftFacts
    <2>7. 0 \in 0..Len(line)
      <3> DEFINE S == {line[k] : k \in DOMAIN line}
      <3>1. line \in Seq(S) BY <2>2 DEF LineOK
      <3> HIDE DEF S
      <3> QED BY <3>1
    <2> QED BY <2>2, <2>3, <2>5, <2>6, <2>7 DEF LineInv
  <1>2. LineInv /\ [Next]_vars => LineInv'
    <2> SUFFICES ASSUME LineInv, [Next]_vars PROVE LineInv' OBVIOUS
    <2>1. CASE parse_args /\ UNCHANGED <<line, client, setup>> BY <2>1, ParseStep
    <2>2. CASE run
      <3>1. UNCHANGED <<parser, line, values, appended, leftover>> /\ status = "parsed"
        BY <2>2 DEF run, Quit
      <3>2. status' \in {"invalid", "running"} BY <2>2 DEF run, Quit
      <3>3. AllRead' BY <3>1, AllStaysRead DEF LineInv
      <3>4. LineOK' BY <3>1, SameLine DEF LineInv
      <3> QED BY <3>2, <3>3, <3>4 DEF LineInv
    <2>3. CASE UNCHANGED vars
      <3>1. UNCHANGED <<parser, line, values, appended, leftover, status, remaining>>
        BY <2>3 DEF vars, parserVars
      <3>2. LineOK' BY <3>1, SameLine DEF LineInv
      <3>3. AllRead => AllRead' BY <3>1, AllStaysRead
      <3>4. \A n : StopsAt(n) => StopsAt(n)' BY <3>1, SameLine
      <3>5. ASSUME NEW n \in 0..Len(line), HasRead(n), remaining = Left(n)
            PROVE  HasRead(n)' /\ remaining' = Left(n)'
        <4>1. /\ FlagOptions' = FlagOptions /\ ItemOptions' = ItemOptions
              /\ Left(n)' = Left(n)
              /\ OptionsTo(n)' = OptionsTo(n) /\ PlainTo(n)' = PlainTo(n)
              /\ \A o : Given(o, n)' = Given(o, n)
              /\ NoneStops(n)'
          BY <3>1, <3>5, SameLine DEF HasRead
        <4>2. ValuesRead(n)' BY <3>1, <3>5, <4>1 DEF ValuesRead, HasRead
        <4>3. ItemsRead(n)'
          <5>1. \A o : ArrivedTo(n, Given(o, n))' = ArrivedTo(n, Given(o, n))
            BY <3>1, <4>1 DEF ArrivedTo
          <5>2. appended' = appended BY <3>1
          <5> QED BY <3>5, <4>1, <5>1, <5>2, Zenon DEF ItemsRead, HasRead
        <4>4. PlainRead(n, <<>>)'
          <5>1. ValuesTo(n, PlainTo(n))' = ValuesTo(n, PlainTo(n))
            BY <3>1, <4>1 DEF ValuesTo
          <5>2. leftover' = leftover BY <3>1
          <5> QED BY <3>5, <5>1, <5>2, Zenon DEF PlainRead, HasRead
        <4> QED BY <3>1, <3>5, <4>1, <4>2, <4>3, <4>4 DEF HasRead
      <3>6. CASE status = "parsing"
        <4>1. \/ \E n \in 0..Len(line) : HasRead(n) /\ remaining = Left(n)
              \/ AllRead /\ remaining = <<>>
          BY <3>6 DEF LineInv
        <4>2. \/ \E n \in 0..Len(line') : HasRead(n)' /\ remaining' = Left(n)'
              \/ AllRead' /\ remaining' = <<>>
          BY <3>1, <3>3, <3>5, <4>1
        <4> QED BY <3>1, <3>2, <3>6, <4>2 DEF LineInv
      <3>7. CASE status \in {"parsed", "invalid", "running"}
        BY <3>1, <3>2, <3>3, <3>7 DEF LineInv
      <3>8. CASE status = "success"
        <4>1. \E n : StopsAt(n)' /\ line'[n].option \in Exiting
          BY <3>1, <3>4, <3>8 DEF LineInv
        <4> QED BY <3>1, <3>2, <3>8, <4>1 DEF LineInv
      <3>9. CASE status = "usage error"
        <4>1. \E n : StopsAt(n)' /\ line'[n].option \notin Exiting
          BY <3>1, <3>4, <3>9 DEF LineInv
        <4> QED BY <3>1, <3>2, <3>9, <4>1 DEF LineInv
      <3>10. status \in {"parsing", "parsed", "invalid", "running", "success", "usage error"}
        BY DEF LineInv
      <3> QED BY <3>6, <3>7, <3>8, <3>9, <3>10
    <2> QED BY <2>1, <2>2, <2>3 DEF Next, Exited
  <1> QED BY <1>1, <1>2, PTL DEF Spec
-----------------------------------------------------------------------------
(* What the properties say of the line.                                     *)

(* Where "--" is, or would be.                                              *)
LEMMA EndFacts ==
    ASSUME LineOK
    PROVE  /\ Len(line) \in Nat
           /\ End \in 1..(Len(line) + 1)
           /\ \A k \in 1..(End - 1) : line[k].style # "end"
           /\ End <= Len(line) => line[End].style = "end"
  <1> DEFINE S == {line[k] : k \in DOMAIN line}
             T == {k \in DOMAIN line : line[k].style = "end"} \union {Len(line) + 1}
  <1>1. line \in Seq(S) BY DEF LineOK
  <1> HIDE DEF S
  <1>2. Len(line) \in Nat /\ DOMAIN line = 1..Len(line) BY <1>1
  <1>3. T \in SUBSET Nat /\ T # {} BY <1>2
  <1>4. End = Min(T) BY DEF End
  <1>5. \A k : k \in T <=> \/ k \in 1..Len(line) /\ line[k].style = "end"
                         \/ k = Len(line) + 1
    BY <1>2
  <1> HIDE DEF T
  <1>6. End \in T /\ \A k \in T : End <= k BY <1>3, <1>4, MinFacts
  <1>7. End \in 1..(Len(line) + 1) BY <1>2, <1>5, <1>6
  <1>8. End <= Len(line) => line[End].style = "end" BY <1>2, <1>5, <1>6
  <1>9. ASSUME NEW k \in 1..(End - 1) PROVE line[k].style # "end"
    <2>1. k \in 1..Len(line) /\ ~(End <= k) BY <1>2, <1>7
    <2> QED BY <1>5, <1>6, <2>1
  <1> QED BY <1>2, <1>7, <1>8, <1>9

(* Settings before the first that is, or would be, "--".                    *)
LEMMA BeforeEnd ==
    ASSUME LineOK, NEW n \in 0..Len(line), \A k \in 1..n : line[k].style # "end"
    PROVE  n <= End - 1
  <1>1. /\ Len(line) \in Nat /\ End \in 1..(Len(line) + 1)
        /\ End <= Len(line) => line[End].style = "end"
    BY EndFacts
  <1> SUFFICES ASSUME End <= n PROVE FALSE BY <1>1
  <1>2. End \in 1..n /\ End <= Len(line) BY <1>1
  <1> QED BY <1>1, <1>2

(* The settings that count.                                                 *)
LEMMA WholeLine ==
    ASSUME LineOK, NEW n, n = End - 1
    PROVE  /\ n \in Nat
           /\ Plain = PlainTo(n) /\ Options = OptionsTo(n)
           /\ \A o : Of(o) = Given(o, n)
           /\ \A places : ValuesOf(places) = ValuesTo(n, places)
           /\ \A places : ArrivedOf(places) = ArrivedTo(n, places)
           /\ AllTyped(SubSeq(line, End + 1, Len(line))) = Left(n + 1)
  <1>1. End \in 1..(Len(line) + 1) /\ Len(line) \in Nat BY EndFacts
  <1>2. n \in Nat BY <1>1
  <1>3. Plain = PlainTo(n) BY DEF Plain, PlainTo
  <1>4. Options = OptionsTo(n) BY <1>3 DEF Options, OptionsTo, PlainTo
  <1>5. \A o : Of(o) = Given(o, n) BY <1>4 DEF Of, Given
  <1>6. /\ \A places : ValuesOf(places) = ValuesTo(n, places)
        /\ \A places : ArrivedOf(places) = ArrivedTo(n, places)
    BY Zenon DEF ValuesOf, ValuesTo, ArrivedOf, ArrivedTo
  <1>7. End = n + 1 BY <1>1
  <1>8. AllTyped(SubSeq(line, End + 1, Len(line))) = Left(n + 1)
    BY <1>7, Zenon DEF Left
  <1> QED BY <1>2, <1>3, <1>4, <1>5, <1>6, <1>8

(* The first setting to stop at is the first among the options.             *)
LEMMA FirstStop ==
    ASSUME LineOK, NEW n, StopsAt(n)
    PROVE  LET stops == {k \in Options : Stops(line[k])}
           IN  stops # {} /\ Min(stops) = n
  <1> DEFINE stops == {k \in Options : Stops(line[k])}
  <1>1. /\ n \in 1..Len(line) /\ NoneStops(n - 1)
        /\ line[n].style # "plain" /\ line[n].style # "end" /\ Stops(line[n])
    BY DEF StopsAt
  <1>2. n <= End - 1
    <2>1. \A k \in 1..n : k \in 1..(n - 1) \/ k = n BY <1>1
    <2>2. \A k \in 1..n : line[k].style # "end" BY <1>1, <2>1 DEF NoneStops
    <2>3. n \in 0..Len(line) BY <1>1
    <2> QED BY <2>2, <2>3, BeforeEnd
  <1>3. Options = OptionsTo(End - 1) BY WholeLine
  <1>4. End - 1 \in Nat BY WholeLine
  <1>5. stops = {k \in 1..(End - 1) : line[k].style # "plain" /\ Stops(line[k])}
    BY <1>3 DEF OptionsTo
  <1> HIDE DEF stops
  <1>6. n \in stops BY <1>1, <1>2, <1>4, <1>5
  <1>7. \A k \in stops : n <= k
    <2> SUFFICES ASSUME NEW k \in stops, ~(n <= k) PROVE FALSE OBVIOUS
    <2>1. k \in 1..(n - 1) BY <1>1, <1>4, <1>5
    <2> QED BY <1>1, <1>5, <2>1 DEF NoneStops
  <1>8. stops \in SUBSET Int BY <1>4, <1>5
  <1>9. Min(stops) = n BY <1>6, <1>7, <1>8, MinIs
  <1> QED BY <1>6, <1>9 DEF stops

(* Understands, for every set of command lines and with no bound on their    *)
(* length: whatever the order, the style and the values of the settings.    *)
THEOREM UnderstandsCorrect == Spec => []Understands
  <1>1. LineInv => Understands
    <2> SUFFICES ASSUME LineInv PROVE Understands OBVIOUS
    <2>1. LineOK BY DEF LineInv
    <2> DEFINE stops == {k \in Options : Stops(line[k])}
    <2>2. ASSUME NEW n, StopsAt(n) PROVE stops # {} /\ Min(stops) = n
      BY <2>1, <2>2, FirstStop
    <2> DEFINE n == End - 1
    <2>3. ASSUME AllRead
          PROVE  /\ stops = {}
                 /\ ValuesRead(n) /\ ItemsRead(n) /\ PlainRead(n, Left(n + 1))
      <3>1. PICK m \in 0..Len(line) :
                /\ m < Len(line) => line[m + 1].style = "end"
                /\ NoneStops(m) /\ ValuesRead(m) /\ ItemsRead(m) /\ PlainRead(m, Left(m + 1))
        BY <2>3 DEF AllRead
      <3>2. m = n
        <4>1. /\ Len(line) \in Nat /\ End \in 1..(Len(line) + 1)
              /\ \A k \in 1..(End - 1) : line[k].style # "end"
          BY <2>1, EndFacts
        <4>2. m <= End - 1
          <5>1. \A k \in 1..m : line[k].style # "end" BY <3>1 DEF NoneStops
          <5> QED BY <2>1, <5>1, BeforeEnd
        <4>3. ~(m < End - 1)
          <5> SUFFICES ASSUME m < End - 1 PROVE FALSE OBVIOUS
          <5>1. m < Len(line) /\ m + 1 \in 1..(End - 1) BY <4>1
          <5> QED BY <3>1, <4>1, <5>1
        <4> QED BY <4>1, <4>2, <4>3
      <3>3. Options = OptionsTo(n) BY <2>1, WholeLine
      <3> HIDE DEF n
      <3>4. stops = {} BY <3>1, <3>2, <3>3 DEF NoneStops, OptionsTo
      <3> QED BY <3>1, <3>2, <3>4
    <2>4. /\ n \in Nat /\ Plain = PlainTo(n) /\ Options = OptionsTo(n)
          /\ \A o : Of(o) = Given(o, n)
          /\ \A places : ValuesOf(places) = ValuesTo(n, places)
          /\ \A places : ArrivedOf(places) = ArrivedTo(n, places)
          /\ AllTyped(SubSeq(line, End + 1, Len(line))) = Left(n + 1)
      BY <2>1, WholeLine
    <2> HIDE DEF n
    <2>5. ASSUME AllRead
          PROVE  /\ stops = {}
                 /\ DOMAIN values = {line[k].option : k \in Options} \ ItemOptions
                 /\ \A o \in DOMAIN values :
                        values[o] = IF o \in FlagOptions THEN <<"1">> ELSE LastOf(o).value
                 /\ \A o \in ItemOptions : getStrings(appended[o]) = ArrivedOf(Of(o))
                 /\ leftover = ValuesOf(Plain) \o AllTyped(SubSeq(line, End + 1, Len(line)))
      <3>1. /\ stops = {}
            /\ ValuesRead(n) /\ ItemsRead(n) /\ PlainRead(n, Left(n + 1))
        BY <2>3, <2>5
      <3> HIDE DEF stops
      <3>2. DOMAIN values = {line[k].option : k \in Options} \ ItemOptions
        BY <2>4, <3>1 DEF ValuesRead
      <3>3. ASSUME NEW o \in DOMAIN values
            PROVE  values[o] = IF o \in FlagOptions THEN <<"1">> ELSE LastOf(o).value
        <4>1. PICK k \in Given(o, n) :
                  /\ \A j \in Given(o, n) : j <= k
                  /\ values[o] = IF o \in FlagOptions THEN <<"1">> ELSE line[k].value
          BY <3>1 DEF ValuesRead
        <4>2. Given(o, n) \in SUBSET Int BY <2>4 DEF Given, OptionsTo
        <4>3. \A j \in Given(o, n) : k >= j BY <4>1, <4>2
        <4>4. Max(Given(o, n)) = k BY <4>1, <4>2, <4>3, MaxIs
        <4>5. LastOf(o) = line[k] BY <2>4, <4>4 DEF LastOf
        <4> QED BY <4>1, <4>5
      <3>4. \A o \in ItemOptions : getStrings(appended[o]) = ArrivedOf(Of(o))
        BY <2>4, <3>1, Zenon DEF ItemsRead
      <3>5. leftover = ValuesOf(Plain) \o AllTyped(SubSeq(line, End + 1, Len(line)))
        BY <2>4, <3>1, Zenon DEF PlainRead
      <3> QED BY <3>1, <3>2, <3>3, <3>4, <3>5
    <2> HIDE DEF stops, n
    <2>6. status = "success" =>
              stops # {} /\ line[Min(stops)].option \in Exiting
      BY <2>2 DEF LineInv
    <2>7. status = "usage error" =>
              stops # {} /\ line[Min(stops)].option \notin Exiting
      BY <2>2 DEF LineInv
    <2>8. status \in {"parsed", "invalid", "running"} => AllRead BY DEF LineInv
    <2> QED BY <2>5, <2>6, <2>7, <2>8, Zenon DEF Understands, stops
  <1> QED BY <1>1, LineCorrect, PTL

(* StartsSafely, for every set of command lines: what validate() reads off   *)
(* the values is what the line says.                                        *)
THEOREM StartsSafelyCorrect == Spec => []StartsSafely
  <1>1. SetupInv /\ Understands => StartsSafely
    <2> SUFFICES ASSUME SetupInv, Understands, Running,
                        Of("broker-url") = {}, Of("conn-use-config-file") = {}
                 PROVE  parser.name = "receiver" /\ setup.recv_listen
      BY DEF StartsSafely
    <2>1. parser \in {SenderParser, ReceiverParser, ConnectorParser}
      BY DEF SetupInv
    <2>2. DOMAIN values = {line[k].option : k \in Options} \ ItemOptions
      BY DEF Understands, Running
    <2>3. ~IsSet("broker-url") /\ ~IsSet("conn-use-config-file")
      BY <2>2 DEF IsSet, Of
    <2>4. ~Invalid /\ setup = SetupOf BY DEF SetupInv
    <2>5. IsTrue("recv-listen") BY <2>3, <2>4 DEF Invalid, ModernInvalid
    <2>6. "recv-listen" \in IntOptions \union StringOptions \union FlagOptions
      BY <2>5 DEF IsTrue, IsSet, SetupInv, ValuesOK
    <2>7. parser = ReceiverParser
      <3>1. CASE parser = SenderParser
        BY <2>6, <3>1 DEF SenderParser, Parser, ModernInts, ModernStrings,
           ModernFlags, IntOptions, StringOptions, FlagOptions
      <3>2. CASE parser = ConnectorParser
        BY <2>6, <3>2 DEF ConnectorParser, Parser, ModernInts, ModernStrings,
           ModernFlags, IntOptions, StringOptions, FlagOptions
      <3> QED BY <2>1, <3>1, <3>2
    <2>8. parser.name = "receiver" BY <2>7 DEF ReceiverParser, Parser
    <2>9. setup = ReceiverSetup BY <2>4, <2>8 DEF SetupOf
    <2>10. setup.recv_listen = IsTrue("recv-listen") BY <2>9 DEF ReceiverSetup
    <2> QED BY <2>5, <2>8, <2>10
  <1> QED BY <1>1, SetupCorrect, UnderstandsCorrect, PTL
-----------------------------------------------------------------------------
(* URLs: texts of them.                                                     *)

(* A text over fewer symbols is one over more.                              *)
LEMMA SeqWidens ==
    ASSUME NEW S, NEW T, S \subseteq T, NEW s \in Seq(S)
    PROVE  s \in Seq(T)
  OBVIOUS

(* The symbols of a URL: strings, as these literals are.                    *)
UrlSymbols == STRING \union {":", "/", "@", "]", "?", "#", "topic"}

(* They are symbols.                                                        *)
LEMMA UrlSymbolFacts ==
    /\ ":" \in UrlSymbols /\ "/" \in UrlSymbols /\ "@" \in UrlSymbols
    /\ "]" \in UrlSymbols /\ "?" \in UrlSymbols /\ "#" \in UrlSymbols
    /\ "topic" \in UrlSymbols
    /\ Seq(STRING) \subseteq Seq(UrlSymbols)
  <1>1. STRING \subseteq UrlSymbols BY Zenon DEF UrlSymbols
  <1>2. ASSUME NEW s \in Seq(STRING) PROVE s \in Seq(UrlSymbols)
    <2> HIDE DEF UrlSymbols
    <2> QED BY <1>1, SeqWidens
  <1>3. ":" \in UrlSymbols /\ "/" \in UrlSymbols /\ "@" \in UrlSymbols BY Zenon DEF UrlSymbols
  <1>4. "]" \in UrlSymbols /\ "?" \in UrlSymbols /\ "#" \in UrlSymbols
        /\ "topic" \in UrlSymbols
    BY Zenon DEF UrlSymbols
  <1> QED BY <1>2, <1>3, <1>4

(* Two texts one behind the other, by the places in both.                   *)
LEMMA BehindFacts ==
    ASSUME NEW s \in Seq(UrlSymbols), NEW r \in Seq(UrlSymbols)
    PROVE  /\ s \o r \in Seq(UrlSymbols) /\ Len(s \o r) = Len(s) + Len(r)
           /\ \A i \in 1..Len(s) : (s \o r)[i] = s[i]
           /\ \A i \in (Len(s) + 1)..(Len(s) + Len(r)) : (s \o r)[i] = r[i - Len(s)]
           /\ \A i \in 1..Len(r) : (s \o r)[Len(s) + i] = r[i]
  <1> DEFINE b == s \o r
  <1>1. /\ b \in Seq(UrlSymbols) /\ Len(b) = Len(s) + Len(r)
        /\ \A i \in 1..(Len(s) + Len(r)) : b[i] = IF i <= Len(s) THEN s[i] ELSE r[i - Len(s)]
    BY ConcatProperties
  <1>2. Len(s) \in Nat /\ Len(r) \in Nat OBVIOUS
  <1> HIDE DEF b
  <1>3. \A i \in 1..Len(s) : b[i] = s[i] BY <1>1, <1>2
  <1>4. \A i \in (Len(s) + 1)..(Len(s) + Len(r)) : b[i] = r[i - Len(s)] BY <1>1, <1>2
  <1>5. \A i \in 1..Len(r) : b[Len(s) + i] = r[i]
    <2> SUFFICES ASSUME NEW i \in 1..Len(r) PROVE b[Len(s) + i] = r[i] OBVIOUS
    <2>1. Len(s) + i \in (Len(s) + 1)..(Len(s) + Len(r)) /\ (Len(s) + i) - Len(s) = i
      BY <1>2
    <2> QED BY <1>4, <2>1
  <1> QED BY <1>1, <1>3, <1>4, <1>5 DEF b

(* The parts of a URL.                                                      *)
LEMMA UrlTypes ==
    ASSUME NEW url, IsUrl(url)
    PROVE  /\ url.scheme \in Seq(UrlSymbols) /\ url.user \in Seq(UrlSymbols)
           /\ url.password \in Seq(UrlSymbols) /\ url.query \in Seq(UrlSymbols)
           /\ url.place.host \in Seq(UrlSymbols) /\ url.place.port \in Seq(UrlSymbols)
           /\ url.place.path \in Seq(UrlSymbols)
           /\ url.place = [host |-> url.place.host, port |-> url.place.port,
                           path |-> url.place.path]
           /\ url.is_topic \in BOOLEAN
  BY UrlSymbolFacts DEF IsUrl

(* The delimiters as texts.                                                 *)
LEMMA DelimiterTexts ==
    /\ <<":">> \in Seq(UrlSymbols) /\ Len(<<":">>) = 1 /\ <<":">>[1] = ":"
    /\ <<"@">> \in Seq(UrlSymbols) /\ Len(<<"@">>) = 1 /\ <<"@">>[1] = "@"
    /\ <<"/">> \in Seq(UrlSymbols) /\ Len(<<"/">>) = 1 /\ <<"/">>[1] = "/"
    /\ <<":", "/", "/">> \in Seq(UrlSymbols) /\ Len(<<":", "/", "/">>) = 3
    /\ <<":", "/", "/">>[1] = ":" /\ <<":", "/", "/">>[2] = "/" /\ <<":", "/", "/">>[3] = "/"
    /\ <<"topic", ":", "/", "/">> \in Seq(UrlSymbols)
    /\ Len(<<"topic", ":", "/", "/">>) = 4
    /\ <<"topic", ":", "/", "/">>[1] = "topic" /\ <<"topic", ":", "/", "/">>[2] = ":"
    /\ <<"topic", ":", "/", "/">>[3] = "/" /\ <<"topic", ":", "/", "/">>[4] = "/"
  <1> HIDE DEF UrlSymbols
  <1> QED BY UrlSymbolFacts

(* A text behind another, and a delimiter behind that.                      *)
LEMMA SchemeText ==
    ASSUME NEW scheme \in Seq(UrlSymbols)
    PROVE  LET s == scheme \o <<":", "/", "/">>
               m == Len(scheme)
           IN  /\ s \in Seq(UrlSymbols) /\ Len(s) = m + 3
               /\ \A i \in 1..m : s[i] = scheme[i]
               /\ s[m + 1] = ":" /\ s[m + 2] = "/" /\ s[m + 3] = "/"
  <1> DEFINE three == <<":", "/", "/">>
             s == scheme \o three
             m == Len(scheme)
  <1>1. /\ three \in Seq(UrlSymbols) /\ Len(three) = 3
        /\ three[1] = ":" /\ three[2] = "/" /\ three[3] = "/"
    BY DelimiterTexts
  <1> HIDE DEF three, UrlSymbols
  <1>2. /\ s \in Seq(UrlSymbols) /\ Len(s) = Len(scheme) + Len(three)
        /\ \A i \in 1..Len(scheme) : s[i] = scheme[i]
        /\ \A i \in 1..Len(three) : s[Len(scheme) + i] = three[i]
    BY <1>1, BehindFacts, Zenon
  <1> HIDE DEF s
  <1>3. Len(s) = m + 3 /\ s[m + 1] = ":" /\ s[m + 2] = "/" /\ s[m + 3] = "/" BY <1>1, <1>2
  <1> QED BY <1>2, <1>3 DEF s, three

(* User and password with their delimiters.                                 *)
LEMMA CredentialsText ==
    ASSUME NEW name \in Seq(UrlSymbols), NEW secret \in Seq(UrlSymbols)
    PROVE  LET s == name \o <<":">> \o secret \o <<"@">>
               u == Len(name)
               p == Len(secret)
           IN  /\ s \in Seq(UrlSymbols) /\ Len(s) = u + p + 2
               /\ \A i \in 1..u : s[i] = name[i]
               /\ s[u + 1] = ":"
               /\ \A i \in 1..p : s[u + 1 + i] = secret[i]
               /\ s[u + p + 2] = "@"
  <1> DEFINE colon == <<":">>
             at == <<"@">>
             one == name \o colon
             two == one \o secret
             s == two \o at
             u == Len(name)
             p == Len(secret)
  <1>1. /\ colon \in Seq(UrlSymbols) /\ Len(colon) = 1 /\ colon[1] = ":"
        /\ at \in Seq(UrlSymbols) /\ Len(at) = 1 /\ at[1] = "@"
    BY DelimiterTexts
  <1>2. u \in Nat /\ p \in Nat OBVIOUS
  <1> HIDE DEF colon, at, UrlSymbols
  <1>3. /\ one \in Seq(UrlSymbols) /\ Len(one) = u + 1
        /\ \A i \in 1..u : one[i] = name[i]
        /\ one[u + 1] = ":"
    <2>1. /\ one \in Seq(UrlSymbols) /\ Len(one) = Len(name) + Len(colon)
          /\ \A i \in 1..Len(name) : one[i] = name[i]
          /\ \A i \in 1..Len(colon) : one[Len(name) + i] = colon[i]
      BY <1>1, BehindFacts, Zenon
    <2> HIDE DEF one
    <2> QED BY <1>1, <2>1
  <1> HIDE DEF one
  <1>4. /\ two \in Seq(UrlSymbols) /\ Len(two) = u + 1 + p
        /\ \A i \in 1..(u + 1) : two[i] = one[i]
        /\ \A i \in 1..p : two[u + 1 + i] = secret[i]
    <2>1. /\ two \in Seq(UrlSymbols) /\ Len(two) = Len(one) + Len(secret)
          /\ \A i \in 1..Len(one) : two[i] = one[i]
          /\ \A i \in 1..Len(secret) : two[Len(one) + i] = secret[i]
      BY <1>3, BehindFacts, Zenon
    <2> HIDE DEF two
    <2> QED BY <1>3, <2>1
  <1> HIDE DEF two
  <1>5. /\ s \in Seq(UrlSymbols) /\ Len(s) = u + 1 + p + 1
        /\ \A i \in 1..(u + 1 + p) : s[i] = two[i]
        /\ s[u + 1 + p + 1] = "@"
    <2>1. /\ s \in Seq(UrlSymbols) /\ Len(s) = Len(two) + Len(at)
          /\ \A i \in 1..Len(two) : s[i] = two[i]
          /\ \A i \in 1..Len(at) : s[Len(two) + i] = at[i]
      BY <1>1, <1>4, BehindFacts, Zenon
    <2> HIDE DEF s
    <2> QED BY <1>1, <1>4, <2>1
  <1> HIDE DEF s, u, p
  <1>6. \A i \in 1..u : s[i] = name[i] BY <1>2, <1>3, <1>4, <1>5
  <1>7. s[u + 1] = ":" BY <1>1, <1>2, <1>3, <1>4, <1>5
  <1>8. ASSUME NEW i \in 1..p PROVE s[u + 1 + i] = secret[i]
    <2>1. u + 1 + i \in 1..(u + 1 + p) BY <1>2
    <2> QED BY <1>4, <1>5, <2>1
  <1>9. s[u + p + 2] = "@"
    <2>1. u + p + 2 = u + 1 + p + 1 BY <1>2
    <2> QED BY <1>5, <2>1
  <1>10. Len(s) = u + p + 2 BY <1>2, <1>5
  <1> QED BY <1>5, <1>6, <1>7, <1>8, <1>9, <1>10 DEF s, two, one, colon, at, u, p

(* A text behind a delimiter.                                               *)
LEMMA BehindDelimiter ==
    ASSUME NEW c, <<c>> \in Seq(UrlSymbols), NEW part \in Seq(UrlSymbols)
    PROVE  LET s == <<c>> \o part
           IN  /\ s \in Seq(UrlSymbols) /\ Len(s) = 1 + Len(part)
               /\ s[1] = c
               /\ \A i \in 1..Len(part) : s[1 + i] = part[i]
  <1> DEFINE one == <<c>>
             s == one \o part
  <1>1. one \in Seq(UrlSymbols) /\ Len(one) = 1 /\ one[1] = c OBVIOUS
  <1> HIDE DEF one, UrlSymbols
  <1>2. /\ s \in Seq(UrlSymbols) /\ Len(s) = Len(one) + Len(part)
        /\ \A i \in 1..Len(one) : s[i] = one[i]
        /\ \A i \in 1..Len(part) : s[Len(one) + i] = part[i]
    BY <1>1, BehindFacts, Zenon
  <1> HIDE DEF s
  <1>3. Len(s) = 1 + Len(part) /\ s[1] = c BY <1>1, <1>2
  <1>4. \A i \in 1..Len(part) : s[1 + i] = part[i] BY <1>1, <1>2
  <1> QED BY <1>2, <1>3, <1>4 DEF s, one

-----------------------------------------------------------------------------
(* The shape of a URL, and what UriParser finds in it.                      *)

(* Where the delimiters of a URL stand: m symbols of scheme, which ends at a *)
(* with its delimiter; u of the user, and credentials to b; the host to c,  *)
(* port to d, and path to e, t of it a topic's mark.                        *)
Delimiters == {":", "@", "/", "]", "?", "#"}

SchemeShape(s, m, a) ==
    /\ m \in Nat /\ a \in Nat
    /\ \/ m = 0 /\ a = 0
       \/ m > 0 /\ a = m + 3 /\ s[m + 1] = ":" /\ s[m + 2] = "/" /\ s[m + 3] = "/"
    /\ \A i \in 1..m : s[i] \notin Delimiters \union {"topic"}

CredentialsShape(s, a, u, b) ==
    /\ u \in Nat /\ b \in Nat
    /\ \/ u = 0 /\ b = a
       \/ u > 0 /\ a + u + 2 <= b /\ s[a + u + 1] = ":" /\ s[b] = "@"
    /\ \A i \in (a + 1)..(a + u) : s[i] \notin Delimiters
    /\ \A i \in (a + u + 2)..(b - 1) : s[i] \notin Delimiters \ {":"}

HostShape(s, b, c) ==
    /\ c \in Nat /\ b <= c
    /\ \/ \A i \in (b + 1)..c : s[i] \notin Delimiters
       \/ /\ b < c /\ s[c] = "]"
          /\ \A i \in (b + 1)..(c - 1) : s[i] \notin Delimiters \ {":"}

PortShape(s, c, d) ==
    /\ d \in Nat
    /\ \/ d = c
       \/ c + 2 <= d /\ s[c + 1] = ":"
    /\ \A i \in (c + 2)..d : s[i] \notin Delimiters

PathShape(s, d, t, e) ==
    /\ t \in {0, 4} /\ e \in Nat
    /\ \/ e = d /\ t = 0
       \/ d + 2 + t <= e /\ s[d + 1] = "/"
    /\ t = 4 => s[d + 2] = "topic" /\ s[d + 3] = ":" /\ s[d + 4] = "/" /\ s[d + 5] = "/"
    /\ \A i \in (d + 2 + t)..e : s[i] \notin Delimiters \ {"/"}

QueryShape(s, e) ==
    /\ e <= Len(s)
    /\ \A i \in (e + 1)..Len(s) : s[i] \notin {":", "@", "]"}
    /\ e < Len(s) =>
           \/ s[e + 1] = "?"
           \/ s[e + 1] = "#" /\ \A i \in (e + 1)..Len(s) : s[i] # "?"

Shape(s, m, a, u, b, c, d, t, e) ==
    /\ s \in Seq(UrlSymbols)
    /\ SchemeShape(s, m, a) /\ CredentialsShape(s, a, u, b) /\ HostShape(s, b, c)
    /\ PortShape(s, c, d) /\ PathShape(s, d, t, e) /\ QueryShape(s, e)
    /\ t = 4 => m > 0

(* Where the parts a URL is spelled of stand in it.                         *)
CredentialsAt(url, s, a, u, b) ==
    /\ Stands(s, url.user, a) /\ Len(url.user) = u
    /\ u > 0 => Len(url.password) = b - a - u - 2 /\ Stands(s, url.password, a + u + 1)
    /\ u = 0 => url.password = <<>>

HostAt(url, s, b, c) == Stands(s, url.place.host, b) /\ Len(url.place.host) = c - b

PortAt(url, s, c, d) ==
    /\ c < d => Stands(s, url.place.port, c + 1) /\ Len(url.place.port) = d - c - 1
    /\ c = d => url.place.port = <<>>

PathAt(url, s, d, t, e) ==
    /\ url.is_topic <=> t = 4
    /\ url.place.path = <<>> <=> d = e
    /\ url.place.path # <<>> /\ t = 0 =>
           Stands(s, url.place.path, d + 1) /\ Len(url.place.path) = e - d - 1

PartsAt(url, s, a, u, b, c, d, t, e) ==
    CredentialsAt(url, s, a, u, b) /\ HostAt(url, s, b, c)
        /\ PortAt(url, s, c, d) /\ PathAt(url, s, d, t, e)

(* No delimiter stands anywhere else.                                       *)
LEMMA DelimiterFacts ==
    ASSUME NEW s, NEW m, NEW a, NEW u, NEW b, NEW c, NEW d, NEW t, NEW e,
           Shape(s, m, a, u, b, c, d, t, e), NEW i \in 1..Len(s)
    PROVE  /\ s[i] = "@" => u > 0 /\ i = b
           /\ s[i] = "]" => b < c /\ i = c
           /\ s[i] \in {"?", "#"} => i > e
           /\ s[i] = "/" => i > d \/ (m > 0 /\ i \in {m + 2, m + 3})
           /\ s[i] = ":" => \/ m > 0 /\ i = m + 1
                            \/ u > 0 /\ i >= a + u + 1 /\ i < b
                            \/ b < i /\ i < c /\ s[c] = "]"
                            \/ c < d /\ i = c + 1
                            \/ t = 4 /\ i = d + 3
  <1>1. /\ m \in Nat /\ a \in Nat /\ u \in Nat /\ b \in Nat /\ c \in Nat /\ d \in Nat
        /\ e \in Nat /\ a <= b /\ b <= c /\ c <= d /\ d <= e /\ e <= Len(s)
        /\ Len(s) \in Nat
    BY DEF Shape, SchemeShape, CredentialsShape, HostShape, PortShape, PathShape,
           QueryShape
  <1>2. CASE i <= a BY <1>1, <1>2 DEF Shape, SchemeShape, Delimiters
  <1>3. CASE a < i /\ i <= b BY <1>1, <1>3 DEF Shape, CredentialsShape, Delimiters
  <1>4. CASE b < i /\ i <= c BY <1>1, <1>4 DEF Shape, HostShape, Delimiters
  <1>5. CASE c < i /\ i <= d BY <1>1, <1>5 DEF Shape, PortShape, Delimiters
  <1>6. CASE d < i /\ i <= e
    <2>1. /\ t \in {0, 4} /\ s[d + 1] = "/"
          /\ t = 4 => s[d + 2] = "topic" /\ s[d + 3] = ":" /\ s[d + 4] = "/" /\ s[d + 5] = "/"
          /\ \A j \in (d + 2 + t)..e : s[j] \notin Delimiters \ {"/"}
          /\ d \in Nat /\ e \in Nat
      BY <1>1, <1>6 DEF Shape, PortShape, PathShape
    <2>2. i = d + 1 \/ (t = 4 /\ i \in {d + 2, d + 3, d + 4, d + 5}) \/ i \in (d + 2 + t)..e
      BY <1>6, <2>1
    <2>3. s[i] \notin {"@", "]", "?", "#"} /\ (s[i] = ":" => t = 4 /\ i = d + 3)
      BY <2>1, <2>2 DEF Delimiters
    <2>4. i > d BY <1>6, <2>1
    <2> QED BY <2>3, <2>4, Zenon
  <1>7. CASE e < i
    <2>1. s[i] \notin {":", "@", "]"} BY <1>1, <1>7 DEF Shape, QueryShape
    <2>2. i > d /\ i > e BY <1>1, <1>7 DEF Shape, QueryShape
    <2> QED BY <2>1, <2>2, Zenon
  <1> QED BY <1>1, <1>2, <1>3, <1>4, <1>5, <1>6, <1>7

(* Whether and where the searches of UriParser find their delimiters.        *)
UrlFinds(s, c, from, n) ==
    /\ s \in Seq(UrlSymbols) /\ c \in UrlSymbols /\ from \in Nat
    /\ n \in from..(Len(s) - 1) /\ s[n + 1] = c
    /\ \A i \in (from + 1)..n : s[i] # c

UrlLacks(s, c, from) ==
    /\ s \in Seq(UrlSymbols) /\ c \in UrlSymbols /\ from \in Nat
    /\ \A i \in (from + 1)..Len(s) : s[i] # c

(* A delimiter that is there.                                               *)
LEMMA Found ==
    ASSUME NEW s, NEW c, NEW from, NEW n, UrlFinds(s, c, from, n)
    PROVE  Find(s, <<c>>, from) = n
  <1>1. /\ s \in Seq(UrlSymbols) /\ c \in UrlSymbols /\ from \in Nat
        /\ n \in from..(Len(s) - 1) /\ s[n + 1] = c
        /\ \A i \in (from + 1)..n : s[i] # c
    BY DEF UrlFinds
  <1> QED BY <1>1, FindSymbol

(* A delimiter that is not there.                                           *)
LEMMA NotFound ==
    ASSUME NEW s, NEW c, NEW from, UrlLacks(s, c, from)
    PROVE  Find(s, <<c>>, from) = NPOS
  <1>1. /\ s \in Seq(UrlSymbols) /\ c \in UrlSymbols /\ from \in Nat
        /\ \A i \in (from + 1)..Len(s) : s[i] # c
    BY DEF UrlLacks
  <1> QED BY <1>1, FindNoSymbol, Zenon

(* The order of the parts.                                                  *)
LEMMA ShapeFacts ==
    ASSUME NEW s, NEW m, NEW a, NEW u, NEW b, NEW c, NEW d, NEW t, NEW e,
           Shape(s, m, a, u, b, c, d, t, e)
    PROVE  /\ s \in Seq(UrlSymbols) /\ Len(s) \in Nat
           /\ m \in Nat /\ a \in Nat /\ u \in Nat /\ b \in Nat /\ c \in Nat
           /\ d \in Nat /\ e \in Nat
           /\ a <= b /\ b <= c /\ c <= d /\ d <= e /\ e <= Len(s)
           /\ ((m = 0 /\ a = 0) \/ (m > 0 /\ a = m + 3))
           /\ m = 0 => t # 4
           /\ u > 0 => a + u + 2 <= b /\ s[b] = "@" /\ s[a + u + 1] = ":"
           /\ u = 0 => b = a
           /\ c < d => c + 2 <= d /\ s[c + 1] = ":"
           /\ d < e => s[d + 1] = "/"
  BY DEF Shape, SchemeShape, CredentialsShape, HostShape, PortShape, PathShape, QueryShape

(* The "@" behind the credentials.                                          *)
LEMMA AmpersandFacts ==
    ASSUME NEW s, NEW m, NEW a, NEW u, NEW b, NEW c, NEW d, NEW t, NEW e,
           Shape(s, m, a, u, b, c, d, t, e)
    PROVE  ampersand(s) = IF u > 0 THEN b - 1 ELSE NPOS
  <1>1. "@" \in UrlSymbols BY UrlSymbolFacts
  <1>2. ASSUME NEW i \in 1..Len(s), s[i] = "@" PROVE u > 0 /\ i = b
    BY <1>2, DelimiterFacts
  <1>3. /\ s \in Seq(UrlSymbols) /\ Len(s) \in Nat /\ u \in Nat /\ b \in Nat
        /\ b <= Len(s) /\ (u > 0 => s[b] = "@" /\ b > 0)
    BY ShapeFacts
  <1> HIDE DEF UrlSymbols
  <1>4. CASE u > 0
    <2>1. UrlFinds(s, "@", 0, b - 1)
      <3>1. b - 1 \in 0..(Len(s) - 1) /\ (b - 1) + 1 = b BY <1>3, <1>4
      <3>2. ASSUME NEW i \in (0 + 1)..(b - 1) PROVE s[i] # "@"
        <4>1. i \in 1..Len(s) /\ i # b BY <1>3
        <4> QED BY <1>2, <4>1
      <3>3. s[(b - 1) + 1] = "@" BY <1>3, <1>4, <3>1
      <3> QED BY <1>1, <1>3, <3>1, <3>2, <3>3 DEF UrlFinds
    <2> QED BY <1>4, <2>1, Found DEF ampersand
  <1>5. CASE ~(u > 0)
    <2>1. UrlLacks(s, "@", 0)
      <3>1. ASSUME NEW i \in (0 + 1)..Len(s) PROVE s[i] # "@"
        <4>1. i \in 1..Len(s) BY <1>3
        <4> QED BY <1>2, <1>5, <4>1
      <3> QED BY <1>1, <1>3, <3>1 DEF UrlLacks
    <2> QED BY <1>5, <2>1, NotFound DEF ampersand
  <1> QED BY <1>4, <1>5

(* "://" stands behind the scheme, and nowhere in a URL without one.        *)
LEMMA SchemeDelimiter ==
    ASSUME NEW s, NEW m, NEW a, NEW u, NEW b, NEW c, NEW d, NEW t, NEW e,
           Shape(s, m, a, u, b, c, d, t, e)
    PROVE  scheme_delimiter(s) = IF m > 0 THEN m ELSE NPOS
  <1> DEFINE part == <<":", "/", "/">>
  <1>1. /\ part \in Seq(UrlSymbols) /\ Len(part) = 3
        /\ part[1] = ":" /\ part[2] = "/" /\ part[3] = "/"
    BY DelimiterTexts
  <1>2. scheme_delimiter(s) = Find(s, part, 0) BY DEF scheme_delimiter
  <1> HIDE DEF part, UrlSymbols
  <1>3. /\ s \in Seq(UrlSymbols) /\ Len(s) \in Nat
        /\ m \in Nat /\ a \in Nat /\ u \in Nat /\ b \in Nat /\ c \in Nat
        /\ d \in Nat /\ e \in Nat
        /\ a <= b /\ b <= c /\ c <= d /\ d <= e /\ e <= Len(s)
        /\ ((m = 0 /\ a = 0) \/ (m > 0 /\ a = m + 3))
        /\ m = 0 => t # 4
        /\ c < d => c + 2 <= d
    BY ShapeFacts
  <1>4. ASSUME NEW p \in 0..(Len(s) - 3), Stands(s, part, p)
        PROVE  s[p + 1] = ":" /\ s[p + 2] = "/"
    BY <1>1, <1>4 DEF Stands
  <1>5. CASE m > 0
    <2>1. Stands(s, part, m)
      <3>1. s[m + 1] = ":" /\ s[m + 2] = "/" /\ s[m + 3] = "/"
        BY <1>5 DEF Shape, SchemeShape
      <3> QED BY <1>1, <3>1 DEF Stands
    <2>2. ASSUME NEW p \in 0..(m - 1) PROVE ~Stands(s, part, p)
      <3>1. p \in 0..(Len(s) - 3) BY <1>3, <1>5
      <3>2. p + 1 \in 1..m BY <1>3
      <3>3. s[p + 1] # ":"
        BY <3>2 DEF Shape, SchemeShape, Delimiters
      <3> QED BY <1>4, <3>1, <3>3
    <2>3. m \in 0..(Len(s) - Len(part)) BY <1>1, <1>3, <1>5
    <2>4. Find(s, part, 0) = m BY <1>1, <1>3, <2>1, <2>2, <2>3, FindIs
    <2> QED BY <1>2, <1>5, <2>4
  <1>6. CASE ~(m > 0)
    <2>1. ASSUME NEW p \in 0..(Len(s) - 3), Stands(s, part, p) PROVE FALSE
      <3>1. s[p + 1] = ":" /\ s[p + 2] = "/" BY <1>4, <2>1
      <3>2. p + 1 \in 1..Len(s) /\ p + 2 \in 1..Len(s) BY <1>3
      <3>3. \/ m > 0 /\ p + 1 = m + 1
            \/ u > 0 /\ p + 1 >= a + u + 1 /\ p + 1 < b
            \/ b < p + 1 /\ p + 1 < c /\ s[c] = "]"
            \/ c < d /\ p + 1 = c + 1
            \/ t = 4 /\ p + 1 = d + 3
        BY <3>1, <3>2, DelimiterFacts
      <3>4. p + 2 > d \/ (m > 0 /\ p + 2 \in {m + 2, m + 3})
        BY <3>1, <3>2, DelimiterFacts
      <3>5. p + 2 > d BY <1>6, <3>4
      <3>6. ~(c < d /\ p + 1 = c + 1) BY <1>3, <3>5
      <3> QED BY <1>3, <1>6, <3>3, <3>5, <3>6
    <2>2. \A p \in 0..(Len(s) - Len(part)) : ~Stands(s, part, p) BY <1>1, <2>1
    <2>3. Find(s, part, 0) = NPOS BY <1>1, <1>3, <2>2, FindNot
    <2> QED BY <1>2, <1>6, <2>3
  <1> QED BY <1>5, <1>6

(* The first colon looked for is the one of the credentials.                *)
LEMMA FirstColon ==
    ASSUME NEW s, NEW m, NEW a, NEW u, NEW b, NEW c, NEW d, NEW t, NEW e,
           Shape(s, m, a, u, b, c, d, t, e)
    PROVE  /\ u > 0 => first_colon(s) = a + u
           /\ u = 0 /\ t # 4 /\ (\A i \in 1..Len(s) : s[i] # "]") =>
                  first_colon(s) = IF c < d THEN c ELSE NPOS
  <1> DEFINE from == (IF m > 0 THEN m ELSE NPOS) + 1
  <1>1. first_colon(s) = Find(s, <<":">>, from) BY SchemeDelimiter DEF first_colon
  <1>2. /\ s \in Seq(UrlSymbols) /\ Len(s) \in Nat
        /\ m \in Nat /\ a \in Nat /\ u \in Nat /\ b \in Nat /\ c \in Nat
        /\ d \in Nat /\ e \in Nat
        /\ a <= b /\ b <= c /\ c <= d /\ d <= e /\ e <= Len(s)
        /\ ((m = 0 /\ a = 0) \/ (m > 0 /\ a = m + 3))
        /\ u > 0 => a + u + 2 <= b /\ s[a + u + 1] = ":"
        /\ c < d => c + 2 <= d /\ s[c + 1] = ":"
    BY ShapeFacts
  <1>3. ":" \in UrlSymbols BY UrlSymbolFacts
  <1>4. from \in Nat /\ from <= a /\ (m > 0 => from = m + 1) BY <1>2 DEF NPOS
  <1> HIDE DEF from, UrlSymbols
  <1>5. ASSUME NEW i \in (from + 1)..Len(s), s[i] = ":"
        PROVE  \/ u > 0 /\ i >= a + u + 1 /\ i < b
               \/ b < i /\ i < c /\ s[c] = "]"
               \/ c < d /\ i = c + 1
               \/ t = 4 /\ i = d + 3
    <2>1. i \in 1..Len(s) BY <1>2, <1>4
    <2>2. ~(m > 0 /\ i = m + 1) BY <1>2, <1>4
    <2> QED BY <1>5, <2>1, <2>2, DelimiterFacts
  <1>6. ASSUME u > 0 PROVE first_colon(s) = a + u
    <2>1. UrlFinds(s, ":", from, a + u)
      <3>1. a + u \in from..(Len(s) - 1) /\ s[(a + u) + 1] = ":" BY <1>2, <1>4, <1>6
      <3>2. ASSUME NEW i \in (from + 1)..(a + u) PROVE s[i] # ":"
        <4>1. i \in (from + 1)..Len(s) BY <1>2, <1>4, <3>1
        <4>2. i <= a + u /\ i < b /\ i < d BY <1>2, <1>4, <1>6
        <4> QED BY <1>2, <1>5, <4>1, <4>2
      <3> QED BY <1>2, <1>3, <1>4, <3>1, <3>2 DEF UrlFinds
    <2> QED BY <1>1, <2>1, Found
  <1>7. ASSUME u = 0, t # 4, \A i \in 1..Len(s) : s[i] # "]"
        PROVE  first_colon(s) = IF c < d THEN c ELSE NPOS
    <2>0. ASSUME NEW i \in 1..Len(s), b < i, i < c PROVE s[c] # "]"
      <3>1. c \in 1..Len(s) BY <1>2, <2>0
      <3> QED BY <1>7, <3>1
    <2>1. CASE c < d
      <3>1. UrlFinds(s, ":", from, c)
        <4>1. c \in from..(Len(s) - 1) /\ s[c + 1] = ":" BY <1>2, <1>4, <2>1
        <4>2. ASSUME NEW i \in (from + 1)..c PROVE s[i] # ":"
          <5>1. i \in (from + 1)..Len(s) /\ i # c + 1 BY <1>2, <1>4
          <5>2. i \in 1..Len(s) /\ ~(u > 0) BY <1>2, <1>4, <1>7
          <5> QED BY <1>5, <1>7, <2>0, <5>1, <5>2
        <4> QED BY <1>2, <1>3, <1>4, <4>1, <4>2 DEF UrlFinds
      <3> QED BY <1>1, <2>1, <3>1, Found
    <2>2. CASE ~(c < d)
      <3>1. UrlLacks(s, ":", from)
        <4>1. ASSUME NEW i \in (from + 1)..Len(s) PROVE s[i] # ":"
          <5>1. i \in 1..Len(s) /\ ~(u > 0) BY <1>2, <1>4, <1>7
          <5> QED BY <1>5, <1>7, <2>2, <2>0, <5>1
        <4> QED BY <1>2, <1>3, <1>4, <4>1 DEF UrlLacks
      <3> QED BY <1>1, <2>2, <3>1, NotFound
    <2> QED BY <2>1, <2>2
  <1> QED BY <1>6, <1>7

(* What is cut out of a URL where one of its parts stands.                  *)
LEMMA CutOut ==
    ASSUME NEW s \in Seq(UrlSymbols), NEW part \in Seq(UrlSymbols), NEW n \in Nat, NEW l,
           Stands(s, part, n), l = Len(part), n + l <= Len(s)
    PROVE  Substr(s, n, l) = part
  BY SubstrIs

(* What is left of a URL behind a place.                                    *)
LEMMA CutOff ==
    ASSUME NEW s \in Seq(UrlSymbols), NEW part \in Seq(UrlSymbols), NEW n \in Nat,
           Stands(s, part, n), n + Len(part) = Len(s)
    PROVE  From(s, n) = part
  <1>1. n + Len(part) <= Len(s) OBVIOUS
  <1> QED BY <1>1, SubstrIs

(* User and password are found between their delimiters.                    *)
LEMMA CredentialsFound ==
    ASSUME NEW s, NEW m, NEW a, NEW u, NEW b, NEW c, NEW d, NEW t, NEW e,
           Shape(s, m, a, u, b, c, d, t, e),
           NEW url, IsUrl(url), PartsAt(url, s, a, u, b, c, d, t, e)
    PROVE  user(s) = url.user /\ password(s) = url.password /\ (HasCredentials(s) <=> u > 0)
  <1> DEFINE name == url.user
             secret == url.password
  <1>0. /\ name \in Seq(UrlSymbols) /\ secret \in Seq(UrlSymbols)
        /\ Len(name) = u /\ Stands(s, name, a)
        /\ u > 0 => Len(secret) = b - a - u - 2 /\ Stands(s, secret, a + u + 1)
        /\ u = 0 => secret = <<>>
    <2>1. name \in Seq(UrlSymbols) /\ secret \in Seq(UrlSymbols) BY UrlTypes
    <2> QED BY <2>1, Zenon DEF PartsAt, CredentialsAt
  <1> SUFFICES user(s) = name /\ password(s) = secret /\ (HasCredentials(s) <=> u > 0)
    OBVIOUS
  <1> USE <1>0
  <1> HIDE DEF name, secret
  <1>1. /\ s \in Seq(UrlSymbols) /\ Len(s) \in Nat
        /\ m \in Nat /\ a \in Nat /\ u \in Nat /\ b \in Nat
        /\ a <= b /\ b <= Len(s)
        /\ ((m = 0 /\ a = 0) \/ (m > 0 /\ a = m + 3))
        /\ u > 0 => a + u + 2 <= b
    BY ShapeFacts
  <1>2. scheme_delimiter(s) = IF m > 0 THEN m ELSE NPOS BY SchemeDelimiter
  <1>3. ampersand(s) = IF u > 0 THEN b - 1 ELSE NPOS BY AmpersandFacts
  <1>4. u > 0 => first_colon(s) = a + u BY FirstColon
  <1>5. HasCredentials(s) <=> u > 0
    <2>1. CASE u > 0
      <3>1. /\ a + u < b - 1 /\ a + u # NPOS /\ b - 1 # NPOS BY <1>1, <2>1 DEF NPOS
      <3> QED BY <1>3, <1>4, <2>1, <3>1 DEF HasCredentials
    <2>2. CASE ~(u > 0) BY <1>3, <2>2 DEF HasCredentials
    <2> QED BY <2>1, <2>2
  <1>6. CASE u > 0
    <2>1. (IF scheme_delimiter(s) = NPOS THEN 0 ELSE scheme_delimiter(s) + 3) = a
      BY <1>1, <1>2 DEF NPOS
    <2>2. user(s) = Substr(s, a, first_colon(s) - a) BY <1>5, <1>6, <2>1 DEF user
    <2>3. first_colon(s) - a = u BY <1>1, <1>4, <1>6
    <2>4. Substr(s, a, u) = name
      <3>1. a + u <= Len(s) BY <1>1, <1>6
      <3> QED BY <1>1, <3>1, CutOut
    <2>5. password(s) = Substr(s, first_colon(s) + 1, ampersand(s) - first_colon(s) - 1)
      BY <1>5, <1>6 DEF password
    <2>6. /\ first_colon(s) + 1 = a + u + 1
          /\ ampersand(s) - first_colon(s) - 1 = b - a - u - 2
      BY <1>1, <1>3, <1>4, <1>6
    <2>7. Substr(s, a + u + 1, b - a - u - 2) = secret
      <3>1. /\ a + u + 1 \in Nat /\ (a + u + 1) + (b - a - u - 2) <= Len(s)
        BY <1>1, <1>6
      <3>2. Stands(s, secret, a + u + 1) /\ b - a - u - 2 = Len(secret) BY <1>6
      <3> QED BY <1>1, <3>1, <3>2, CutOut
    <2> QED BY <1>5, <2>2, <2>3, <2>4, <2>5, <2>6, <2>7
  <1>7. CASE ~(u > 0)
    <2>1. u = 0 /\ name = <<>> BY <1>1, <1>7
    <2> QED BY <1>5, <1>7, <2>1 DEF user, password
  <1> QED BY <1>6, <1>7

(* The colon before the port.                                               *)
LEMMA ColonPosition ==
    ASSUME NEW s, NEW m, NEW a, NEW u, NEW b, NEW c, NEW d, NEW t, NEW e,
           Shape(s, m, a, u, b, c, d, t, e), t # 4, HasCredentials(s) <=> u > 0
    PROVE  colon_position(s) = IF c < d THEN c ELSE NPOS
  <1>1. /\ s \in Seq(UrlSymbols) /\ Len(s) \in Nat
        /\ m \in Nat /\ a \in Nat /\ u \in Nat /\ b \in Nat /\ c \in Nat
        /\ d \in Nat /\ e \in Nat
        /\ a <= b /\ b <= c /\ c <= d /\ d <= e /\ e <= Len(s)
        /\ ((m = 0 /\ a = 0) \/ (m > 0 /\ a = m + 3))
        /\ u > 0 => a + u + 2 <= b
        /\ c < d => c + 2 <= d /\ s[c + 1] = ":"
    BY ShapeFacts
  <1>2. ":" \in UrlSymbols /\ "]" \in UrlSymbols BY UrlSymbolFacts
  <1> HIDE DEF UrlSymbols
  <1>3. ASSUME NEW from \in Nat, from <= c, from >= a,
               \A i \in (from + 1)..c : s[i] # ":", u > 0 => from >= b - 1
        PROVE  Find(s, <<":">>, from) = IF c < d THEN c ELSE NPOS
    <2>1. CASE c < d
      <3>1. c \in from..(Len(s) - 1) /\ s[c + 1] = ":" BY <1>1, <1>3, <2>1
      <3>2. UrlFinds(s, ":", from, c) BY <1>1, <1>2, <1>3, <3>1 DEF UrlFinds
      <3> QED BY <2>1, <3>2, Found
    <2>2. CASE ~(c < d)
      <3>1. ASSUME NEW i \in (from + 1)..Len(s) PROVE s[i] # ":"
        <4>1. CASE i \in (from + 1)..c BY <1>3, <4>1
        <4>2. CASE i > c
          <5>1. i \in 1..Len(s) BY <1>1, <1>3
          <5>2. ~(m > 0 /\ i = m + 1) BY <1>1, <4>2
          <5>3. ~(u > 0 /\ i >= a + u + 1 /\ i < b) BY <1>1, <4>2
          <5>4. ~(b < i /\ i < c /\ s[c] = "]") BY <1>1, <4>2
          <5> QED BY <2>2, <5>1, <5>2, <5>3, <5>4, DelimiterFacts
        <4> QED BY <1>1, <1>3, <4>1, <4>2
      <3>2. UrlLacks(s, ":", from) BY <1>1, <1>2, <1>3, <3>1 DEF UrlLacks
      <3> QED BY <2>2, <3>2, NotFound
    <2> QED BY <2>1, <2>2
  <1>4. CASE \E i \in 1..Len(s) : s[i] = "]"
    <2>1. b < c /\ c \in 1..Len(s) /\ s[c] = "]" BY <1>1, <1>4, DelimiterFacts
    <2>2. Find(s, <<"]">>, 0) = c - 1
      <3>1. c - 1 \in 0..(Len(s) - 1) /\ s[(c - 1) + 1] = "]" BY <1>1, <2>1
      <3>2. ASSUME NEW i \in (0 + 1)..(c - 1) PROVE s[i] # "]"
        <4>1. i \in 1..Len(s) /\ i # c BY <1>1, <2>1
        <4> QED BY <4>1, DelimiterFacts
      <3>3. UrlFinds(s, "]", 0, c - 1) BY <1>1, <1>2, <3>1, <3>2 DEF UrlFinds
      <3> QED BY <3>3, Found
    <2>3. c - 1 # NPOS /\ (c - 1) + 1 = c BY <1>1, <2>1 DEF NPOS
    <2>4. colon_position(s) = Find(s, <<":">>, c) BY <2>2, <2>3 DEF colon_position
    <2>5. Find(s, <<":">>, c) = IF c < d THEN c ELSE NPOS
      <3>1. \A i \in (c + 1)..c : s[i] # ":" BY <1>1
      <3>2. u > 0 => c >= b - 1 BY <1>1
      <3>3. c <= c /\ c >= a BY <1>1
      <3> QED BY <1>1, <1>3, <3>1, <3>2, <3>3
    <2> QED BY <2>4, <2>5
  <1>5. CASE \A i \in 1..Len(s) : s[i] # "]"
    <2>1. UrlLacks(s, "]", 0)
      <3>1. \A i \in (0 + 1)..Len(s) : s[i] # "]" BY <1>5
      <3> QED BY <1>1, <1>2, <3>1 DEF UrlLacks
    <2>2. Find(s, <<"]">>, 0) = NPOS BY <2>1, NotFound
    <2>3. CASE u > 0
      <3>1. ampersand(s) = b - 1 BY <2>3, AmpersandFacts
      <3>2. colon_position(s) = Find(s, <<":">>, b - 1)
        BY <2>2, <2>3, <3>1 DEF colon_position
      <3>3. ASSUME NEW i \in ((b - 1) + 1)..c PROVE s[i] # ":"
        <4>1. i \in 1..Len(s) /\ i >= b /\ i <= c BY <1>1, <2>3
        <4>2. ~(m > 0 /\ i = m + 1) BY <1>1, <2>3, <4>1
        <4>3. ~(b < i /\ i < c /\ s[c] = "]")
          <5>1. b < i /\ i < c => c \in 1..Len(s) BY <1>1
          <5> QED BY <1>5, <5>1
        <4>4. ~(c < d /\ i = c + 1) /\ ~(i >= a + u + 1 /\ i < b) BY <1>1, <4>1
        <4> QED BY <4>1, <4>2, <4>3, <4>4, DelimiterFacts
      <3>4. b - 1 \in Nat /\ b - 1 <= c /\ b - 1 >= a BY <1>1, <2>3
      <3>5. Find(s, <<":">>, b - 1) = IF c < d THEN c ELSE NPOS
        BY <1>1, <1>3, <3>3, <3>4
      <3> QED BY <3>2, <3>5
    <2>4. CASE ~(u > 0)
      <3>1. u = 0 BY <1>1, <2>4
      <3>2. colon_position(s) = first_colon(s) BY <2>2, <2>4 DEF colon_position
      <3> QED BY <1>5, <3>1, <3>2, FirstColon
    <2> QED BY <2>3, <2>4
  <1> QED BY <1>4, <1>5

(* Host, port and path of a URL with a path that names no topic.            *)
LEMMA PlaceFound ==
    ASSUME NEW s, NEW m, NEW a, NEW u, NEW b, NEW c, NEW d, NEW t, NEW e,
           Shape(s, m, a, u, b, c, d, t, e),
           NEW url, IsUrl(url), PartsAt(url, s, a, u, b, c, d, t, e),
           t = 0, d < e
    PROVE  Place(s) = url.place
  <1> DEFINE host_ == url.place.host
             port_ == url.place.port
             path_ == url.place.path
  <1>0. /\ host_ \in Seq(UrlSymbols) /\ port_ \in Seq(UrlSymbols) /\ path_ \in Seq(UrlSymbols)
        /\ Stands(s, host_, b) /\ Len(host_) = c - b
        /\ c < d => Stands(s, port_, c + 1) /\ Len(port_) = d - c - 1
        /\ c = d => port_ = <<>>
        /\ Stands(s, path_, d + 1) /\ Len(path_) = e - d - 1
        /\ (HasCredentials(s) <=> u > 0)
    <2>1. host_ \in Seq(UrlSymbols) /\ port_ \in Seq(UrlSymbols) /\ path_ \in Seq(UrlSymbols)
      BY UrlTypes
    <2>5. url.place.path # <<>>
      <3>1. url.place.path = <<>> <=> d = e BY Zenon DEF PartsAt, PathAt
      <3>2. d \in Nat /\ e \in Nat BY ShapeFacts
      <3>3. d # e BY <3>2
      <3> QED BY <3>1, <3>3
    <2>6. /\ Stands(s, host_, b) /\ Len(host_) = c - b
          /\ c < d => Stands(s, port_, c + 1) /\ Len(port_) = d - c - 1
          /\ c = d => port_ = <<>>
          /\ Stands(s, path_, d + 1) /\ Len(path_) = e - d - 1
      BY <2>5, Zenon DEF PartsAt, HostAt, PortAt, PathAt
    <2>7. HasCredentials(s) <=> u > 0 BY CredentialsFound
    <2> QED BY <2>1, <2>6, <2>7
  <1>20. url.place = [host |-> host_, port |-> port_, path |-> path_] BY UrlTypes
  <1> USE <1>0
  <1> HIDE DEF host_, port_, path_
  <1> SUFFICES Place(s) = [host |-> host_, port |-> port_, path |-> path_]
    BY <1>20
  <1>1. /\ s \in Seq(UrlSymbols) /\ Len(s) \in Nat
        /\ m \in Nat /\ a \in Nat /\ u \in Nat /\ b \in Nat /\ c \in Nat
        /\ d \in Nat /\ e \in Nat
        /\ a <= b /\ b <= c /\ c <= d /\ d <= e /\ e <= Len(s)
        /\ ((m = 0 /\ a = 0) \/ (m > 0 /\ a = m + 3))
        /\ u > 0 => a + u + 2 <= b
        /\ u = 0 => b = a
        /\ d < e => s[d + 1] = "/"
    BY ShapeFacts
  <1>2. "/" \in UrlSymbols /\ "?" \in UrlSymbols /\ "#" \in UrlSymbols BY UrlSymbolFacts
  <1> HIDE DEF UrlSymbols
  <1>3. colon_position(s) = IF c < d THEN c ELSE NPOS BY ColonPosition
  <1>4. scheme_delimiter(s) = IF m > 0 THEN m ELSE NPOS BY SchemeDelimiter
  <1>5. ampersand(s) = IF u > 0 THEN b - 1 ELSE NPOS BY AmpersandFacts
  <1>6. slash_position(s) = d
    <2>1. (IF scheme_delimiter(s) = NPOS THEN 0 ELSE scheme_delimiter(s) + 3) = a
      BY <1>1, <1>4 DEF NPOS
    <2>2. slash_position(s) = Find(s, <<"/">>, a) BY <2>1 DEF slash_position
    <2>3. d \in a..(Len(s) - 1) /\ s[d + 1] = "/" BY <1>1
    <2>4. ASSUME NEW i \in (a + 1)..d PROVE s[i] # "/"
      <3>1. i \in 1..Len(s) /\ ~(i > d) /\ ~(m > 0 /\ i \in {m + 2, m + 3}) BY <1>1
      <3> QED BY <3>1, DelimiterFacts
    <2>5. UrlFinds(s, "/", a, d) BY <1>1, <1>2, <2>3, <2>4 DEF UrlFinds
    <2> QED BY <2>2, <2>5, Found
  <1>7. BeforeHost(s) = b - 1
    <2>1. CASE u > 0
      <3>1. b - 1 # NPOS BY <1>1, <2>1 DEF NPOS
      <3> QED BY <1>5, <2>1, <3>1 DEF BeforeHost
    <2>2. CASE ~(u > 0)
      <3>1. u = 0 BY <1>1, <2>2
      <3>2. CASE m > 0
        <4>1. m # NPOS /\ m + 2 = b - 1 BY <1>1, <3>1, <3>2 DEF NPOS
        <4> QED BY <1>4, <1>5, <2>2, <3>2, <4>1 DEF BeforeHost
      <3>3. CASE ~(m > 0)
        <4>1. NPOS = b - 1 BY <1>1, <3>1, <3>3 DEF NPOS
        <4> QED BY <1>4, <1>5, <2>2, <3>3, <4>1 DEF BeforeHost
      <3> QED BY <3>2, <3>3
    <2> QED BY <2>1, <2>2
  <1>8. d # NPOS /\ c # NPOS BY <1>1 DEF NPOS
  <1>9. host(s) = host_
    <2>1. Substr(s, b, c - b) = host_
      <3>1. b + (c - b) <= Len(s) BY <1>1
      <3> QED BY <1>1, <3>1, CutOut
    <2>2. (b - 1) + 1 = b /\ c - (b - 1) - 1 = c - b BY <1>1
    <2>3. CASE c < d
      <3>1. host(s) = Substr(s, (b - 1) + 1, c - (b - 1) - 1)
        BY <1>3, <1>7, <1>8, <2>3 DEF host
      <3> QED BY <2>1, <2>2, <3>1
    <2>4. CASE ~(c < d)
      <3>1. host(s) = Substr(s, (b - 1) + 1, d - (b - 1) - 1)
        BY <1>3, <1>6, <1>7, <1>8, <2>4 DEF host
      <3>2. d = c BY <1>1, <2>4
      <3> QED BY <2>1, <2>2, <3>1, <3>2
    <2> QED BY <2>3, <2>4
  <1>10. port(s) = port_
    <2>1. CASE c < d
      <3>1. port(s) = Substr(s, c + 1, d - c - 1)
        BY <1>3, <1>6, <1>8, <2>1 DEF port
      <3>2. c + 1 \in Nat /\ (c + 1) + (d - c - 1) <= Len(s) BY <1>1
      <3>3. Stands(s, port_, c + 1) /\ d - c - 1 = Len(port_) BY <2>1
      <3> DEFINE from == c + 1
                 l == d - c - 1
      <3>4. from \in Nat /\ from + l <= Len(s) /\ Stands(s, port_, from) /\ l = Len(port_)
        BY <3>2, <3>3
      <3> HIDE DEF from, l
      <3>5. Substr(s, from, l) = port_ BY <1>1, <3>4, CutOut
      <3> QED BY <3>1, <3>5 DEF from, l
    <2>2. CASE ~(c < d)
      <3>1. port_ = <<>> BY <1>1, <2>2
      <3> QED BY <1>3, <2>2, <3>1 DEF port
    <2> QED BY <2>1, <2>2
  <1>11. path(s) = path_
    <2> DEFINE question == Find(s, <<"?">>, 0)
               hash == Find(s, <<"#">>, 0)
    <2>1. path(s) = IF question # NPOS THEN Substr(s, d + 1, question - d - 1)
                    ELSE IF hash # NPOS THEN Substr(s, d + 1, hash - d - 1)
                    ELSE From(s, d + 1)
      BY <1>6, <1>8 DEF path
    <2> HIDE DEF question, hash
    <2>2. \A i \in 1..e : s[i] # "?" /\ s[i] # "#"
      <3> SUFFICES ASSUME NEW i \in 1..e PROVE s[i] \notin {"?", "#"} OBVIOUS
      <3>1. i \in 1..Len(s) /\ ~(i > e) BY <1>1
      <3> QED BY <3>1, DelimiterFacts
    <2>3. d + 1 \in Nat /\ (d + 1) + (e - d - 1) = e /\ e <= Len(s) /\ e - d - 1 = Len(path_)
      BY <1>1
    <2>4. Substr(s, d + 1, e - d - 1) = path_ /\ (e = Len(s) => From(s, d + 1) = path_)
      <3> DEFINE from == d + 1
                 l == e - d - 1
      <3>1. /\ from \in Nat /\ from + l = e /\ from + l <= Len(s)
            /\ Stands(s, path_, from) /\ l = Len(path_)
        BY <2>3
      <3> HIDE DEF from, l
      <3>2. Substr(s, from, l) = path_ BY <1>1, <3>1, CutOut
      <3>3. ASSUME from + l = Len(s) PROVE From(s, from) = path_
        <4>1. from + Len(path_) = Len(s) /\ from + Len(path_) <= Len(s) BY <3>1, <3>3
        <4> QED BY <1>1, <3>1, <4>1, CutOff
      <3> QED BY <3>1, <3>2, <3>3 DEF from, l
    <2>5. CASE e < Len(s) /\ s[e + 1] = "?"
      <3>1. UrlFinds(s, "?", 0, e) BY <1>1, <1>2, <2>2, <2>5 DEF UrlFinds
      <3>2. question = e BY <3>1, Found DEF question
      <3>3. e # NPOS BY <1>1 DEF NPOS
      <3> QED BY <2>1, <2>4, <3>2, <3>3
    <2>6. CASE /\ e < Len(s) /\ s[e + 1] = "#"
               /\ \A i \in (e + 1)..Len(s) : s[i] # "?"
      <3>1. \A i \in 1..Len(s) : s[i] # "?" BY <1>1, <2>2, <2>6
      <3>2. UrlLacks(s, "?", 0) BY <1>1, <1>2, <3>1 DEF UrlLacks
      <3>3. UrlFinds(s, "#", 0, e) BY <1>1, <1>2, <2>2, <2>6 DEF UrlFinds
      <3>4. question = NPOS /\ hash = e BY <3>2, <3>3, Found, NotFound DEF question, hash
      <3>5. e # NPOS BY <1>1 DEF NPOS
      <3> QED BY <2>1, <2>4, <3>4, <3>5
    <2>7. CASE ~(e < Len(s))
      <3>1. e = Len(s) BY <1>1, <2>7
      <3>2. UrlLacks(s, "?", 0) /\ UrlLacks(s, "#", 0)
        BY <1>1, <1>2, <2>2, <3>1 DEF UrlLacks
      <3>3. question = NPOS /\ hash = NPOS BY <3>2, NotFound DEF question, hash
      <3> QED BY <2>1, <2>4, <3>1, <3>3
    <2> QED BY <2>5, <2>6, <2>7 DEF Shape, QueryShape
  <1> QED BY <1>9, <1>10, <1>11 DEF Place

(* "topic://" is found in a URL that names a topic, and in no other.        *)
LEMMA TopicFound ==
    ASSUME NEW s, NEW m, NEW a, NEW u, NEW b, NEW c, NEW d, NEW t, NEW e,
           Shape(s, m, a, u, b, c, d, t, e)
    PROVE  Find(s, <<"topic", ":", "/", "/">>, 0) # NPOS <=> t = 4
  <1> DEFINE part == <<"topic", ":", "/", "/">>
  <1>1. /\ part \in Seq(UrlSymbols) /\ Len(part) = 4
        /\ part[1] = "topic" /\ part[2] = ":" /\ part[3] = "/" /\ part[4] = "/"
    BY DelimiterTexts
  <1> HIDE DEF part, UrlSymbols
  <1>2. /\ s \in Seq(UrlSymbols) /\ Len(s) \in Nat
        /\ m \in Nat /\ a \in Nat /\ u \in Nat /\ b \in Nat /\ c \in Nat
        /\ d \in Nat /\ e \in Nat
        /\ a <= b /\ b <= c /\ c <= d /\ d <= e /\ e <= Len(s)
        /\ ((m = 0 /\ a = 0) \/ (m > 0 /\ a = m + 3))
        /\ c < d => c + 2 <= d
    BY ShapeFacts
  <1>3. ASSUME NEW p \in 0..(Len(s) - 4), Stands(s, part, p)
        PROVE  t = 4 /\ p = d + 1
    <2>1. s[p + 1] = "topic" /\ s[p + 2] = ":" /\ s[p + 3] = "/"
      BY <1>1, <1>3 DEF Stands
    <2>2. p + 2 \in 1..Len(s) /\ p + 3 \in 1..Len(s) BY <1>2
    <2>3. \/ m > 0 /\ p + 2 = m + 1
          \/ u > 0 /\ p + 2 >= a + u + 1 /\ p + 2 < b
          \/ b < p + 2 /\ p + 2 < c /\ s[c] = "]"
          \/ c < d /\ p + 2 = c + 1
          \/ t = 4 /\ p + 2 = d + 3
      BY <2>1, <2>2, DelimiterFacts
    <2>4. p + 3 > d \/ (m > 0 /\ p + 3 \in {m + 2, m + 3})
      BY <2>1, <2>2, DelimiterFacts
    <2>5. ~(m > 0 /\ p + 2 = m + 1)
      <3> SUFFICES ASSUME m > 0, p + 2 = m + 1 PROVE FALSE OBVIOUS
      <3>1. p + 1 \in 1..m BY <1>2
      <3>2. s[p + 1] # "topic" BY <3>1 DEF Shape, SchemeShape
      <3> QED BY <2>1, <3>2
    <2>6. ~(c < d /\ p + 2 = c + 1) BY <1>2, <2>4, <2>5
    <2>7. ~(u > 0 /\ p + 2 >= a + u + 1 /\ p + 2 < b) BY <1>2, <2>4, <2>5
    <2>8. ~(b < p + 2 /\ p + 2 < c /\ s[c] = "]") BY <1>2, <2>4, <2>5
    <2>9. t = 4 /\ p + 2 = d + 3 BY <2>3, <2>5, <2>6, <2>7, <2>8
    <2> QED BY <1>2, <2>9
  <1>4. CASE t = 4
    <2>1. /\ s[d + 2] = "topic" /\ s[d + 3] = ":" /\ s[d + 4] = "/" /\ s[d + 5] = "/"
          /\ d + 6 <= e
      BY <1>2, <1>4 DEF Shape, PathShape
    <2>2. Stands(s, part, d + 1)
      <3>1. /\ (d + 1) + 1 = d + 2 /\ (d + 1) + 2 = d + 3 /\ (d + 1) + 3 = d + 4
            /\ (d + 1) + 4 = d + 5
        BY <1>2
      <3>2. \A i \in 1..4 : s[(d + 1) + i] = part[i] BY <1>1, <2>1, <3>1
      <3> QED BY <1>1, <3>2 DEF Stands
    <2>3. d + 1 \in 0..(Len(s) - Len(part)) BY <1>1, <1>2, <2>1
    <2>4. ASSUME NEW p \in 0..((d + 1) - 1) PROVE ~Stands(s, part, p)
      <3>1. p \in 0..(Len(s) - 4) /\ p # d + 1 BY <1>2, <2>1
      <3> QED BY <1>3, <3>1
    <2>5. Find(s, part, 0) = d + 1 BY <1>1, <1>2, <2>2, <2>3, <2>4, FindIs
    <2>6. d + 1 # NPOS BY <1>2 DEF NPOS
    <2> QED BY <1>4, <2>5, <2>6 DEF part
  <1>5. CASE t # 4
    <2>1. \A p \in 0..(Len(s) - Len(part)) : ~Stands(s, part, p) BY <1>1, <1>3, <1>5
    <2>2. Find(s, part, 0) = NPOS BY <1>1, <1>2, <2>1, FindNot
    <2> QED BY <1>5, <2>2 DEF part
  <1> QED BY <1>4, <1>5

-----------------------------------------------------------------------------
(* How a URL is spelled gives it its shape.                                 *)

(* A text that begins with another.                                         *)
Begins(s, r) == Len(r) <= Len(s) /\ \A i \in 1..Len(r) : s[i] = r[i]

(* Two texts put together: where each of them stands.                       *)
LEMMA BeginsFacts ==
    ASSUME NEW s \in Seq(UrlSymbols), NEW r \in Seq(UrlSymbols)
    PROVE  /\ s \o r \in Seq(UrlSymbols) /\ Len(s \o r) = Len(s) + Len(r)
           /\ Begins(s \o r, s) /\ Stands(s \o r, r, Len(s))
  <1> DEFINE b == s \o r
  <1>1. /\ b \in Seq(UrlSymbols) /\ Len(b) = Len(s) + Len(r)
        /\ \A i \in 1..Len(s) : b[i] = s[i]
        /\ \A i \in 1..Len(r) : b[Len(s) + i] = r[i]
    BY BehindFacts, Zenon
  <1> HIDE DEF b
  <1>2. Begins(b, s) /\ Stands(b, r, Len(s)) BY <1>1 DEF Begins, Stands
  <1> QED BY <1>1, <1>2 DEF b

(* What stands in its beginning stands in a text.                           *)
LEMMA StandsOn ==
    ASSUME NEW s \in Seq(UrlSymbols), NEW r \in Seq(UrlSymbols), Begins(s, r),
           NEW part \in Seq(UrlSymbols), NEW n \in Nat,
           Stands(r, part, n), n + Len(part) <= Len(r)
    PROVE  Stands(s, part, n)
  <1> SUFFICES ASSUME NEW i \in 1..Len(part) PROVE s[n + i] = part[i]
    BY DEF Stands
  <1>1. n + i \in 1..Len(r) OBVIOUS
  <1> QED BY <1>1 DEF Stands, Begins

(* A text begins with the beginning of its beginning.                       *)
LEMMA BeginsOn ==
    ASSUME NEW s \in Seq(UrlSymbols), NEW r \in Seq(UrlSymbols), NEW q \in Seq(UrlSymbols),
           Begins(s, r), Begins(r, q)
    PROVE  Begins(s, q)
  <1>1. Len(s) \in Nat /\ Len(r) \in Nat /\ Len(q) \in Nat OBVIOUS
  <1> QED BY <1>1 DEF Begins

(* Where the parts of a text put together of six stand in it.               *)
PartsStand(s, p1, p2, p3, p4, p5, p6) ==
    LET a == Len(p1)
        b == a + Len(p2)
        c == b + Len(p3)
        d == c + Len(p4)
        e == d + Len(p5)
    IN  /\ s \in Seq(UrlSymbols) /\ Len(s) = e + Len(p6)
        /\ Stands(s, p1, 0) /\ Stands(s, p2, a) /\ Stands(s, p3, b)
        /\ Stands(s, p4, c) /\ Stands(s, p5, d) /\ Stands(s, p6, e)

(* The parts of a text put together of six.                                 *)
LEMMA SixParts ==
    ASSUME NEW p1 \in Seq(UrlSymbols), NEW p2 \in Seq(UrlSymbols),
           NEW p3 \in Seq(UrlSymbols), NEW p4 \in Seq(UrlSymbols),
           NEW p5 \in Seq(UrlSymbols), NEW p6 \in Seq(UrlSymbols)
    PROVE  PartsStand(p1 \o p2 \o p3 \o p4 \o p5 \o p6, p1, p2, p3, p4, p5, p6)
  <1> DEFINE a == Len(p1)
             b == a + Len(p2)
             c == b + Len(p3)
             d == c + Len(p4)
             e == d + Len(p5)
             s2 == p1 \o p2
             s3 == s2 \o p3
             s4 == s3 \o p4
             s5 == s4 \o p5
             s == s5 \o p6
  <1>1. a \in Nat /\ b \in Nat /\ c \in Nat /\ d \in Nat /\ e \in Nat OBVIOUS
  <1>2. /\ s2 \in Seq(UrlSymbols) /\ Len(s2) = Len(p1) + Len(p2)
        /\ Begins(s2, p1) /\ Stands(s2, p2, Len(p1))
    BY BeginsFacts, Zenon
  <1> HIDE DEF s2
  <1>3. /\ s3 \in Seq(UrlSymbols) /\ Len(s3) = Len(s2) + Len(p3)
        /\ Begins(s3, s2) /\ Stands(s3, p3, Len(s2))
    BY <1>2, BeginsFacts, Zenon
  <1> HIDE DEF s3
  <1>4. /\ s4 \in Seq(UrlSymbols) /\ Len(s4) = Len(s3) + Len(p4)
        /\ Begins(s4, s3) /\ Stands(s4, p4, Len(s3))
    BY <1>3, BeginsFacts, Zenon
  <1> HIDE DEF s4
  <1>5. /\ s5 \in Seq(UrlSymbols) /\ Len(s5) = Len(s4) + Len(p5)
        /\ Begins(s5, s4) /\ Stands(s5, p5, Len(s4))
    BY <1>4, BeginsFacts, Zenon
  <1> HIDE DEF s5
  <1>6. /\ s \in Seq(UrlSymbols) /\ Len(s) = Len(s5) + Len(p6)
        /\ Begins(s, s5) /\ Stands(s, p6, Len(s5))
    BY <1>5, BeginsFacts, Zenon
  <1> HIDE DEF s
  <1>7. Len(s2) = b /\ Len(s3) = c /\ Len(s4) = d /\ Len(s5) = e /\ Len(s) = e + Len(p6)
    BY <1>1, <1>2, <1>3, <1>4, <1>5, <1>6
  <1>8. Begins(s, s4) BY <1>4, <1>5, <1>6, BeginsOn
  <1>9. Begins(s, s3) BY <1>3, <1>4, <1>6, <1>8, BeginsOn
  <1>10. Begins(s, s2) BY <1>2, <1>3, <1>6, <1>9, BeginsOn
  <1>11. Begins(s, p1) BY <1>2, <1>6, <1>10, BeginsOn
  <1>12. Stands(s, p1, 0) BY <1>11 DEF Begins, Stands
  <1>13. Stands(s, p2, a)
    <2>1. a + Len(p2) <= Len(s2) /\ Stands(s2, p2, a) BY <1>1, <1>2, <1>7
    <2> QED BY <1>1, <1>2, <1>6, <1>10, <2>1, StandsOn
  <1>14. Stands(s, p3, b)
    <2>1. b + Len(p3) <= Len(s3) /\ Stands(s3, p3, b) BY <1>1, <1>3, <1>7
    <2> QED BY <1>1, <1>3, <1>6, <1>9, <2>1, StandsOn
  <1>15. Stands(s, p4, c)
    <2>1. c + Len(p4) <= Len(s4) /\ Stands(s4, p4, c) BY <1>1, <1>4, <1>7
    <2> QED BY <1>1, <1>4, <1>6, <1>8, <2>1, StandsOn
  <1>16. Stands(s, p5, d)
    <2>1. d + Len(p5) <= Len(s5) /\ Stands(s5, p5, d) BY <1>1, <1>5, <1>7
    <2> QED BY <1>1, <1>5, <1>6, <2>1, StandsOn
  <1>17. Stands(s, p6, e) BY <1>6, <1>7
  <1> QED BY <1>6, <1>7, <1>12, <1>13, <1>14, <1>15, <1>16, <1>17
         DEF PartsStand, s, s5, s4, s3, s2

(* What of its parts the shape of a URL says, one by one: where each of them *)
(* is in the text, and its delimiters.                                       *)
LEMMA SchemeStands ==
    ASSUME NEW url, IsUrl(url), NEW s, Stands(s, SchemePart(url), 0)
    PROVE  SchemeShape(s, Len(url.scheme), Len(SchemePart(url)))
  <1> DEFINE scheme == url.scheme
             p == SchemePart(url)
             m == Len(scheme)
             a == Len(p)
  <1>0. /\ scheme \in Seq(UrlSymbols) /\ Free(scheme, Delimiters \union {"topic"})
        /\ p = IF scheme = <<>> THEN <<>> ELSE scheme \o <<":", "/", "/">>
        /\ Stands(s, p, 0)
    <2>1. Free(scheme, Delimiters \union {"topic"}) BY DEF IsUrl, Free, Delimiters
    <2> QED BY <2>1, UrlTypes DEF SchemePart
  <1> SUFFICES /\ m \in Nat /\ a \in Nat
               /\ \/ m = 0 /\ a = 0
                  \/ m > 0 /\ a = m + 3 /\ s[m + 1] = ":" /\ s[m + 2] = "/" /\ s[m + 3] = "/"
               /\ \A i \in 1..m : s[i] \notin Delimiters \union {"topic"}
    BY DEF SchemeShape
  <1> USE <1>0
  <1> HIDE DEF scheme, p
  <1>1. m \in Nat /\ (m = 0 <=> scheme = <<>>) BY EmptySeq
  <1>2. CASE scheme = <<>>
    <2>1. p = <<>> /\ m = 0 BY <1>1, <1>2
    <2>2. a = 0 BY <2>1
    <2> QED BY <1>1, <2>1, <2>2
  <1>3. CASE scheme # <<>>
    <2>1. p = scheme \o <<":", "/", "/">> BY <1>3
    <2>2. /\ a = m + 3
          /\ \A i \in 1..m : p[i] = scheme[i]
          /\ p[m + 1] = ":" /\ p[m + 2] = "/" /\ p[m + 3] = "/"
      BY <2>1, SchemeText
    <2>3. \A i \in 1..a : s[i] = p[i]
      <3>1. \A i \in 1..a : s[0 + i] = p[i] BY DEF Stands
      <3> QED BY <1>1, <2>2, <3>1
    <2> HIDE <1>0 DEF m, a
    <2>4. /\ s[m + 1] = ":" /\ s[m + 2] = "/" /\ s[m + 3] = "/"
          /\ \A i \in 1..m : s[i] = scheme[i]
      BY <1>1, <2>2, <2>3
    <2>5. \A i \in 1..m : s[i] \notin Delimiters \union {"topic"}
      BY <1>0, <2>4 DEF Free, m
    <2>6. m > 0 BY <1>1, <1>3
    <2> QED BY <1>1, <1>3, <2>2, <2>4, <2>5, <2>6
  <1> QED BY <1>2, <1>3

(* The user and the password, between their delimiters or not at all.       *)
LEMMA CredentialsStand ==
    ASSUME NEW url, IsUrl(url), NEW s, NEW a \in Nat, Stands(s, CredentialsPart(url), a)
    PROVE  LET u == Len(url.user)
               b == a + Len(CredentialsPart(url))
           IN  CredentialsShape(s, a, u, b) /\ CredentialsAt(url, s, a, u, b)
  <1> DEFINE name == url.user
             secret == url.password
             p == CredentialsPart(url)
             u == Len(name)
             l == Len(secret)
             b == a + Len(p)
  <1>0. /\ name \in Seq(UrlSymbols) /\ secret \in Seq(UrlSymbols)
        /\ Free(name, Delimiters) /\ Free(secret, Delimiters \ {":"})
        /\ p = IF name = <<>> THEN <<>> ELSE name \o <<":">> \o secret \o <<"@">>
        /\ Stands(s, p, a)
        /\ name = <<>> => secret = <<>>
    <2>1. Free(name, Delimiters) /\ Free(secret, Delimiters \ {":"})
      BY DEF IsUrl, Free, Delimiters
    <2>2. name = <<>> => secret = <<>> BY DEF IsUrl
    <2> QED BY <2>1, <2>2, UrlTypes DEF CredentialsPart
  <1> SUFFICES /\ u \in Nat /\ b \in Nat
               /\ \/ u = 0 /\ b = a
                  \/ u > 0 /\ a + u + 2 <= b /\ s[a + u + 1] = ":" /\ s[b] = "@"
               /\ \A i \in (a + 1)..(a + u) : s[i] \notin Delimiters
               /\ \A i \in (a + u + 2)..(b - 1) : s[i] \notin Delimiters \ {":"}
               /\ Stands(s, name, a)
               /\ u > 0 => l = b - a - u - 2 /\ Stands(s, secret, a + u + 1)
               /\ u = 0 => secret = <<>>
    BY DEF CredentialsShape, CredentialsAt
  <1> USE <1>0
  <1> HIDE DEF name, secret, p
  <1>1. u \in Nat /\ l \in Nat /\ (u = 0 <=> name = <<>>) BY EmptySeq
  <1> HIDE DEF l
  <1>2. CASE name = <<>>
    <2>1. p = <<>> /\ u = 0 BY <1>1, <1>2
    <2>2. b = a BY <2>1
    <2>3. Stands(s, name, a) BY <1>2 DEF Stands
    <2> QED BY <1>1, <2>1, <2>2, <2>3
  <1>3. CASE name # <<>>
    <2>1. p = name \o <<":">> \o secret \o <<"@">> BY <1>3
    <2>2. /\ Len(p) = u + l + 2
          /\ \A i \in 1..u : p[i] = name[i]
          /\ p[u + 1] = ":"
          /\ \A i \in 1..l : p[u + 1 + i] = secret[i]
          /\ p[u + l + 2] = "@"
      BY <2>1, CredentialsText DEF l
    <2>3. \A i \in 1..(u + l + 2) : s[a + i] = p[i] BY <2>2 DEF Stands
    <2>4. u > 0 /\ b = a + u + l + 2
      <3>1. Len(p) = u + l + 2 BY <2>2
      <3>2. b = a + (u + l + 2) BY <3>1
      <3> QED BY <1>1, <1>3, <3>2
    <2>5. s[a + u + 1] = ":"
      <3>1. u + 1 \in 1..(u + l + 2) /\ a + (u + 1) = a + u + 1 BY <1>1
      <3> QED BY <2>2, <2>3, <3>1
    <2>6. s[b] = "@"
      <3>1. u + l + 2 \in 1..(u + l + 2) /\ a + (u + l + 2) = b BY <1>1, <2>4
      <3> QED BY <2>2, <2>3, <3>1
    <2>7. ASSUME NEW i \in 1..u PROVE s[a + i] = name[i]
      <3>1. i \in 1..(u + l + 2) BY <1>1
      <3> QED BY <2>2, <2>3, <3>1
    <2>8. ASSUME NEW i \in 1..l PROVE s[(a + u + 1) + i] = secret[i]
      <3>1. u + 1 + i \in 1..(u + l + 2) /\ a + (u + 1 + i) = (a + u + 1) + i BY <1>1
      <3>2. s[a + (u + 1 + i)] = p[u + 1 + i] BY <2>3, <3>1
      <3> QED BY <2>2, <3>1, <3>2
    <2>9. Stands(s, name, a) BY <2>7 DEF Stands
    <2>10. Stands(s, secret, a + u + 1) BY <2>8 DEF Stands, l
    <2>11. ASSUME NEW i \in (a + 1)..(a + u) PROVE s[i] \notin Delimiters
      <3>1. i - a \in 1..u /\ a + (i - a) = i BY <1>1
      <3>2. s[i] = name[i - a] BY <2>7, <3>1
      <3> QED BY <3>1, <3>2 DEF Free
    <2>12. ASSUME NEW i \in (a + u + 2)..(b - 1) PROVE s[i] \notin Delimiters \ {":"}
      <3> DEFINE j == i - (a + u + 1)
      <3>1. j \in 1..l /\ (a + u + 1) + j = i BY <1>1, <2>4
      <3> HIDE DEF j
      <3>2. s[i] = secret[j] BY <2>8, <3>1
      <3> QED BY <3>1, <3>2 DEF Free, l
    <2>13. l = b - a - u - 2 /\ a + u + 2 <= b /\ b \in Nat
      <3> DEFINE end == b
      <3>1. end = a + u + l + 2 BY <2>4
      <3> HIDE DEF end
      <3>2. end \in Nat /\ a + u + 2 <= end /\ l = end - a - u - 2 BY <1>1, <3>1
      <3> QED BY <3>2 DEF end
    <2> QED BY <1>1, <1>3, <2>4, <2>5, <2>6, <2>9, <2>10, <2>11, <2>12, <2>13 DEF l
  <1> QED BY <1>2, <1>3

(* The host: free of delimiters, or in brackets.                            *)
LEMMA HostStands ==
    ASSUME NEW url, IsUrl(url), NEW s, NEW b \in Nat, Stands(s, url.place.host, b)
    PROVE  LET c == b + Len(url.place.host)
           IN  HostShape(s, b, c) /\ HostAt(url, s, b, c)
  <1> DEFINE part == url.place.host
             l == Len(part)
             c == b + l
  <1>0. part \in Seq(UrlSymbols) /\ IsHost(part) /\ Stands(s, part, b)
    BY UrlTypes DEF IsUrl
  <1> SUFFICES /\ c \in Nat /\ b <= c /\ Len(part) = c - b
               /\ \/ \A i \in (b + 1)..c : s[i] \notin Delimiters
                  \/ /\ b < c /\ s[c] = "]"
                     /\ \A i \in (b + 1)..(c - 1) : s[i] \notin Delimiters \ {":"}
    BY <1>0 DEF HostShape, HostAt
  <1> USE <1>0
  <1> HIDE DEF part
  <1>1. l \in Nat OBVIOUS
  <1>2. ASSUME NEW i \in (b + 1)..c
        PROVE  i - b \in 1..l /\ s[i] = part[i - b]
    <2>1. i - b \in 1..l /\ b + (i - b) = i BY <1>1
    <2> QED BY <2>1 DEF Stands
  <1>3. CASE Free(part, {":", "@", "/", "]", "?", "#"})
    <2>1. \A i \in (b + 1)..c : s[i] \notin Delimiters BY <1>2, <1>3 DEF Free, Delimiters
    <2> QED BY <1>1, <2>1
  <1>4. CASE /\ part # <<>> /\ part[Len(part)] = "]"
             /\ \A i \in 1..(Len(part) - 1) : part[i] \notin {"@", "/", "]", "?", "#"}
    <2>1. l > 0 BY <1>1, <1>4
    <2>2. c \in (b + 1)..c /\ c - b = l /\ b < c BY <1>1, <2>1
    <2>3. s[c] = "]" BY <1>2, <1>4, <2>2
    <2>4. ASSUME NEW i \in (b + 1)..(c - 1) PROVE s[i] \notin Delimiters \ {":"}
      <3>1. i \in (b + 1)..c /\ i - b \in 1..(l - 1) BY <1>1
      <3>2. s[i] \notin {"@", "/", "]", "?", "#"} BY <1>2, <1>4, <3>1
      <3> QED BY <3>2 DEF Delimiters
    <2> QED BY <1>1, <2>2, <2>3, <2>4
  <1> QED BY <1>3, <1>4 DEF IsHost

(* The port behind its colon, or none.                                      *)
LEMMA PortStands ==
    ASSUME NEW url, IsUrl(url), NEW s, NEW c \in Nat, Stands(s, PortPart(url), c)
    PROVE  LET d == c + Len(PortPart(url))
           IN  PortShape(s, c, d) /\ PortAt(url, s, c, d)
  <1> DEFINE part == url.place.port
             p == PortPart(url)
             l == Len(part)
             d == c + Len(p)
  <1>0. /\ part \in Seq(UrlSymbols) /\ Free(part, Delimiters)
        /\ p = IF part = <<>> THEN <<>> ELSE <<":">> \o part
        /\ Stands(s, p, c)
    <2>1. Free(part, Delimiters) BY DEF IsUrl, Free, Delimiters
    <2> QED BY <2>1, UrlTypes DEF PortPart
  <1> SUFFICES /\ d \in Nat
               /\ \/ d = c
                  \/ c + 2 <= d /\ s[c + 1] = ":"
               /\ \A i \in (c + 2)..d : s[i] \notin Delimiters
               /\ c < d => Stands(s, part, c + 1) /\ l = d - c - 1
               /\ c = d => part = <<>>
    BY DEF PortShape, PortAt
  <1> USE <1>0
  <1> HIDE DEF part, p
  <1>1. l \in Nat /\ (l = 0 <=> part = <<>>) BY EmptySeq
  <1> HIDE DEF l
  <1>2. CASE part = <<>>
    <2>1. p = <<>> BY <1>2
    <2>2. d = c
      <3>1. Len(p) = 0 BY <2>1
      <3> QED BY <3>1
    <2> QED BY <1>2, <2>2
  <1>3. CASE part # <<>>
    <2>1. p = <<":">> \o part BY <1>3
    <2>2. Len(p) = 1 + l /\ p[1] = ":" /\ \A i \in 1..l : p[1 + i] = part[i]
      BY <2>1, DelimiterTexts, BehindDelimiter DEF l
    <2> DEFINE end == d
    <2>3. end = c + (1 + l)
      <3>1. Len(p) = 1 + l BY <2>2
      <3> QED BY <3>1
    <2> HIDE DEF end
    <2>4. end \in Nat /\ c + 2 <= end /\ l = end - c - 1 /\ l > 0 BY <1>1, <1>3, <2>3
    <2>5. \A i \in 1..(1 + l) : s[c + i] = p[i]
      <3>1. Len(p) = 1 + l BY <2>2
      <3> QED BY <3>1 DEF Stands
    <2>6. s[c + 1] = ":"
      <3>1. 1 \in 1..(1 + l) BY <1>1
      <3> QED BY <2>2, <2>5, <3>1
    <2>7. ASSUME NEW i \in 1..l PROVE s[(c + 1) + i] = part[i]
      <3>1. 1 + i \in 1..(1 + l) /\ c + (1 + i) = (c + 1) + i BY <1>1
      <3>2. s[c + (1 + i)] = p[1 + i] BY <2>5, <3>1
      <3> QED BY <2>2, <3>1, <3>2
    <2>8. Stands(s, part, c + 1) BY <2>7 DEF Stands, l
    <2>9. ASSUME NEW i \in (c + 2)..end PROVE s[i] \notin Delimiters
      <3> DEFINE j == i - (c + 1)
      <3>1. j \in 1..l /\ (c + 1) + j = i BY <1>1, <2>3
      <3> HIDE DEF j
      <3>2. s[i] = part[j] BY <2>7, <3>1
      <3> QED BY <3>1, <3>2 DEF Free, l
    <2> QED BY <1>3, <2>4, <2>6, <2>8, <2>9 DEF end, l
  <1> QED BY <1>2, <1>3

(* The slash, a topic's mark or nothing, and the path.                      *)
LEMMA PathText ==
    ASSUME NEW topic \in Seq(UrlSymbols), NEW part \in Seq(UrlSymbols)
    PROVE  LET p == <<"/">> \o topic \o part
           IN  /\ Len(p) = 1 + Len(topic) + Len(part) /\ p[1] = "/"
               /\ \A i \in 1..Len(topic) : p[1 + i] = topic[i]
               /\ \A i \in 1..Len(part) : p[1 + Len(topic) + i] = part[i]
  <1> DEFINE front == <<"/">> \o topic
             p == front \o part
             t == Len(topic)
             l == Len(part)
  <1>1. t \in Nat /\ l \in Nat OBVIOUS
  <1> HIDE DEF t, l
  <1>2. /\ front \in Seq(UrlSymbols) /\ Len(front) = 1 + t /\ front[1] = "/"
        /\ \A i \in 1..t : front[1 + i] = topic[i]
    BY DelimiterTexts, BehindDelimiter DEF t
  <1> HIDE DEF front
  <1>3. /\ Len(p) = Len(front) + Len(part)
        /\ \A i \in 1..Len(front) : p[i] = front[i]
        /\ \A i \in 1..Len(part) : p[Len(front) + i] = part[i]
    BY <1>2, BehindFacts, Zenon
  <1> HIDE DEF p
  <1>4. Len(p) = 1 + t + l /\ p[1] = "/" BY <1>1, <1>2, <1>3 DEF l
  <1>5. ASSUME NEW i \in 1..t PROVE p[1 + i] = topic[i]
    <2>1. 1 + i \in 1..Len(front) BY <1>1, <1>2
    <2> QED BY <1>2, <1>3, <2>1
  <1>6. \A i \in 1..l : p[1 + t + i] = part[i] BY <1>2, <1>3 DEF l
  <1> QED BY <1>4, <1>5, <1>6 DEF p, front, t, l

(* The path behind its slash and a topic's mark, or none.                   *)
LEMMA PathStands ==
    ASSUME NEW url, IsUrl(url), NEW s, NEW d \in Nat, Stands(s, PathPart(url), d)
    PROVE  LET t == Len(TopicPart(url))
               e == d + Len(PathPart(url))
           IN  PathShape(s, d, t, e) /\ PathAt(url, s, d, t, e)
  <1> DEFINE part == url.place.path
             topic == TopicPart(url)
             p == PathPart(url)
             l == Len(part)
             t == Len(topic)
             e == d + Len(p)
  <1> SUFFICES /\ t \in {0, 4} /\ e \in Nat
               /\ \/ e = d /\ t = 0
                  \/ d + 2 + t <= e /\ s[d + 1] = "/"
               /\ t = 4 => s[d + 2] = "topic" /\ s[d + 3] = ":"
                               /\ s[d + 4] = "/" /\ s[d + 5] = "/"
               /\ \A i \in (d + 2 + t)..e : s[i] \notin Delimiters \ {"/"}
               /\ url.is_topic <=> t = 4
               /\ part = <<>> <=> d = e
               /\ part # <<>> /\ t = 0 => Stands(s, part, d + 1) /\ l = e - d - 1
    BY DEF PathShape, PathAt
  <1>1. /\ part \in Seq(UrlSymbols) /\ url.is_topic \in BOOLEAN
        /\ url.is_topic => part # <<>>
        /\ Free(part, {":", "@", "]", "?", "#"})
    BY UrlTypes DEF IsUrl
  <1>2. /\ topic \in Seq(UrlSymbols)
        /\ url.is_topic => /\ t = 4 /\ topic[1] = "topic" /\ topic[2] = ":"
                           /\ topic[3] = "/" /\ topic[4] = "/"
        /\ ~url.is_topic => t = 0
    <2>1. CASE url.is_topic
      <3>1. topic = <<"topic", ":", "/", "/">> BY <2>1 DEF TopicPart
      <3> HIDE DEF topic
      <3> QED BY <2>1, <3>1, DelimiterTexts, Zenon
    <2>2. CASE ~url.is_topic
      <3>1. topic = <<>> BY <2>2 DEF TopicPart
      <3> HIDE DEF topic
      <3> QED BY <2>2, <3>1
    <2> QED BY <2>1, <2>2
  <1>3. p = IF part = <<>> THEN <<>> ELSE <<"/">> \o topic \o part BY DEF PathPart
  <1>4. Stands(s, p, d) OBVIOUS
  <1> HIDE DEF part, topic, p
  <1>5. l \in Nat /\ (l = 0 <=> part = <<>>) /\ t \in {0, 4} /\ (url.is_topic <=> t = 4)
    <2>1. l \in Nat /\ (l = 0 <=> part = <<>>) BY <1>1, EmptySeq
    <2>2. t \in {0, 4} /\ (url.is_topic <=> t = 4)
      <3> HIDE DEF t
      <3> QED BY <1>1, <1>2
    <2> QED BY <2>1, <2>2
  <1> HIDE DEF l, t
  <1>6. CASE part = <<>>
    <2>1. p = <<>> /\ ~url.is_topic BY <1>1, <1>3, <1>6
    <2>2. e = d /\ t = 0 BY <1>5, <2>1
    <2> HIDE DEF e
    <2>3. \A i \in (d + 2 + t)..e : FALSE BY <2>2
    <2>20. t \in {0, 4} /\ e \in Nat BY <1>5, <2>2
    <2> QED BY <1>5, <1>6, <2>2, <2>3, <2>20
  <1>7. CASE part # <<>>
    <2>1. p = <<"/">> \o topic \o part BY <1>3, <1>7
    <2>2. /\ Len(p) = 1 + t + l /\ p[1] = "/"
          /\ \A i \in 1..t : p[1 + i] = topic[i]
          /\ \A i \in 1..l : p[1 + t + i] = part[i]
      BY <1>1, <1>2, <2>1, PathText DEF t, l
    <2>3. e = d + (1 + t + l) BY <2>2
    <2> HIDE DEF e
    <2>4. e \in Nat /\ d + 2 + t <= e /\ l = e - d - 1 - t BY <1>5, <1>7, <2>3
    <2>5. \A i \in 1..(1 + t + l) : s[d + i] = p[i] BY <1>4, <2>2 DEF Stands
    <2>6. s[d + 1] = "/"
      <3>1. 1 \in 1..(1 + t + l) BY <1>5
      <3> QED BY <2>2, <2>5, <3>1
    <2>7. ASSUME NEW i \in 1..t PROVE s[d + 1 + i] = topic[i]
      <3>1. 1 + i \in 1..(1 + t + l) /\ d + (1 + i) = d + 1 + i BY <1>5
      <3>2. s[d + (1 + i)] = p[1 + i] BY <2>5, <3>1
      <3> QED BY <2>2, <3>1, <3>2
    <2>8. t = 4 => s[d + 2] = "topic" /\ s[d + 3] = ":"
                     /\ s[d + 4] = "/" /\ s[d + 5] = "/"
      <3> SUFFICES ASSUME t = 4 PROVE s[d + 2] = "topic" /\ s[d + 3] = ":"
                                      /\ s[d + 4] = "/" /\ s[d + 5] = "/"
        OBVIOUS
      <3>1. /\ 1 \in 1..t /\ 2 \in 1..t /\ 3 \in 1..t /\ 4 \in 1..t
            /\ d + 1 + 1 = d + 2 /\ d + 1 + 2 = d + 3 /\ d + 1 + 3 = d + 4 /\ d + 1 + 4 = d + 5
        BY <1>5
      <3> QED BY <1>2, <1>5, <2>7, <3>1
    <2>9. ASSUME NEW i \in 1..l PROVE s[(d + 1 + t) + i] = part[i]
      <3>1. 1 + t + i \in 1..(1 + t + l) /\ d + (1 + t + i) = (d + 1 + t) + i BY <1>5
      <3>2. s[d + (1 + t + i)] = p[1 + t + i] BY <2>5, <3>1
      <3> QED BY <2>2, <3>1, <3>2
    <2>10. ASSUME NEW i \in (d + 2 + t)..e PROVE s[i] \notin Delimiters \ {"/"}
      <3> DEFINE j == i - (d + 1 + t)
      <3>1. j \in 1..l /\ (d + 1 + t) + j = i BY <1>5, <2>3
      <3> HIDE DEF j
      <3>2. s[i] = part[j] /\ part[j] \notin {":", "@", "]", "?", "#"}
        BY <1>1, <2>9, <3>1 DEF Free, l
      <3> QED BY <3>2 DEF Delimiters
    <2>11. t = 0 => Stands(s, part, d + 1) /\ l = e - d - 1
      <3> SUFFICES ASSUME t = 0 PROVE Stands(s, part, d + 1) /\ l = e - d - 1 OBVIOUS
      <3>1. d + 1 + t = d + 1 /\ e - d - 1 - t = e - d - 1 BY <2>4
      <3> QED BY <2>4, <2>9, <3>1 DEF Stands, l
    <2>12. d # e BY <1>5, <2>4
    <2>20. t \in {0, 4} /\ e \in Nat BY <1>5, <2>4
    <2> QED BY <1>5, <1>7, <2>4, <2>6, <2>8, <2>10, <2>11, <2>12, <2>20
  <1> QED BY <1>6, <1>7

(* The empty text is one.                                                   *)
LEMMA EmptyUrl == <<>> \in Seq(UrlSymbols)
  OBVIOUS

(* Every URL as it is spelled has the shape, with its parts in their places.*)
LEMMA SpelledShape ==
    ASSUME NEW url, IsUrl(url)
    PROVE  LET s == Spelled(url)
               m == Len(url.scheme)
               a == Len(SchemePart(url))
               u == Len(url.user)
               b == a + Len(CredentialsPart(url))
               c == b + Len(url.place.host)
               d == c + Len(PortPart(url))
               t == Len(TopicPart(url))
               e == d + Len(PathPart(url))
           IN  Shape(s, m, a, u, b, c, d, t, e) /\ PartsAt(url, s, a, u, b, c, d, t, e)
  <1> DEFINE s == Spelled(url)
             p1 == SchemePart(url)
             p2 == CredentialsPart(url)
             p3 == url.place.host
             p4 == PortPart(url)
             p5 == PathPart(url)
             p6 == url.query
             m == Len(url.scheme)
             a == Len(p1)
             u == Len(url.user)
             b == a + Len(p2)
             c == b + Len(p3)
             d == c + Len(p4)
             t == Len(TopicPart(url))
             e == d + Len(p5)
  <1>1. /\ url.scheme \in Seq(UrlSymbols) /\ url.user \in Seq(UrlSymbols)
        /\ url.password \in Seq(UrlSymbols) /\ p3 \in Seq(UrlSymbols)
        /\ url.place.port \in Seq(UrlSymbols) /\ url.place.path \in Seq(UrlSymbols)
        /\ p6 \in Seq(UrlSymbols)
    BY UrlTypes
  <1>2. p1 \in Seq(UrlSymbols) BY <1>1, SchemeText, EmptyUrl DEF SchemePart
  <1>3. p2 \in Seq(UrlSymbols) BY <1>1, CredentialsText, EmptyUrl DEF CredentialsPart
  <1>4. p4 \in Seq(UrlSymbols)
    BY <1>1, DelimiterTexts, BehindDelimiter, EmptyUrl DEF PortPart
  <1>5. p5 \in Seq(UrlSymbols)
    <2>1. TopicPart(url) \in Seq(UrlSymbols) BY DelimiterTexts, EmptyUrl DEF TopicPart
    <2> DEFINE front == <<"/">> \o TopicPart(url)
    <2>2. front \in Seq(UrlSymbols) BY <2>1, DelimiterTexts, BehindDelimiter
    <2>3. p5 = IF url.place.path = <<>> THEN <<>> ELSE front \o url.place.path
      BY DEF PathPart
    <2> HIDE DEF front, p5
    <2>4. front \o url.place.path \in Seq(UrlSymbols) BY <1>1, <2>2, BehindFacts, Zenon
    <2> QED BY <2>3, <2>4, EmptyUrl
  <1>6. s = p1 \o p2 \o p3 \o p4 \o p5 \o p6 BY DEF Spelled
  <1> HIDE DEF s, p1, p2, p3, p4, p5, p6
  <1>7. PartsStand(s, p1, p2, p3, p4, p5, p6)
    BY <1>1, <1>2, <1>3, <1>4, <1>5, <1>6, SixParts, Zenon
  <1>8. /\ s \in Seq(UrlSymbols) /\ Len(s) = e + Len(p6)
        /\ Stands(s, p1, 0) /\ Stands(s, p2, a) /\ Stands(s, p3, b)
        /\ Stands(s, p4, c) /\ Stands(s, p5, d) /\ Stands(s, p6, e)
    BY <1>7, Zenon DEF PartsStand
  <1> HIDE DEF m, a, u, b, c, d, t, e
  <1>9. SchemeShape(s, m, a) BY <1>8, SchemeStands, Zenon DEF m, a, p1
  <1>10. CredentialsShape(s, a, u, b) /\ CredentialsAt(url, s, a, u, b)
    <2>1. a \in Nat BY <1>9 DEF SchemeShape
    <2> QED BY <1>8, <2>1, CredentialsStand, Zenon DEF u, b, p2
  <1>11. HostShape(s, b, c) /\ HostAt(url, s, b, c)
    <2>1. b \in Nat BY <1>10 DEF CredentialsShape
    <2> QED BY <1>8, <2>1, HostStands, Zenon DEF c, p3
  <1>12. PortShape(s, c, d) /\ PortAt(url, s, c, d)
    <2>1. c \in Nat BY <1>11 DEF HostShape
    <2> QED BY <1>8, <2>1, PortStands, Zenon DEF d, p4
  <1>14. PathShape(s, d, t, e) /\ PathAt(url, s, d, t, e) /\ e \in Nat
    <2>1. d \in Nat BY <1>12 DEF PortShape
    <2>2. PathShape(s, d, t, e) /\ PathAt(url, s, d, t, e)
      BY <1>8, <2>1, PathStands, Zenon DEF t, e, p5
    <2> QED BY <2>2 DEF PathShape
  <1>15. QueryShape(s, e)
    <2> SUFFICES /\ e <= Len(s)
                 /\ \A i \in (e + 1)..Len(s) : s[i] \notin {":", "@", "]"}
                 /\ e < Len(s) =>
                        \/ s[e + 1] = "?"
                        \/ s[e + 1] = "#" /\ \A i \in (e + 1)..Len(s) : s[i] # "?"
      BY DEF QueryShape
    <2> DEFINE l == Len(p6)
    <2>1. l \in Nat /\ (l = 0 <=> p6 = <<>>) BY <1>1, EmptySeq
    <2>2. Len(s) = e + l /\ \A i \in 1..l : s[e + i] = p6[i] BY <1>8 DEF Stands
    <2>3. /\ \A i \in 1..l : p6[i] \notin {":", "@", "]"}
          /\ p6 # <<>> =>
                 \/ p6[1] = "?"
                 \/ p6[1] = "#" /\ \A i \in 1..l : p6[i] # "?"
      BY DEF IsUrl, Free, p6
    <2> HIDE DEF l
    <2>4. ASSUME NEW i \in (e + 1)..Len(s) PROVE i - e \in 1..l /\ s[i] = p6[i - e]
      <3>1. i - e \in 1..l /\ e + (i - e) = i BY <1>14, <2>1, <2>2
      <3> QED BY <2>2, <3>1
    <2>5. \A i \in (e + 1)..Len(s) : s[i] \notin {":", "@", "]"} BY <2>3, <2>4
    <2>6. ASSUME e < Len(s)
          PROVE  \/ s[e + 1] = "?"
                 \/ s[e + 1] = "#" /\ \A i \in (e + 1)..Len(s) : s[i] # "?"
      <3>1. l > 0 BY <1>14, <2>1, <2>2, <2>6
      <3>2. s[e + 1] = p6[1] /\ p6 # <<>> BY <2>1, <2>2, <3>1
      <3>3. (\A i \in 1..l : p6[i] # "?") => \A i \in (e + 1)..Len(s) : s[i] # "?"
        BY <2>4
      <3> QED BY <2>3, <3>2, <3>3
    <2>7. e <= Len(s) BY <1>14, <2>1, <2>2
    <2> QED BY <2>5, <2>6, <2>7
  <1>16. t = 4 => m > 0
    <2>1. t = 4 => url.scheme # <<>> BY <1>14 DEF PathAt, IsUrl
    <2>2. m \in Nat /\ (m = 0 <=> url.scheme = <<>>) BY <1>1, EmptySeq DEF m
    <2> QED BY <2>1, <2>2
  <1>17. Shape(s, m, a, u, b, c, d, t, e)
    BY <1>8, <1>9, <1>10, <1>11, <1>12, <1>14, <1>15, <1>16, Zenon DEF Shape
  <1>18. PartsAt(url, s, a, u, b, c, d, t, e)
    BY <1>10, <1>11, <1>12, <1>14, Zenon DEF PartsAt
  <1> QED BY <1>17, <1>18, Zenon DEF s, m, a, u, b, c, d, t, e, p1, p2, p3, p4, p5

(* The credentials and the topic of every URL, and the place of one with a  *)
(* path that names no topic, are found whatever its other parts.            *)
LEMMA UrlFound ==
    ASSUME NEW url, IsUrl(url)
    PROVE  LET s == Spelled(url)
           IN  /\ user(s) = url.user /\ password(s) = url.password
               /\ Find(s, <<"topic", ":", "/", "/">>, 0) # NPOS <=> url.is_topic
               /\ ~url.is_topic /\ url.place.path # <<>> => Place(s) = url.place
  <1> DEFINE s == Spelled(url)
  <1>1. PICK m, a, u, b, c, d, t, e :
            Shape(s, m, a, u, b, c, d, t, e) /\ PartsAt(url, s, a, u, b, c, d, t, e)
    BY SpelledShape, Zenon
  <1> HIDE DEF s
  <1>2. user(s) = url.user /\ password(s) = url.password BY <1>1, CredentialsFound
  <1>3. Find(s, <<"topic", ":", "/", "/">>, 0) # NPOS <=> url.is_topic
    <2>1. Find(s, <<"topic", ":", "/", "/">>, 0) # NPOS <=> t = 4 BY <1>1, TopicFound
    <2>2. url.is_topic <=> t = 4 BY <1>1, Zenon DEF PartsAt, PathAt
    <2> QED BY <2>1, <2>2, Zenon
  <1>4. ~url.is_topic /\ url.place.path # <<>> => Place(s) = url.place
    <2> SUFFICES ASSUME ~url.is_topic, url.place.path # <<>> PROVE Place(s) = url.place
      OBVIOUS
    <2>1. (url.is_topic <=> t = 4) /\ (url.place.path = <<>> <=> d = e)
      BY <1>1, Zenon DEF PartsAt, PathAt
    <2>2. t \in {0, 4} BY <1>1 DEF Shape, PathShape
    <2>3. d \in Nat /\ e \in Nat /\ d <= e BY <1>1, ShapeFacts
    <2>4. t # 4 /\ d # e BY <2>1
    <2>5. t = 0 /\ d < e BY <2>2, <2>3, <2>4
    <2> QED BY <1>1, <2>5, PlaceFound
  <1> QED BY <1>2, <1>3, <1>4, Zenon DEF s

-----------------------------------------------------------------------------
(* The URL of the line.                                                     *)

(* The handler's URL is the value of --broker-url, and the line's URLs are  *)
(* spelled as their parts.                                                  *)
UrlInv ==
    /\ Running => client = ClientOf(ValueOr("broker-url", <<>>))
    /\ \A k \in 1..Len(line) :
           line[k].option = "broker-url" =>
               IsUrl(line[k].means) /\ line[k].value = Spelled(line[k].means)

(* UrlInv, for every set of command lines.                                  *)
THEOREM UrlCorrect == Spec => []UrlInv
  <1>1. Init => UrlInv
    <2> SUFFICES ASSUME Init PROVE UrlInv OBVIOUS
    <2>1. PICK cl \in CommandLines : line = cl.settings BY DEF Init
    <2>2. \A k \in 1..Len(line) :
              line[k].option = "broker-url" =>
                  IsUrl(line[k].means) /\ line[k].value = Spelled(line[k].means)
      BY <2>1, UrlsAssumption, Zenon
    <2>3. ~Running BY DEF Init, ParserInit, Running
    <2> QED BY <2>2, <2>3, Zenon DEF UrlInv
  <1>2. SetupInv /\ UrlInv /\ [Next]_vars => UrlInv'
    <2> SUFFICES ASSUME SetupInv, UrlInv, [Next]_vars PROVE UrlInv' OBVIOUS
    <2>1. line' = line BY DEF Next, run, Exited, vars
    <2>2. CASE parse_args /\ UNCHANGED <<line, client, setup>>
      <3>1. status' \in ParserStatus BY <2>2, ParseFacts DEF SetupInv
      <3>2. ~Running' BY <3>1 DEF Running, ParserStatus
      <3> QED BY <2>1, <3>2, Zenon DEF UrlInv
    <2>3. CASE run
      <3>1. UNCHANGED <<parser, values>> BY <2>3 DEF run, Quit
      <3>2. Running' => client' = ClientOf(ValueOr("broker-url", <<>>))
        BY <2>3 DEF run, Quit, Running
      <3>3. Running' => client' = ClientOf(ValueOr("broker-url", <<>>))'
        <4>1. ClientOf(ValueOr("broker-url", <<>>))' = ClientOf(ValueOr("broker-url", <<>>))
          BY <3>1 DEF ClientOf, ValueOr, IsSet
        <4> QED BY <3>2, <4>1, Zenon
      <3> QED BY <2>1, <3>3, Zenon DEF UrlInv
    <2>4. CASE UNCHANGED vars
      <3>1. UNCHANGED <<parser, values, status, client>> BY <2>4 DEF vars, parserVars
      <3>2. ClientOf(ValueOr("broker-url", <<>>))' = ClientOf(ValueOr("broker-url", <<>>))
        BY <3>1 DEF ClientOf, ValueOr, IsSet
      <3> QED BY <2>1, <3>1, <3>2, Zenon DEF UrlInv, Running
    <2> QED BY <2>2, <2>3, <2>4 DEF Next, Exited
  <1> QED BY <1>1, <1>2, SetupCorrect, PTL DEF Spec

(* The URL a running client was given is the last of the line's.            *)
LEMMA GivenUrl ==
    ASSUME SetupInv, UrlInv, LineInv, Understands, Running, IsSet("broker-url")
    PROVE  LET url == LastOf("broker-url")
           IN  /\ client = ClientOf(url.value)
               /\ IsUrl(url.means) /\ url.value = Spelled(url.means)
  <1>1. LineOK /\ AllRead BY DEF LineInv, Running
  <1>2. /\ DOMAIN values = {line[k].option : k \in Options} \ ItemOptions
        /\ \A o \in DOMAIN values :
               values[o] = IF o \in FlagOptions THEN <<"1">> ELSE LastOf(o).value
    BY DEF Understands, Running
  <1>3. "broker-url" \in DOMAIN values BY DEF IsSet
  <1>4. "broker-url" \notin FlagOptions
    BY DEF SetupInv, SenderParser, ReceiverParser, ConnectorParser, Parser,
           ModernFlags, FlagOptions
  <1>5. ValueOr("broker-url", <<>>) = LastOf("broker-url").value
    BY <1>2, <1>3, <1>4 DEF ValueOr, IsSet
  <1>6. Max(Of("broker-url")) \in Of("broker-url")
    <2>1. Of("broker-url") # {} BY <1>2, <1>3 DEF Of
    <2>2. /\ Len(line) \in Nat /\ End \in 1..(Len(line) + 1) BY <1>1, EndFacts
    <2>3. Of("broker-url") \in SUBSET (0..Len(line)) BY <2>2 DEF Of, Options
    <2> QED BY <2>1, <2>2, <2>3, MaxFacts
  <1>7. Max(Of("broker-url")) \in 1..Len(line) /\ LastOf("broker-url").option = "broker-url"
    <2>1. /\ Len(line) \in Nat /\ End \in 1..(Len(line) + 1) BY <1>1, EndFacts
    <2>2. Of("broker-url") \subseteq 1..Len(line) BY <2>1 DEF Of, Options
    <2> QED BY <1>6, <2>2 DEF LastOf, Of
  <1>8. /\ IsUrl(LastOf("broker-url").means)
        /\ LastOf("broker-url").value = Spelled(LastOf("broker-url").means)
    BY <1>7, Zenon DEF UrlInv, LastOf
  <1>9. client = ClientOf(LastOf("broker-url").value) BY <1>5, Zenon DEF UrlInv
  <1> QED BY <1>8, <1>9, Zenon

(* Authenticates, for every set of command lines and every URL that is      *)
(* spelled of a scheme, credentials, a host, a port, a path and a query: the *)
(* searches of UriParser, which look in all of it, find these delimiters.   *)
THEOREM AuthenticatesCorrect == Spec => []Authenticates
  <1>1. SetupInv /\ UrlInv /\ LineInv /\ Understands => Authenticates
    <2> SUFFICES ASSUME SetupInv, UrlInv, LineInv, Understands, Running,
                        IsSet("broker-url")
                 PROVE  LET url == LastOf("broker-url").means
                        IN  /\ client.user = ValueOr("user", url.user)
                            /\ client.password = ValueOr("password", url.password)
                            /\ client.is_topic = url.is_topic
      BY DEF Authenticates
    <2> DEFINE url == LastOf("broker-url").means
               text == Spelled(url)
    <2>1. client = ClientOf(text) /\ IsUrl(url) BY GivenUrl, Zenon
    <2> HIDE DEF url
    <2>2. /\ user(text) = url.user /\ password(text) = url.password
          /\ Find(text, <<"topic", ":", "/", "/">>, 0) # NPOS <=> url.is_topic
      BY <2>1, UrlFound, Zenon
    <2>3. url.is_topic \in BOOLEAN BY <2>1, UrlTypes
    <2> HIDE DEF text
    <2>4. /\ client.user = ValueOr("user", user(text))
          /\ client.password = ValueOr("password", password(text))
          /\ client.is_topic = (Find(text, <<"topic", ":", "/", "/">>, 0) # NPOS)
      BY <2>1 DEF ClientOf
    <2>5. client.is_topic = url.is_topic BY <2>2, <2>3, <2>4, Zenon
    <2> QED BY <2>2, <2>4, <2>5, Zenon DEF url
  <1> QED BY <1>1, SetupCorrect, UrlCorrect, LineCorrect, UnderstandsCorrect, PTL

(* FindsPlace, for every set of command lines and every such URL: the colon *)
(* of the port, that of the password and those of a host in brackets are    *)
(* told apart.                                                              *)
THEOREM FindsPlaceCorrect == Spec => []FindsPlace
  <1>1. SetupInv /\ UrlInv /\ LineInv /\ Understands => FindsPlace
    <2> SUFFICES ASSUME SetupInv, UrlInv, LineInv, Understands, Running,
                        IsSet("broker-url"),
                        ~LastOf("broker-url").means.is_topic,
                        LastOf("broker-url").means.place.path # <<>>
                 PROVE  Place(LastOf("broker-url").value) = LastOf("broker-url").means.place
      BY DEF FindsPlace
    <2>1. /\ IsUrl(LastOf("broker-url").means)
          /\ LastOf("broker-url").value = Spelled(LastOf("broker-url").means)
      BY GivenUrl, Zenon
    <2> QED BY <2>1, UrlFound, Zenon
  <1> QED BY <1>1, SetupCorrect, UrlCorrect, LineCorrect, UnderstandsCorrect, PTL
=============================================================================
