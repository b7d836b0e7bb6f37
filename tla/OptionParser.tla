---------------------------- MODULE OptionParser ----------------------------
(***************************************************************************)
(* The loop of OptionParser::parse_args over the arguments, with the       *)
(* callbacks of the message options.  An argument is a string, a sequence  *)
(* of symbols (module Strings); an option is known by its name.            *)
(***************************************************************************)
EXTENDS MessageOptions

VARIABLES
    parser,         \* the options it was constructed with
    remaining,      \* the arguments to come
    values,         \* from the options that are set to their values
    appended,       \* the string of every callback
    leftover,       \* the arguments that are no options
    status          \* "parsing", "parsed", "running", or how the process ended

parserVars == <<parser, remaining, values, appended, leftover, status>>

IntOptions == parser.ints           \* with a value: store
StringOptions == parser.strings
FlagOptions == parser.flags         \* without one: store_true
ItemOptions == parser.items         \* with a value: callback
ShortOpts == parser.shorts          \* from letters to options

Valued == IntOptions \union StringOptions \union ItemOptions
Exiting == {"help", "version"}
LongOpts == Valued \union FlagOptions \union Exiting

ParserInit(args) ==
    /\ remaining = args
    /\ values = <<>>
    /\ appended = [option \in parser.items |-> <<>>]
    /\ leftover = <<>>
    /\ status = "parsing"

(* The process exits; error() does so with 2.                               *)
Quit(code) ==
    /\ status' = code
    /\ UNCHANGED <<values, appended, leftover>>

Set(option, value) ==
    /\ values' = [o \in DOMAIN values \union {option} |->
                     IF o = option THEN value ELSE values[o]]
    /\ UNCHANGED <<appended, leftover, status>>

TypeChecks_never(option, value) == TRUE     \* mutant

(* check_type: an int begins with a number.                                 *)
TypeChecks(option, value) ==
    option \in IntOptions => value # <<>> /\ value[1] \in Numerals

process_opt(option, value) ==
    \/ /\ option \in Exiting
       /\ Quit("success")
    \/ /\ option \in IntOptions \union StringOptions
       /\ IF TypeChecks(option, value) THEN Set(option, value)
                                       ELSE Quit("usage error")
    \/ /\ option \in FlagOptions
       /\ Set(option, <<"1">>)
    \/ /\ option \in ItemOptions
       /\ appended' = [appended EXCEPT ![option] = append(@, value)]
       /\ UNCHANGED <<values, leftover, status>>

(* There is a next argument, which the actions below take.                  *)
HasNext == status = "parsing" /\ remaining # <<>>

IsEnd(arg) == arg = <<"-", "-">>
IsLong(arg) == Len(arg) > 2 /\ SubSeq(arg, 1, 2) = <<"-", "-">>
IsShort(arg) == Len(arg) > 1 /\ arg[1] = "-" /\ arg[2] # "-"
IsPlain(arg) == ~(IsEnd(arg) \/ IsLong(arg) \/ IsShort(arg))

TakesNext_always(option, given) == option \in Valued            \* mutant

(* Whether the argument after the option is its value: anything is, an      *)
(* option included.                                                         *)
TakesNext(option, given) == option \in Valued /\ ~given

(* Only one option may have an empty value.                                 *)
Missing(option, value) ==
    option \in Valued /\ value = <<>> /\ option # "msg-content-list-item"

(* --OPT=VALUE, or --OPT and its value in the next argument; without a next  *)
(* one the value is empty.  A flag ignores a value.                          *)
handle_long_opt ==
    /\ HasNext /\ IsLong(Head(remaining))
    /\ LET optstr == From(Head(remaining), 2)
           delim == Find(optstr, <<"=">>, 0)
           given == delim # NPOS
           opt == IF given THEN Substr(optstr, 0, delim) ELSE optstr
           option == CHOOSE o \in LongOpts : opt = <<o>>
           next == TakesNext(option, given) /\ Len(remaining) > 1
           value == IF next THEN remaining[2]
                    ELSE IF given THEN From(optstr, delim + 1) ELSE <<>>
       IN  IF \E o \in LongOpts : opt = <<o>>
           THEN /\ remaining' = From(remaining, IF next THEN 2 ELSE 1)
                /\ IF Missing(option, value) THEN Quit("usage error")
                                             ELSE process_opt(option, value)
           ELSE remaining' = Tail(remaining) /\ Quit("usage error")

(* -oVALUE, or -o and its value in the next argument, which may be empty.    *)
(* What follows a flag is put back as further short options.                 *)
handle_short_opt ==
    /\ HasNext /\ IsShort(Head(remaining))
    /\ LET opt == Head(remaining)[2]
           rest == From(Head(remaining), 2)
           option == ShortOpts[opt]
           next == TakesNext(option, rest # <<>>)
       IN  IF opt \in DOMAIN ShortOpts /\ ~(next /\ Len(remaining) = 1)
           THEN /\ remaining' = IF next THEN From(remaining, 2)
                                ELSE IF option \notin Valued /\ rest # <<>>
                                THEN <<(<<"-">> \o rest)>> \o Tail(remaining)
                                ELSE Tail(remaining)
                /\ process_opt(option, IF next THEN remaining[2] ELSE rest)
           ELSE remaining' = Tail(remaining) /\ Quit("usage error")

KeepArgument ==
    /\ HasNext /\ IsPlain(Head(remaining))
    /\ remaining' = Tail(remaining)
    /\ leftover' = Append(leftover, Head(remaining))
    /\ UNCHANGED <<values, appended, status>>

(* "--": all that follows is left over.                                     *)
EndOfOptions ==
    /\ HasNext /\ IsEnd(Head(remaining))
    /\ remaining' = <<>>
    /\ leftover' = leftover \o Tail(remaining)
    /\ UNCHANGED <<values, appended, status>>

(* No option of the clients has a default.                                  *)
Finish ==
    /\ status = "parsing"
    /\ remaining = <<>>
    /\ status' = "parsed"
    /\ UNCHANGED <<remaining, values, appended, leftover>>

parse_args ==
    /\ \/ handle_long_opt
       \/ handle_short_opt
       \/ KeepArgument
       \/ EndOfOptions
       \/ Finish
    /\ UNCHANGED parser
=============================================================================
