---------------------------- MODULE PythonReader ----------------------------
(***************************************************************************)
(* How the Python code that drives the clients reads a printed line: as a  *)
(* literal of strings, words (None, True, False, numbers), lists and       *)
(* dictionaries.  Written from Python's grammar, not from the printer.     *)
(* The reader is an automaton with a stack of what is open; a dictionary   *)
(* collects its keys and values in turn.                                   *)
(***************************************************************************)
EXTENDS Naturals, SequencesExt

CONSTANT RawWords       \* the words that stand without quotes

ASSUME RawWordsAssumption ==
    /\ RawWords \subseteq STRING \ {"'", "[", "]", "{", "}", ",", ":", "newline"}
    /\ {"None", "True", "False"} \subseteq RawWords

Python(kind, text, parts) == [kind |-> kind, text |-> text, parts |-> parts]
Str(text) == Python("str", text, <<>>)
Raw(word) == Python("raw", <<word>>, <<>>)
List(parts) == Python("list", <<>>, parts)
Dict(parts) == Python("dict", <<>>, parts)

Unreadable == Python("error", <<>>, <<>>)

Kind(bracket) == IF bracket \in {"[", "]"} THEN "list" ELSE "dict"

(* What is open, from the outside in, with the values each has got so far;  *)
(* whether a value may come next; between tokens, in a string, behind a     *)
(* backslash in one, or failed; and what a string has got so far.           *)
Reader(stack, awaits, mode, text) ==
    [stack |-> stack, awaits |-> awaits, mode |-> mode, text |-> text]

Frame(open, done) == [open |-> open, done |-> done]

Start == Reader(<<Frame("line", <<>>)>>, TRUE, "between", <<>>)

Failed(r) == [r EXCEPT !.mode = "failed"]

Top(r) == Last(r.stack)
KeyIsRead(r) == Top(r).open = "dict" /\ Len(Top(r).done) % 2 = 1

Put(stack, value) ==
    Append(Front(stack), Frame(Last(stack).open, Append(Last(stack).done, value)))

Collect(r, value) ==
    IF r.awaits THEN Reader(Put(r.stack, value), FALSE, "between", <<>>)
                ELSE Failed(r)

Open(r, bracket) ==
    IF r.awaits
    THEN Reader(Append(r.stack, Frame(Kind(bracket), <<>>)), TRUE, "between", <<>>)
    ELSE Failed(r)

(* A comma may stand before the bracket, a key alone may not.               *)
Close(r, bracket) ==
    IF Top(r).open = Kind(bracket) /\ ~KeyIsRead(r)
    THEN Reader(Put(Front(r.stack), Python(Kind(bracket), <<>>, Top(r).done)),
                FALSE, "between", <<>>)
    ELSE Failed(r)

Separator(r, c) ==
    IF /\ ~r.awaits
       /\ Top(r).open # "line"
       /\ c = IF KeyIsRead(r) THEN ":" ELSE ","
    THEN Reader(r.stack, TRUE, "between", <<>>)
    ELSE Failed(r)

Between(r, c) ==
    CASE c = "'"          -> IF r.awaits THEN Reader(r.stack, TRUE, "string", <<>>)
                             ELSE Failed(r)
      [] c \in {"[", "{"} -> Open(r, c)
      [] c \in {"]", "}"} -> Close(r, c)
      [] c \in {",", ":"} -> Separator(r, c)
      [] c \in RawWords   -> Collect(r, Raw(c))
      [] OTHER            -> Failed(r)

(* "newline" stands for a line feed: a string ends on the line it began on, *)
(* unless a backslash joins the next line to it.                            *)
InString(r, c) ==
    CASE c = "'"       -> Collect(r, Str(r.text))
      [] c = "\\"      -> Reader(r.stack, TRUE, "escape", r.text)
      [] c = "newline" -> Failed(r)
      [] OTHER         -> Reader(r.stack, TRUE, "string", Append(r.text, c))

Escaped(r, c) ==
    Reader(r.stack, TRUE, "string",
           r.text \o CASE c \in {"'", "\\"} -> <<c>>
                       [] c = "newline"    -> <<>>
                       [] OTHER            -> <<"\\", c>>)

Step(r, c) ==
    CASE r.mode = "between" -> Between(r, c)
      [] r.mode = "string"  -> InString(r, c)
      [] r.mode = "escape"  -> Escaped(r, c)
      [] r.mode = "failed"  -> r

(* The state of the reader behind a text that is begun in state r.          *)
ReadText(r, text) ==
    LET read[n \in 0..Len(text)] ==
            IF n = 0 THEN r ELSE Step(read[n - 1], text[n])
    IN  IF r.mode = "failed" THEN r ELSE read[Len(text)]

(* A line is read by blocks, which keeps the recursion shallow.             *)
BLOCK == 16

Block(line, k) ==
    SubSeq(line, BLOCK * k + 1,
           IF BLOCK * (k + 1) < Len(line) THEN BLOCK * (k + 1) ELSE Len(line))

ReadLine(line) ==
    LET read[k \in 0..(Len(line) \div BLOCK)] ==
            ReadText(IF k = 0 THEN Start ELSE read[k - 1], Block(line, k))
    IN  read[Len(line) \div BLOCK]

Read(line) ==
    LET r == ReadLine(line)
    IN  IF r.mode = "between" /\ Len(r.stack) = 1 /\ Len(Top(r).done) = 1
        THEN Top(r).done[1]
        ELSE Unreadable
=============================================================================
