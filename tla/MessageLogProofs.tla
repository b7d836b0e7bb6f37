-------------------------- MODULE MessageLogProofs --------------------------
(***************************************************************************)
(* Proofs about MessageLog.  That a line reads back is put together from   *)
(* what the reader does with each part of it: Reads(r, text, q) says that  *)
(* a reader in state r is in state q behind the text.                      *)
(***************************************************************************)
EXTENDS MessageLog, DataProofs

-----------------------------------------------------------------------------
(* The reader, symbol by symbol.                                            *)

(* The symbols: strings, as these literals are.                             *)
Symbols ==
    STRING \union
        {"'", "\\", ",", ":", "[", "]", "{", "}", "None", "True", "False",
         "redelivered", "reply_to", "subject", "content_type", "user_id", "id",
         "correlation_id", "priority", "durable", "ttl", "properties", "content",
         "first-acquirer", "delivery-count", "user-id", "address", "reply-to",
         "correlation-id", "content-type", "content-encoding",
         "absolute-expiry-time", "creation-time", "group-id", "group-sequence",
         "reply-to-group-id"}

IsRun(f, r, text) ==
    /\ f = [n \in 0..Len(text) |-> f[n]]
    /\ f[0] = r
    /\ \A n \in 1..Len(text) : f[n] = Step(f[n - 1], text[n])

Reads(r, text, q) == \E f : IsRun(f, r, text) /\ f[Len(text)] = q

(* Behind nothing the reader is where it was.                               *)
LEMMA ReadsNothing ==
    ASSUME NEW r
    PROVE  Reads(r, <<>>, r)
  <1> DEFINE f == [n \in 0..0 |-> r]
  <1>1. IsRun(f, r, <<>>) BY DEF IsRun
  <1> QED BY <1>1 DEF Reads

(* Behind a symbol it has taken a step.                                     *)
LEMMA ReadsOne ==
    ASSUME NEW r, NEW c
    PROVE  Reads(r, <<c>>, Step(r, c))
  <1> DEFINE f == [n \in 0..1 |-> IF n = 0 THEN r ELSE Step(r, c)]
  <1>1. Len(<<c>>) = 1 /\ <<c>>[1] = c OBVIOUS
  <1>2. f[0] = r /\ f[1] = Step(r, c) OBVIOUS
  <1>3. IsRun(f, r, <<c>>) BY <1>1, <1>2 DEF IsRun
  <1> QED BY <1>1, <1>2, <1>3 DEF Reads

(* A text behind a text is read where the reader is by then.                *)
LEMMA ReadsBoth ==
    ASSUME NEW a \in Seq(Symbols), NEW b \in Seq(Symbols), NEW r, NEW q, NEW s,
           Reads(r, a, q), Reads(q, b, s)
    PROVE  Reads(r, a \o b, s)
  <1>1. PICK f : IsRun(f, r, a) /\ f[Len(a)] = q BY DEF Reads
  <1>2. PICK g : IsRun(g, q, b) /\ g[Len(b)] = s BY DEF Reads
  <1> DEFINE h == [n \in 0..Len(a \o b) |->
                       IF n <= Len(a) THEN f[n] ELSE g[n - Len(a)]]
  <1>3. Len(a) \in Nat /\ Len(b) \in Nat /\ Len(a \o b) = Len(a) + Len(b)
    OBVIOUS
  <1>4. h[0] = r BY <1>1, <1>3 DEF IsRun
  <1>5. ASSUME NEW n \in 1..Len(a \o b)
        PROVE  h[n] = Step(h[n - 1], (a \o b)[n])
    <2>1. CASE n <= Len(a)
      <3>1. n \in 1..Len(a) /\ n - 1 <= Len(a) /\ (a \o b)[n] = a[n]
        BY <1>3, <2>1
      <3>2. h[n] = f[n] /\ h[n - 1] = f[n - 1] BY <1>3, <2>1, <3>1
      <3> QED BY <1>1, <3>1, <3>2 DEF IsRun
    <2>2. CASE n = Len(a) + 1
      <3>1. h[n] = g[1] /\ h[n - 1] = f[Len(a)] BY <1>3, <2>2
      <3>2. (a \o b)[n] = b[1] /\ 1 \in 1..Len(b) BY <1>3, <2>2
      <3>3. g[1] = Step(g[0], b[1]) /\ g[0] = q BY <1>2, <3>2 DEF IsRun
      <3> QED BY <1>1, <3>1, <3>2, <3>3
    <2>3. CASE n > Len(a) + 1
      <3> DEFINE k == n - Len(a)
      <3>1. k \in 1..Len(b) /\ k - 1 = (n - 1) - Len(a) /\ (a \o b)[n] = b[k]
        BY <1>3, <2>3
      <3>2. h[n] = g[k] /\ h[n - 1] = g[k - 1] BY <1>3, <2>3, <3>1
      <3> QED BY <1>2, <3>1, <3>2 DEF IsRun
    <2> QED BY <1>3, <2>1, <2>2, <2>3
  <1>6. h[Len(a \o b)] = s
    <2>1. CASE Len(b) = 0
      <3>1. h[Len(a \o b)] = q BY <1>1, <1>3, <2>1
      <3> QED BY <1>2, <2>1, <3>1 DEF IsRun
    <2>2. CASE Len(b) # 0 BY <1>2, <1>3, <2>2
    <2> QED BY <2>1, <2>2
  <1>7. h = [n \in 0..Len(a \o b) |-> h[n]] OBVIOUS
  <1> HIDE DEF h
  <1>8. IsRun(h, r, a \o b) BY <1>4, <1>5, <1>7 DEF IsRun
  <1> QED BY <1>6, <1>8 DEF Reads

(* There is one run.                                                        *)
LEMMA OneRun ==
    ASSUME NEW text \in Seq(Symbols), NEW r, NEW f, NEW g,
           IsRun(f, r, text), IsRun(g, r, text)
    PROVE  f = g
  <1> DEFINE S == {n \in Nat : n <= Len(text) => f[n] = g[n]}
  <1>1. 0 \in S BY DEF IsRun
  <1>2. ASSUME NEW n \in Nat, n \in S PROVE n + 1 \in S
    <2>1. SUFFICES ASSUME n + 1 <= Len(text) PROVE f[n + 1] = g[n + 1] OBVIOUS
    <2>2. n + 1 \in 1..Len(text) /\ (n + 1) - 1 = n /\ f[n] = g[n] BY <1>2, <2>1
    <2> QED BY <2>2 DEF IsRun
  <1>3. \A n \in Nat : n \in S
    <2> HIDE DEF S
    <2> QED BY <1>1, <1>2, SetInduction
  <1>4. \A n \in 0..Len(text) : f[n] = g[n] BY <1>3
  <1> QED BY <1>4 DEF IsRun

(* A reader that has failed reads on and stays so.                          *)
LEMMA FailedStays ==
    ASSUME NEW text \in Seq(Symbols), NEW r, NEW q,
           r.mode = "failed", Reads(r, text, q)
    PROVE  q = r
  <1>1. PICK f : IsRun(f, r, text) /\ f[Len(text)] = q BY DEF Reads
  <1> DEFINE g == [n \in 0..Len(text) |-> r]
  <1>2. \A c : Step(r, c) = r BY DEF Step
  <1>3. IsRun(g, r, text) BY <1>2 DEF IsRun
  <1>4. f = g
    <2> HIDE DEF g
    <2> QED BY <1>1, <1>3, OneRun
  <1> QED BY <1>1, <1>4

(* ReadText finds the state behind the text.                                *)
LEMMA ReadsText ==
    ASSUME NEW text \in Seq(Symbols), NEW r, NEW q, Reads(r, text, q)
    PROVE  ReadText(r, text) = q
  <1> DEFINE Recursion(f) ==
                 f = [n \in 0..Len(text) |->
                          IF n = 0 THEN r ELSE Step(f[n - 1], text[n])]
             read == CHOOSE f : Recursion(f)
  <1>1. PICK f : IsRun(f, r, text) /\ f[Len(text)] = q BY DEF Reads
  <1>2. Recursion(f) BY <1>1 DEF IsRun
  <1>3. Recursion(read)
    <2> HIDE DEF Recursion
    <2> QED BY <1>2
  <1>4. IsRun(read, r, text)
    <2> HIDE DEF read
    <2>1. read[0] = r BY <1>3
    <2>2. \A n \in 1..Len(text) : read[n] = Step(read[n - 1], text[n]) BY <1>3
    <2>3. read = [n \in 0..Len(text) |-> read[n]] BY <1>3
    <2> HIDE DEF Recursion
    <2> QED BY <2>1, <2>2, <2>3 DEF IsRun
  <1>5. read[Len(text)] = q
    <2> HIDE DEF read
    <2> QED BY <1>1, <1>4, OneRun
  <1>6. r.mode = "failed" => q = r BY FailedStays
  <1>7. ReadText(r, text) = IF r.mode = "failed" THEN r ELSE read[Len(text)]
    BY DEF ReadText
  <1> HIDE DEF read
  <1> QED BY <1>5, <1>6, <1>7

(* The end of block k, whose text begins behind the end of block k - 1.     *)
EndOf(line, k) ==
    IF BLOCK * (k + 1) < Len(line) THEN BLOCK * (k + 1) ELSE Len(line)

(* A line that is read in one run is read block by block.                   *)
LEMMA ReadsLine ==
    ASSUME NEW line \in Seq(Symbols), NEW q, Reads(Start, line, q)
    PROVE  ReadLine(line) = q
  <1> DEFINE End == Len(line) \div BLOCK
             Recursion(f) ==
                 f = [k \in 0..End |->
                          ReadText(IF k = 0 THEN Start ELSE f[k - 1], Block(line, k))]
             read == CHOOSE f : Recursion(f)
  <1>1. PICK f : IsRun(f, Start, line) /\ f[Len(line)] = q BY DEF Reads
  <1>2. /\ Len(line) \in Nat
        /\ End \in Nat
        /\ BLOCK * End <= Len(line)
        /\ Len(line) < BLOCK * (End + 1)
    BY DEF BLOCK
  <1>3. ASSUME NEW k \in 0..End
        PROVE  ReadText(f[BLOCK * k], Block(line, k)) = f[EndOf(line, k)]
    <2> DEFINE from == BLOCK * k
               end == EndOf(line, k)
               g == [n \in 0..(end - from) |-> f[from + n]]
    <2>1. /\ from \in Nat /\ end \in Nat /\ from <= end /\ end <= Len(line)
      BY <1>2 DEF EndOf, BLOCK
    <2>2. Block(line, k) = SubSeq(line, from + 1, end) BY DEF Block, EndOf
    <2> HIDE DEF from, end
    <2>3. /\ Block(line, k) \in Seq(Symbols)
          /\ Len(Block(line, k)) = end - from
          /\ \A n \in 1..(end - from) : Block(line, k)[n] = line[from + n]
      BY <2>1, <2>2, SubSeqProperties
    <2>4. ASSUME NEW n \in 1..(end - from)
          PROVE  g[n] = Step(g[n - 1], Block(line, k)[n])
      <3>1. from + n \in 1..Len(line) /\ (from + n) - 1 = from + (n - 1)
        BY <2>1
      <3>2. f[from + n] = Step(f[from + (n - 1)], line[from + n])
        BY <1>1, <3>1 DEF IsRun
      <3> QED BY <2>1, <2>3, <3>2
    <2>5. g[0] = f[from] /\ g[end - from] = f[end] BY <2>1
    <2>6. g = [n \in 0..(end - from) |-> g[n]] OBVIOUS
    <2> HIDE DEF g
    <2>7. IsRun(g, f[from], Block(line, k)) BY <2>3, <2>4, <2>5, <2>6 DEF IsRun
    <2>8. Reads(f[from], Block(line, k), f[end]) BY <2>3, <2>5, <2>7 DEF Reads
    <2>9. ReadText(f[from], Block(line, k)) = f[end] BY <2>3, <2>8, ReadsText
    <2> QED BY <2>9 DEF from, end
  <1>4. \A k \in 0..End : k # 0 => EndOf(line, k - 1) = BLOCK * k
    BY <1>2 DEF EndOf, BLOCK
  <1>5. EndOf(line, End) = Len(line) BY <1>2 DEF EndOf, BLOCK
  <1>6. f[BLOCK * 0] = Start BY <1>1 DEF IsRun, BLOCK
  <1> DEFINE F == [k \in 0..End |-> f[EndOf(line, k)]]
  <1>7. Recursion(F)
    <2>1. ASSUME NEW k \in 0..End
          PROVE  F[k] = ReadText(IF k = 0 THEN Start ELSE F[k - 1], Block(line, k))
      <3>1. CASE k = 0 BY <1>3, <1>6, <3>1
      <3>2. CASE k # 0
        <4>1. k - 1 \in 0..End BY <1>2, <3>2
        <4>2. F[k - 1] = f[BLOCK * k] BY <1>4, <3>2, <4>1
        <4> QED BY <1>3, <3>2, <4>2
      <3> QED BY <3>1, <3>2
    <2> QED BY <2>1
  <1>8. Recursion(read)
    <2> HIDE DEF Recursion, F
    <2> QED BY <1>7
  <1>9. \A k \in Nat : k <= End => read[k] = F[k]
    <2> DEFINE S == {k \in Nat : k <= End => read[k] = F[k]}
    <2> HIDE DEF read, F
    <2>1. 0 \in S
      <3>1. 0 \in 0..End BY <1>2
      <3> HIDE DEF End
      <3>2. read[0] = ReadText(Start, Block(line, 0)) BY <1>8, <3>1
      <3>3. F[0] = ReadText(Start, Block(line, 0)) BY <1>7, <3>1
      <3> QED BY <3>2, <3>3
    <2>2. ASSUME NEW k \in Nat, k \in S PROVE k + 1 \in S
      <3>1. SUFFICES ASSUME k + 1 <= End PROVE read[k + 1] = F[k + 1] OBVIOUS
      <3>2. k + 1 \in 0..End /\ k + 1 # 0 /\ (k + 1) - 1 = k /\ read[k] = F[k]
        BY <1>2, <2>2, <3>1
      <3> HIDE DEF End
      <3>3. read[k + 1] = ReadText(read[k], Block(line, k + 1)) BY <1>8, <3>2
      <3>4. F[k + 1] = ReadText(F[k], Block(line, k + 1)) BY <1>7, <3>2
      <3> QED BY <3>2, <3>3, <3>4
    <2> HIDE DEF S
    <2>3. \A k \in Nat : k \in S BY <2>1, <2>2, SetInduction
    <2> QED BY <2>3 DEF S
  <1>10. read[End] = q
    <2> HIDE DEF read
    <2>1. End \in 0..End BY <1>2
    <2>2. F[End] = f[EndOf(line, End)] BY <2>1
    <2> HIDE DEF F, End
    <2>3. read[End] = F[End] BY <1>9, <2>1
    <2> QED BY <1>1, <1>5, <2>2, <2>3 DEF End
  <1>11. ReadLine(line) = read[End] BY DEF ReadLine
  <1> HIDE DEF read, End
  <1> QED BY <1>10, <1>11
-----------------------------------------------------------------------------
(* What a loop puts together is read turn by turn.                          *)
LEMMA FlattenReads ==
    ASSUME NEW seqs \in Seq(Seq(Symbols)), NEW R,
           \A i \in 1..Len(seqs) : Reads(R[i - 1], seqs[i], R[i])
    PROVE  Reads(R[0], FlattenSeq(seqs), R[Len(seqs)])
  <1>1. PICK D : ArePrefixes(D, Symbols, seqs) /\ D[Len(seqs)] = FlattenSeq(seqs)
    BY FlattenPrefixes
  <1> DEFINE T == {n \in Nat : n <= Len(seqs) => Reads(R[0], D[n], R[n])}
  <1>2. 0 \in T BY <1>1, ReadsNothing DEF ArePrefixes
  <1>3. ASSUME NEW n \in Nat, n \in T PROVE n + 1 \in T
    <2>1. SUFFICES ASSUME n + 1 <= Len(seqs) PROVE Reads(R[0], D[n + 1], R[n + 1])
      OBVIOUS
    <2>2. /\ n + 1 \in 1..Len(seqs) /\ (n + 1) - 1 = n /\ n \in 0..Len(seqs)
          /\ Reads(R[0], D[n], R[n])
      BY <1>3, <2>1
    <2>3. D[n] \in Seq(Symbols) /\ D[n + 1] = D[n] \o seqs[n + 1]
      BY <1>1, <2>2 DEF ArePrefixes
    <2>4. Reads(R[n], seqs[n + 1], R[n + 1]) /\ seqs[n + 1] \in Seq(Symbols)
      BY <2>2
    <2> QED BY <2>2, <2>3, <2>4, ReadsBoth
  <1>4. \A n \in Nat : n \in T
    <2> HIDE DEF T
    <2> QED BY <1>2, <1>3, SetInduction
  <1>5. Len(seqs) \in Nat OBVIOUS
  <1> QED BY <1>1, <1>4, <1>5
-----------------------------------------------------------------------------
(* The states between the tokens of a line and within a string.             *)

Kinds == {"line", "list", "dict"}

Frames(V) == [open : Kinds, done : Seq(V)]

(* Above what is open outside, a bracket that has got its first values.     *)
Above(below, open, done) == Append(below, Frame(open, done))

(* Where a value may come next, and where one has come.                     *)
Before(below, open, done) ==
    Reader(Above(below, open, done), TRUE, "between", <<>>)
Behind(below, open, done) ==
    Reader(Above(below, open, done), FALSE, "between", <<>>)

Within(below, open, done, mode, text) ==
    Reader(Above(below, open, done), TRUE, mode, text)

(* The parts of a frame.                                                    *)
LEMMA FrameFacts ==
    ASSUME NEW open, NEW done
    PROVE  Frame(open, done).open = open /\ Frame(open, done).done = done
  BY DEF Frame

(* What is on top of the stack, and how it gets one value more.             *)
LEMMA TopFacts ==
    ASSUME NEW V, NEW below \in Seq(Frames(V)), NEW open \in Kinds,
           NEW done \in Seq(V)
    PROVE  /\ Above(below, open, done) \in Seq(Frames(V))
           /\ Last(Above(below, open, done)) = Frame(open, done)
           /\ Front(Above(below, open, done)) = below
           /\ \A value :
                  Put(Above(below, open, done), value)
                      = Above(below, open, Append(done, value))
  <1> DEFINE stack == Above(below, open, done)
  <1>1. Frame(open, done) \in Frames(V) BY DEF Frame, Frames
  <1>2. /\ stack \in Seq(Frames(V))
        /\ Last(stack) = Frame(open, done)
    BY <1>1 DEF Last, Above
  <1>3. Front(stack) = below BY <1>1 DEF Front, Above
  <1>4. Frame(open, done).open = open /\ Frame(open, done).done = done
    BY FrameFacts
  <1>5. \A value :
            Put(stack, value) = Above(below, open, Append(done, value))
    <2> HIDE DEF stack
    <2> QED BY <1>2, <1>3, <1>4 DEF Put, Above
  <1> QED BY <1>2, <1>3, <1>5

(* A word is taken, a quote begins a string.                                *)
LEMMA TokenFacts ==
    ASSUME NEW V, NEW below \in Seq(Frames(V)), NEW open \in Kinds,
           NEW done \in Seq(V)
    PROVE  /\ Step(Before(below, open, done), "'")
                  = Within(below, open, done, "string", <<>>)
           /\ \A word \in RawWords :
                  Step(Before(below, open, done), word)
                      = Behind(below, open, Append(done, Raw(word)))
  <1> DEFINE stack == Above(below, open, done)
             r == Before(below, open, done)
  <1> HIDE DEF stack
  <1>1. r.mode = "between" /\ r.awaits /\ r.stack = stack
    BY DEF Reader, Before, Behind, stack
  <1> HIDE DEF r
  <1>2. \A c : Step(r, c) = Between(r, c) BY <1>1 DEF Step
  <1>3. Between(r, "'") = Reader(stack, TRUE, "string", <<>>)
    BY <1>1, RawWordsAssumption DEF Between
  <1>4. ASSUME NEW word \in RawWords
        PROVE  Between(r, word) = Reader(Put(stack, Raw(word)), FALSE, "between", <<>>)
    <2>1. word \notin {"'", "[", "]", "{", "}", ",", ":"} BY RawWordsAssumption
    <2> QED BY <1>1, <2>1 DEF Between, Collect
  <1>5. \A value : Put(stack, value) = Above(below, open, Append(done, value))
    BY TopFacts DEF stack
  <1> QED BY <1>2, <1>3, <1>4, <1>5 DEF Before, Behind, Within, stack, r

(* In a string a backslash takes a quote in, and words are as they are.     *)
LEMMA StringFacts ==
    ASSUME NEW below, NEW open, NEW done, NEW text
    PROVE  /\ \A c : c \notin {"'", "\\", "newline"} =>
                  Step(Within(below, open, done, "string", text), c)
                      = Within(below, open, done, "string", Append(text, c))
           /\ Step(Within(below, open, done, "string", text), "\\")
                  = Within(below, open, done, "escape", text)
           /\ Step(Within(below, open, done, "escape", text), "'")
                  = Within(below, open, done, "string", text \o <<"'">>)
  <1> DEFINE stack == Above(below, open, done)
             r == Within(below, open, done, "string", text)
             e == Within(below, open, done, "escape", text)
  <1> HIDE DEF stack
  <1>1. r.mode = "string" /\ r.text = text /\ r.stack = stack
    BY DEF Reader, Within, stack
  <1>2. e.mode = "escape" /\ e.text = text /\ e.stack = stack
    BY DEF Reader, Within, stack
  <1> HIDE DEF r, e
  <1>3. (\A c : Step(r, c) = InString(r, c)) /\ (\A c : Step(e, c) = Escaped(e, c))
    BY <1>1, <1>2 DEF Step
  <1>4. \A c : c \notin {"'", "\\", "newline"} =>
            InString(r, c) = Reader(stack, TRUE, "string", Append(text, c))
    BY <1>1 DEF InString
  <1>5. InString(r, "\\") = Reader(stack, TRUE, "escape", text)
    BY <1>1 DEF InString
  <1>6. Escaped(e, "'") = Reader(stack, TRUE, "string", text \o <<"'">>)
    BY <1>2 DEF Escaped
  <1> QED BY <1>3, <1>4, <1>5, <1>6 DEF Within, stack, r, e

(* A quote ends it.                                                         *)
LEMMA StringEnds ==
    ASSUME NEW V, NEW below \in Seq(Frames(V)), NEW open \in Kinds,
           NEW done \in Seq(V), NEW text
    PROVE  Step(Within(below, open, done, "string", text), "'")
               = Behind(below, open, Append(done, Str(text)))
  <1> DEFINE stack == Above(below, open, done)
             r == Within(below, open, done, "string", text)
  <1> HIDE DEF stack
  <1>1. r.mode = "string" /\ r.text = text /\ r.awaits /\ r.stack = stack
    BY DEF Reader, Within, stack
  <1> HIDE DEF r
  <1>2. Step(r, "'") = InString(r, "'") BY <1>1 DEF Step
  <1>3. InString(r, "'") = Reader(Put(stack, Str(text)), FALSE, "between", <<>>)
    BY <1>1 DEF InString, Collect
  <1>4. \A value : Put(stack, value) = Above(below, open, Append(done, value))
    BY TopFacts DEF stack
  <1> QED BY <1>2, <1>3, <1>4 DEF Before, Behind, r

IsPaired(open, done) == open = "dict" => Len(done) % 2 = 0
IsOpening(b) == b \in {"[", "{"}
Comma == ","
Colon == ":"

(* A bracket opens above what is open.                                      *)
LEMMA OpenFacts ==
    ASSUME NEW below, NEW open, NEW done, NEW b, IsOpening(b)
    PROVE  Step(Before(below, open, done), b)
               = Before(Above(below, open, done), Kind(b), <<>>)
  <1> DEFINE stack == Above(below, open, done)
             r == Before(below, open, done)
  <1>1. r.mode = "between" /\ r.awaits /\ r.stack = stack BY DEF Reader, Before, Behind
  <1> HIDE DEF stack, r
  <1>2. Step(r, b) = Between(r, b) BY <1>1 DEF Step
  <1>3. Between(r, b) = Open(r, b)
    BY RawWordsAssumption, Zenon DEF Between, IsOpening
  <1>4. Open(r, b) = Reader(Append(stack, Frame(Kind(b), <<>>)), TRUE, "between", <<>>)
    BY <1>1, Zenon DEF Open
  <1> QED BY <1>2, <1>3, <1>4, Zenon DEF Before, Behind, Above, r, stack

(* A separator fits the values read so far.                                 *)
LEMMA SeparatorFacts ==
    ASSUME NEW V, NEW below \in Seq(Frames(V)), NEW open \in Kinds,
           NEW done \in Seq(V)
    PROVE  /\ open # "line" /\ IsPaired(open, done) =>
                  Step(Behind(below, open, done), Comma)
                      = Before(below, open, done)
           /\ open = "dict" /\ Len(done) % 2 = 1 =>
                  Step(Behind(below, open, done), Colon)
                      = Before(below, open, done)
  <1> DEFINE stack == Above(below, open, done)
             r == Before(below, open, done)
             q == Behind(below, open, done)
  <1> HIDE DEF stack
  <1>1. q.mode = "between" /\ ~q.awaits /\ q.stack = stack BY DEF Reader, Before, Behind, stack
  <1> HIDE DEF r, q
  <1>2. Last(stack).open = open /\ Last(stack).done = done
    <2>1. Last(stack) = Frame(open, done) BY TopFacts DEF stack
    <2> QED BY <2>1, FrameFacts
  <1>3. \A c : Step(q, c) = Between(q, c) BY <1>1 DEF Step
  <1>4. KeyIsRead(q) <=> open = "dict" /\ Len(done) % 2 = 1
    BY <1>1, <1>2 DEF KeyIsRead, Top
  <1>5. ASSUME NEW c \in {Comma, Colon} PROVE Between(q, c) = Separator(q, c)
    BY RawWordsAssumption, Zenon DEF Between, Comma, Colon
  <1>6. Top(q).open = open BY <1>1, <1>2 DEF Top
  <1>7. ASSUME open # "line", IsPaired(open, done)
        PROVE  Separator(q, Comma) = Reader(stack, TRUE, "between", <<>>)
    <2>1. open = "dict" => Len(done) % 2 = 0 BY <1>7 DEF IsPaired
    <2>2. ~KeyIsRead(q) BY <1>4, <2>1
    <2> QED BY <1>1, <1>6, <1>7, <2>2, Zenon DEF Separator, Comma, Colon
  <1>8. ASSUME open = "dict", Len(done) % 2 = 1
        PROVE  Separator(q, Colon) = Reader(stack, TRUE, "between", <<>>)
    <2>1. KeyIsRead(q) /\ open # "line" BY <1>4, <1>8
    <2> QED BY <1>1, <1>6, <2>1, Zenon DEF Separator, Comma, Colon
  <1>9. Step(q, Comma) = Separator(q, Comma) /\ Step(q, Colon) = Separator(q, Colon)
    BY <1>3, <1>5, Zenon
  <1>10. Reader(stack, TRUE, "between", <<>>) = r BY Zenon DEF Before, Behind, stack, r
  <1>11. open # "line" /\ IsPaired(open, done) => Step(q, Comma) = r
    BY <1>7, <1>9, <1>10, Zenon
  <1>12. open = "dict" /\ Len(done) % 2 = 1 => Step(q, Colon) = r
    BY <1>8, <1>9, <1>10, Zenon
  <1> QED BY <1>11, <1>12, Zenon DEF r, q

IsClosing(c) == c \in {"]", "}"}

MayClose(V, below, open, done, c, parts) ==
    /\ below \in Seq(Frames(V)) /\ open \in Kinds /\ done \in Seq(V)
    /\ IsClosing(c) /\ parts \in Seq(V) /\ IsPaired(Kind(c), parts)

(* A value may be awaited, as behind a comma, or not.                       *)
IsInside(q, below, open, done) ==
    q = Before(below, open, done) \/ q = Behind(below, open, done)

(* A bracket that closes is one value more for what is open outside.        *)
LEMMA CloseFacts ==
    ASSUME NEW V, NEW below, NEW open, NEW done, NEW c, NEW parts,
           MayClose(V, below, open, done, c, parts),
           NEW q, IsInside(q, Above(below, open, done), Kind(c), parts)
    PROVE  Step(q, c)
               = Behind(below, open, Append(done, Python(Kind(c), <<>>, parts)))
  <1> DEFINE outer == Above(below, open, done)
             kind == Kind(c)
             stack == Above(outer, kind, parts)
             value == Python(kind, <<>>, parts)
  <1>0. /\ below \in Seq(Frames(V)) /\ open \in Kinds /\ done \in Seq(V)
        /\ IsClosing(c) /\ parts \in Seq(V) /\ IsPaired(Kind(c), parts)
    BY Zenon DEF MayClose
  <1>1. kind \in Kinds BY <1>0, Zenon DEF IsClosing, Kind, Kinds
  <1> HIDE DEF value, kind
  <1>2. /\ outer \in Seq(Frames(V))
        /\ Put(outer, value) = Above(below, open, Append(done, value))
    <2> HIDE DEF outer
    <2>1. outer \in Seq(Frames(V)) BY <1>0, TopFacts DEF outer
    <2>2. \A v : Put(outer, v) = Above(below, open, Append(done, v))
      BY <1>0, TopFacts DEF outer
    <2> QED BY <2>1, <2>2
  <1> HIDE DEF outer
  <1>3. Front(stack) = outer /\ Last(stack).open = kind /\ Last(stack).done = parts
    <2> HIDE DEF stack
    <2>1. Front(stack) = outer /\ Last(stack) = Frame(kind, parts)
      BY <1>0, <1>1, <1>2, TopFacts DEF stack
    <2> QED BY <2>1, FrameFacts
  <1>4. q.mode = "between" /\ q.stack = stack
    <2> HIDE DEF outer
    <2>1. q = Before(outer, kind, parts) \/ q = Behind(outer, kind, parts)
      BY Zenon DEF IsInside, outer, kind
    <2> QED BY <2>1 DEF Reader, Before, Behind
  <1> HIDE DEF stack
  <1>5. Step(q, c) = Between(q, c) BY <1>4 DEF Step
  <1>6. Between(q, c) = Close(q, c)
    BY <1>0, RawWordsAssumption, Zenon DEF IsClosing, Between
  <1>7. Top(q).open = kind /\ Top(q).done = parts BY <1>3, <1>4 DEF Top
  <1>8. ~KeyIsRead(q)
    <2>1. kind = "dict" => Len(parts) % 2 = 0 BY <1>0 DEF IsPaired, kind
    <2> DEFINE parity == Len(parts) % 2
    <2>2. KeyIsRead(q) <=> kind = "dict" /\ parity = 1
      BY <1>7, Zenon DEF KeyIsRead
    <2> HIDE DEF parity
    <2>3. kind = "dict" => parity = 0 BY <2>1, Zenon DEF parity
    <2> QED BY <2>2, <2>3
  <1>9. Close(q, c) = Reader(Put(outer, value), FALSE, "between", <<>>)
    BY <1>3, <1>4, <1>7, <1>8, Zenon DEF Close, value, kind
  <1>10. Step(q, c) = Behind(below, open, Append(done, value))
    BY <1>2, <1>5, <1>6, <1>9 DEF Before, Behind
  <1> QED BY <1>10, Zenon DEF value, outer, kind
-----------------------------------------------------------------------------
(* Texts that tell a value.                                                 *)

Tells(V, text, value) ==
    /\ text \in Seq(Symbols)
    /\ value \in V
    /\ \A below \in Seq(Frames(V)), open \in Kinds, done \in Seq(V) :
           Reads(Before(below, open, done), text,
                 Behind(below, open, Append(done, value)))

(* Two of them are one text.                                                *)
LEMMA TwoSymbols ==
    ASSUME NEW S, NEW a \in S, NEW b \in S
    PROVE  <<a>> \o <<b>> = <<a, b>>
  <1> DEFINE c == <<a>> \o <<b>>
             d == <<a, b>>
  <1>1. c \in Seq(S) /\ Len(c) = 2 /\ c[1] = a /\ c[2] = b OBVIOUS
  <1>2. d \in Seq(S) /\ Len(d) = 2 /\ d[1] = a /\ d[2] = b OBVIOUS
  <1> HIDE DEF c, d
  <1>3. \A i \in 1..2 : i = 1 \/ i = 2 OBVIOUS
  <1>4. \A i \in 1..2 : c[i] = d[i] BY <1>1, <1>2, <1>3
  <1>5. c = d BY <1>1, <1>2, <1>4, SeqEqual
  <1> QED BY <1>5 DEF c, d

(* A word tells itself.                                                     *)
LEMMA TellsWord ==
    ASSUME NEW V, NEW word \in RawWords, Raw(word) \in V
    PROVE  Tells(V, <<word>>, Raw(word))
  <1>1. word \in Symbols BY RawWordsAssumption, Zenon DEF Symbols
  <1>2. <<word>> \in Seq(Symbols) BY <1>1, OneSymbol
  <1> SUFFICES ASSUME NEW below \in Seq(Frames(V)), NEW open \in Kinds,
                      NEW done \in Seq(V)
               PROVE  Reads(Before(below, open, done), <<word>>,
                            Behind(below, open, Append(done, Raw(word))))
    BY <1>2 DEF Tells
  <1>3. Step(Before(below, open, done), word)
            = Behind(below, open, Append(done, Raw(word)))
    BY TokenFacts
  <1> QED BY <1>3, ReadsOne

IsBody(V, body, text) ==
    /\ body \in Seq(Symbols)
    /\ \A below \in Seq(Frames(V)), open \in Kinds, done \in Seq(V) :
           Reads(Within(below, open, done, "string", <<>>), body,
                 Within(below, open, done, "string", text))

(* Between quotes is what the reader takes for the body of a string.        *)
LEMMA TellsQuoted ==
    ASSUME NEW V, NEW body, NEW text, Str(text) \in V, IsBody(V, body, text)
    PROVE  Tells(V, Quoted(body), Str(text))
  <1>1. <<"'">> \in Seq(Symbols) /\ <<"'">> \o body \in Seq(Symbols)
    <2>1. <<"'">> \in Seq(Symbols)
      <3>1. "'" \in Symbols BY Zenon DEF Symbols
      <3> QED BY <3>1, OneSymbol, Zenon
    <2> DEFINE quote == <<"'">>
    <2> HIDE DEF quote
    <2>2. \A s, t \in Seq(Symbols) : s \o t \in Seq(Symbols)
      BY ConcatProperties
    <2>3. body \in Seq(Symbols) BY Zenon DEF IsBody
    <2> QED BY <2>1, <2>2, <2>3 DEF quote
  <1>2. Quoted(body) = (<<"'">> \o body) \o <<"'">> BY <1>1, ConcatAssociative DEF Quoted
  <1>3. Quoted(body) \in Seq(Symbols) BY <1>1, <1>2, ConcatProperties
  <1> SUFFICES ASSUME NEW below \in Seq(Frames(V)), NEW open \in Kinds,
                      NEW done \in Seq(V)
               PROVE  Reads(Before(below, open, done), Quoted(body),
                            Behind(below, open, Append(done, Str(text))))
    BY <1>3 DEF Tells
  <1> DEFINE r == Before(below, open, done)
             b == Within(below, open, done, "string", <<>>)
             e == Within(below, open, done, "string", text)
             q == Behind(below, open, Append(done, Str(text)))
  <1>4. Step(r, "'") = b BY TokenFacts
  <1>5. Step(e, "'") = q BY StringEnds
  <1>6. Reads(b, body, e) /\ body \in Seq(Symbols) BY Zenon DEF IsBody
  <1> HIDE DEF r, b, e, q
  <1>7. Reads(r, <<"'">>, b) /\ Reads(e, <<"'">>, q) BY <1>4, <1>5, ReadsOne
  <1>8. Reads(r, <<"'">> \o body, e) BY <1>1, <1>6, <1>7, ReadsBoth
  <1>9. Reads(r, (<<"'">> \o body) \o <<"'">>, q) BY <1>1, <1>7, <1>8, ReadsBoth
  <1> QED BY <1>2, <1>9 DEF r, q

(* The prefixes of a sequence.                                              *)
LEMMA PrefixFacts ==
    ASSUME NEW S, NEW s \in Seq(S)
    PROVE  /\ SubSeq(s, 1, 0) = <<>>
           /\ SubSeq(s, 1, Len(s)) = s
           /\ \A n \in 1..Len(s) :
                  /\ SubSeq(s, 1, n - 1) \in Seq(S)
                  /\ SubSeq(s, 1, n) = Append(SubSeq(s, 1, n - 1), s[n])
  <1>1. SubSeq(s, 1, 0) = <<>> /\ SubSeq(s, 1, Len(s)) = s
    BY SubSeqEmpty, SubSeqFull
  <1>2. ASSUME NEW n \in 1..Len(s)
        PROVE  /\ SubSeq(s, 1, n - 1) \in Seq(S)
               /\ SubSeq(s, 1, n) = Append(SubSeq(s, 1, n - 1), s[n])
    <2>1. /\ SubSeq(s, 1, n - 1) \in Seq(S)
          /\ Len(SubSeq(s, 1, n - 1)) = n - 1
          /\ \A i \in 1..(n - 1) : SubSeq(s, 1, n - 1)[i] = s[i]
      OBVIOUS
    <2>2. /\ SubSeq(s, 1, n) \in Seq(S)
          /\ Len(SubSeq(s, 1, n)) = n
          /\ \A i \in 1..n : SubSeq(s, 1, n)[i] = s[i]
      OBVIOUS
    <2> DEFINE a == Append(SubSeq(s, 1, n - 1), s[n])
               b == SubSeq(s, 1, n)
    <2>3. s[n] \in S BY ElementOfSeq
    <2>4. /\ a \in Seq(S) /\ Len(a) = n /\ a[n] = s[n]
          /\ \A i \in 1..(n - 1) : a[i] = s[i]
      BY <2>1, <2>3, AppendProperties
    <2>5. b \in Seq(S) /\ Len(b) = n /\ \A i \in 1..n : b[i] = s[i] BY <2>2
    <2> HIDE DEF a, b
    <2>6. \A i \in 1..n : i = n \/ i \in 1..(n - 1) OBVIOUS
    <2>7. \A i \in 1..n : b[i] = a[i] BY <2>4, <2>5, <2>6
    <2>8. b = a BY <2>4, <2>5, <2>7, SeqEqual
    <2> QED BY <2>1, <2>8 DEF a, b
  <1> QED BY <1>1, <1>2

NoBackslash(text) == \A i \in 1..Len(text) : text[i] # "\\"
NoNewline(text) == \A i \in 1..Len(text) : text[i] # "newline"
NoQuote(text) == \A i \in 1..Len(text) : text[i] # "'"

(* A text with nothing to escape tells itself between quotes.               *)
LEMMA TellsPlain ==
    ASSUME NEW V, NEW text \in Seq(Symbols), Str(text) \in V,
           NoBackslash(text), NoNewline(text), NoQuote(text)
    PROVE  Tells(V, Quoted(text), Str(text))
  <1>1. ASSUME NEW below \in Seq(Frames(V)), NEW open \in Kinds, NEW done \in Seq(V)
        PROVE  Reads(Within(below, open, done, "string", <<>>), text,
                     Within(below, open, done, "string", text))
    <2> DEFINE f == [n \in 0..Len(text) |->
                        Within(below, open, done, "string", SubSeq(text, 1, n))]
    <2>1. Len(text) \in Nat OBVIOUS
    <2>2. /\ f[0] = Within(below, open, done, "string", <<>>)
          /\ f[Len(text)] = Within(below, open, done, "string", text)
      <3>1. SubSeq(text, 1, 0) = <<>> /\ SubSeq(text, 1, Len(text)) = text
        BY PrefixFacts
      <3>2. 0 \in 0..Len(text) /\ Len(text) \in 0..Len(text) BY <2>1
      <3> QED BY <3>1, <3>2, Zenon
    <2>3. ASSUME NEW n \in 1..Len(text)
          PROVE  f[n] = Step(f[n - 1], text[n])
      <3>1. text[n] \notin {"'", "\\", "newline"}
        BY DEF NoBackslash, NoNewline, NoQuote
      <3>2. f[n] = Within(below, open, done, "string", Append(SubSeq(text, 1, n - 1), text[n]))
        <4>1. SubSeq(text, 1, n) = Append(SubSeq(text, 1, n - 1), text[n])
          BY PrefixFacts
        <4> QED BY <2>1, <4>1
      <3>3. f[n - 1] = Within(below, open, done, "string", SubSeq(text, 1, n - 1))
        BY <2>1
      <3> HIDE DEF f
      <3> QED BY <3>1, <3>2, <3>3, StringFacts
    <2>4. f = [n \in 0..Len(text) |-> f[n]] OBVIOUS
    <2> HIDE DEF f
    <2>5. IsRun(f, Within(below, open, done, "string", <<>>), text)
      BY <2>2, <2>3, <2>4 DEF IsRun
    <2> QED BY <2>2, <2>5 DEF Reads
  <1>2. IsBody(V, text, text) BY <1>1 DEF IsBody
  <1> QED BY <1>2, TellsQuoted

(* A text with only quotes to escape does once they are escaped.            *)
LEMMA TellsEscaped ==
    ASSUME NEW V, NEW text \in Seq(Symbols), Str(text) \in V,
           NoBackslash(text), NoNewline(text)
    PROVE  Tells(V, Quoted(escapeQuotes(text)), Str(text))
  <1> DEFINE Escape(c) == IF c = "'" THEN <<"\\", "'">> ELSE <<c>>
             seqs == [i \in DOMAIN text |-> Escape(text[i])]
  <1>1. \A c \in Symbols : Escape(c) \in Seq(Symbols)
    <2>1. "'" \in Symbols /\ "\\" \in Symbols BY Zenon DEF Symbols
    <2>2. <<"\\", "'">> \in Seq(Symbols) BY <2>1
    <2>3. \A c \in Symbols : <<c>> \in Seq(Symbols) BY OneSymbol
    <2> QED BY <2>2, <2>3
  <1>2. /\ Len(text) \in Nat /\ DOMAIN text = 1..Len(text)
        /\ \A i \in 1..Len(text) : text[i] \in Symbols
    OBVIOUS
  <1>3. /\ seqs \in Seq(Seq(Symbols))
        /\ Len(seqs) = Len(text)
        /\ \A i \in 1..Len(text) : seqs[i] = Escape(text[i])
    <2> HIDE DEF Escape
    <2> QED BY <1>1, <1>2
  <1>4. escapeQuotes(text) = FlattenSeq(seqs) BY DEF escapeQuotes
  <1> HIDE DEF seqs
  <1>5. ASSUME NEW below \in Seq(Frames(V)), NEW open \in Kinds, NEW done \in Seq(V)
        PROVE  Reads(Within(below, open, done, "string", <<>>), escapeQuotes(text),
                     Within(below, open, done, "string", text))
    <2> DEFINE W(mode, s) == Within(below, open, done, mode, s)
               R == [n \in 0..Len(text) |-> W("string", SubSeq(text, 1, n))]
    <2>1. R[0] = W("string", <<>>) /\ R[Len(text)] = W("string", text)
      <3>1. SubSeq(text, 1, 0) = <<>> /\ SubSeq(text, 1, Len(text)) = text
        BY PrefixFacts
      <3>2. 0 \in 0..Len(text) /\ Len(text) \in 0..Len(text) BY <1>2
      <3> QED BY <3>1, <3>2, Zenon
    <2>2. ASSUME NEW i \in 1..Len(text)
          PROVE  Reads(R[i - 1], Escape(text[i]), R[i])
      <3> DEFINE s == SubSeq(text, 1, i - 1)
      <3>1. R[i] = W("string", Append(s, text[i]))
        <4>1. SubSeq(text, 1, i) = Append(SubSeq(text, 1, i - 1), text[i])
          BY PrefixFacts
        <4>2. i \in 0..Len(text) BY <1>2
        <4> QED BY <4>1, <4>2, Zenon
      <3>2. R[i - 1] = W("string", s) BY <1>2
      <3>3. s \in Seq(Symbols) BY PrefixFacts
      <3> HIDE DEF R, s
      <3>4. CASE text[i] # "'"
        <4>1. text[i] \notin {"'", "\\", "newline"}
          BY <3>4 DEF NoBackslash, NoNewline
        <4>2. Step(R[i - 1], text[i]) = R[i] BY <3>1, <3>2, <4>1, StringFacts
        <4>3. Escape(text[i]) = <<text[i]>> BY <3>4
        <4> QED BY <4>2, <4>3, ReadsOne
      <3>5. CASE text[i] = "'"
        <4>1. Step(R[i - 1], "\\") = W("escape", s) BY <3>2, StringFacts
        <4>2. Append(s, text[i]) = s \o <<"'">> BY <3>3, <3>5
        <4>3. Step(W("escape", s), "'") = R[i] BY <3>1, <4>2, StringFacts
        <4>4. Reads(R[i - 1], <<"\\">>, W("escape", s)) BY <4>1, ReadsOne
        <4>5. Reads(W("escape", s), <<"'">>, R[i]) BY <4>3, ReadsOne
        <4>6. <<"\\">> \in Seq(Symbols) /\ <<"'">> \in Seq(Symbols)
          <5>1. "'" \in Symbols /\ "\\" \in Symbols BY Zenon DEF Symbols
          <5> QED BY <5>1, OneSymbol, Zenon
        <4> HIDE DEF W
        <4>7. Reads(R[i - 1], <<"\\">> \o <<"'">>, R[i])
          BY <4>4, <4>5, <4>6, ReadsBoth
        <4>8. \A a, b \in Symbols : <<a>> \o <<b>> = <<a, b>> BY TwoSymbols
        <4>9. <<"\\">> \o <<"'">> = Escape(text[i])
          <5>1. "'" \in Symbols /\ "\\" \in Symbols BY Zenon DEF Symbols
          <5> QED BY <3>5, <4>8, <5>1, Zenon
        <4> QED BY <4>7, <4>9
      <3> QED BY <3>4, <3>5
    <2>3. \A i \in 1..Len(seqs) : Reads(R[i - 1], seqs[i], R[i])
      BY <1>3, <2>2
    <2> HIDE DEF R, W
    <2>4. Reads(R[0], FlattenSeq(seqs), R[Len(seqs)])
      BY <1>3, <2>3, FlattenReads
    <2> QED BY <1>3, <1>4, <2>1, <2>4 DEF W
  <1>6. escapeQuotes(text) \in Seq(Symbols) BY <1>3, <1>4, FlattenType
  <1>7. IsBody(V, escapeQuotes(text), text) BY <1>5, <1>6 DEF IsBody
  <1> QED BY <1>7, TellsQuoted
-----------------------------------------------------------------------------
(* Lists and dictionaries.                                                  *)

(* A text that takes what a bracket has got so far one turn further.        *)
Advances(V, kind, text, from, to) ==
    /\ text \in Seq(Symbols)
    /\ \A below \in Seq(Frames(V)) :
           Reads(Before(below, kind, from), text, Behind(below, kind, to))

(* Behind all the texts but the last there is a comma.                      *)
LEMMA SeparatedFacts ==
    ASSUME NEW texts \in Seq(Seq(Symbols))
    PROVE  \E seqs \in Seq(Seq(Symbols)) :
               /\ Len(seqs) = Len(texts)
               /\ \A i \in 1..Len(texts) :
                      seqs[i] = IF i < Len(texts) THEN texts[i] \o <<Comma>> ELSE texts[i]
               /\ Separated(texts) = FlattenSeq(seqs)
  <1> DEFINE n == Len(texts)
             seqs == [i \in 1..n |-> IF i < n THEN Append(texts[i], Comma) ELSE texts[i]]
  <1>1. n \in Nat /\ DOMAIN texts = 1..n /\ \A i \in 1..n : texts[i] \in Seq(Symbols)
    OBVIOUS
  <1>2. Comma \in Symbols BY Zenon DEF Symbols, Comma
  <1>3. \A s \in Seq(Symbols) : /\ Append(s, Comma) \in Seq(Symbols)
                               /\ Append(s, Comma) = s \o <<Comma>>
    BY <1>2, AppendIsConcat
  <1>4. Separated(texts) = FlattenSeq(seqs) BY <1>1, Zenon DEF Separated, Comma
  <1> HIDE DEF n
  <1>5. seqs \in Seq(Seq(Symbols)) /\ Len(seqs) = n BY <1>1, <1>3
  <1>6. \A i \in 1..n : seqs[i] = IF i < n THEN texts[i] \o <<Comma>> ELSE texts[i]
    BY <1>1, <1>3
  <1> HIDE DEF seqs
  <1> QED BY <1>4, <1>5, <1>6 DEF n

(* Where a comma leaves the reader.                                         *)
Continues(q, r) == Step(q, Comma) = r

(* They are read turn by turn.                                              *)
LEMMA SeparatedReads ==
    ASSUME NEW texts \in Seq(Seq(Symbols)), NEW R, NEW Q,
           \A i \in 1..Len(texts) : Reads(R[i - 1], texts[i], Q[i]),
           \A i \in 1..Len(texts) : Continues(Q[i], R[i])
    PROVE  Reads(R[0], Separated(texts),
                 IF Len(texts) = 0 THEN R[0] ELSE Q[Len(texts)])
  <1> DEFINE n == Len(texts)
             T == [i \in 0..n |-> IF i = 0 \/ i < n THEN R[i] ELSE Q[i]]
  <1>1. PICK seqs \in Seq(Seq(Symbols)) :
            /\ Len(seqs) = Len(texts)
            /\ \A i \in 1..Len(texts) :
                   seqs[i] = IF i < Len(texts) THEN texts[i] \o <<Comma>> ELSE texts[i]
            /\ Separated(texts) = FlattenSeq(seqs)
    BY SeparatedFacts
  <1>2. n \in Nat /\ \A i \in 1..n : texts[i] \in Seq(Symbols) OBVIOUS
  <1>3. ASSUME NEW i \in 1..n PROVE Reads(T[i - 1], seqs[i], T[i])
    <2>1. T[i - 1] = R[i - 1] /\ (i < n => T[i] = R[i]) /\ (i = n => T[i] = Q[i])
      BY <1>2
    <2> HIDE DEF T
    <2>2. Reads(R[i - 1], texts[i], Q[i]) OBVIOUS
    <2>3. CASE i = n BY <1>1, <1>2, <2>1, <2>2, <2>3
    <2>4. CASE i < n
      <3>1. Reads(Q[i], <<Comma>>, R[i])
        <4>1. Step(Q[i], Comma) = R[i] BY DEF Continues
        <4> QED BY <4>1, ReadsOne
      <3>2. <<Comma>> \in Seq(Symbols)
        <4>1. Comma \in Symbols BY Zenon DEF Symbols, Comma
        <4> QED BY <4>1, OneSymbol
      <3>3. Reads(R[i - 1], texts[i] \o <<Comma>>, R[i])
        BY <1>2, <2>2, <3>1, <3>2, ReadsBoth
      <3> QED BY <1>1, <2>1, <2>4, <3>3
    <2> QED BY <1>2, <2>3, <2>4
  <1>4. T[0] = R[0] /\ T[n] = IF n = 0 THEN R[0] ELSE Q[n] BY <1>2
  <1> HIDE DEF T
  <1>5. Reads(T[0], FlattenSeq(seqs), T[Len(seqs)]) BY <1>1, <1>3, FlattenReads
  <1> QED BY <1>1, <1>4, <1>5

ArePair(b, c) == IsOpening(b) /\ IsClosing(c) /\ Kind(b) = Kind(c)

(* The first bracket is read where a value is awaited, the second ends one. *)
LEMMA PairReads ==
    ASSUME NEW V, NEW below \in Seq(Frames(V)), NEW open \in Kinds,
           NEW done \in Seq(V), NEW b, NEW c, ArePair(b, c),
           NEW parts \in Seq(V), IsPaired(Kind(c), parts),
           NEW q, IsInside(q, Above(below, open, done), Kind(c), parts)
    PROVE  /\ Reads(Before(below, open, done), <<b>>,
                    Before(Above(below, open, done), Kind(c), <<>>))
           /\ Reads(q, <<c>>,
                    Behind(below, open, Append(done, Python(Kind(c), <<>>, parts))))
  <1>1. IsOpening(b) /\ IsClosing(c) /\ Kind(b) = Kind(c) BY Zenon DEF ArePair
  <1>2. Step(Before(below, open, done), b)
            = Before(Above(below, open, done), Kind(c), <<>>)
    BY <1>1, OpenFacts
  <1>3. Step(q, c) = Behind(below, open, Append(done, Python(Kind(c), <<>>, parts)))
    <2>1. MayClose(V, below, open, done, c, parts) BY <1>1 DEF MayClose
    <2> QED BY <2>1, CloseFacts
  <1> QED BY <1>1, <1>2, <1>3, ReadsOne

(* Within brackets, turns that each advance tell a value of what is behind  *)
(* the last of them.                                                        *)
LEMMA TellsBracketed ==
    ASSUME NEW V, NEW b, NEW c, ArePair(b, c), NEW texts \in Seq(Seq(Symbols)),
           NEW D \in [0..Len(texts) -> Seq(V)], D[0] = <<>>,
           \A i \in 0..Len(texts) : IsPaired(Kind(c), D[i]),
           \A i \in 1..Len(texts) : Advances(V, Kind(c), texts[i], D[i - 1], D[i]),
           Python(Kind(c), <<>>, D[Len(texts)]) \in V
    PROVE  Tells(V, Bracketed(b, texts, c), Python(Kind(c), <<>>, D[Len(texts)]))
  <1> DEFINE n == Len(texts)
             kind == Kind(c)
             value == Python(kind, <<>>, D[n])
  <1>1. n \in Nat OBVIOUS
  <1>2. b \in Symbols /\ c \in Symbols /\ kind \in Kinds /\ kind # "line"
    <2>1. "[" \in Symbols /\ "]" \in Symbols /\ "{" \in Symbols /\ "}" \in Symbols
      BY Zenon DEF Symbols
    <2>2. b \in Symbols /\ c \in Symbols BY <2>1, Zenon DEF ArePair, IsOpening, IsClosing
    <2>3. kind \in {"list", "dict"} BY Zenon DEF ArePair, IsOpening, IsClosing, Kind
    <2>4. kind \in Kinds /\ kind # "line" BY <2>3, Zenon DEF Kinds
    <2> QED BY <2>2, <2>4
  <1>3. /\ <<b>> \in Seq(Symbols) /\ <<c>> \in Seq(Symbols)
        /\ Separated(texts) \in Seq(Symbols)
    <2>1. <<b>> \in Seq(Symbols) /\ <<c>> \in Seq(Symbols) BY <1>2, OneSymbol
    <2>2. Separated(texts) \in Seq(Symbols) BY SeparatedFacts, FlattenType
    <2> QED BY <2>1, <2>2
  <1>4. Bracketed(b, texts, c) = (<<b>> \o Separated(texts)) \o <<c>>
    BY <1>3, ConcatAssociative DEF Bracketed
  <1>5. Bracketed(b, texts, c) \in Seq(Symbols) BY <1>3, <1>4, ConcatProperties
  <1> SUFFICES ASSUME NEW below \in Seq(Frames(V)), NEW open \in Kinds,
                      NEW done \in Seq(V)
               PROVE  Reads(Before(below, open, done), Bracketed(b, texts, c),
                            Behind(below, open, Append(done, value)))
    BY <1>5 DEF Tells
  <1> DEFINE outer == Above(below, open, done)
             R == [i \in 0..n |-> Before(outer, kind, D[i])]
             Q == [i \in 0..n |-> Behind(outer, kind, D[i])]
  <1>6. outer \in Seq(Frames(V)) BY TopFacts
  <1> HIDE DEF outer, kind, value, n
  <1>7. ASSUME NEW i \in 1..n
        PROVE  Reads(R[i - 1], texts[i], Q[i]) /\ Continues(Q[i], R[i])
    <2>0. D \in [0..n -> Seq(V)] BY DEF n
    <2>1. i \in 0..n /\ i - 1 \in 0..n /\ D[i] \in Seq(V) BY <1>1, <2>0
    <2>2. Advances(V, kind, texts[i], D[i - 1], D[i]) BY DEF n, kind
    <2>3. Reads(R[i - 1], texts[i], Q[i]) BY <1>6, <2>1, <2>2 DEF Advances
    <2>4. IsPaired(kind, D[i]) BY <2>1 DEF n, kind
    <2>5. Continues(Behind(outer, kind, D[i]), Before(outer, kind, D[i]))
      BY <1>2, <1>6, <2>1, <2>4, SeparatorFacts DEF Continues
    <2> QED BY <2>1, <2>3, <2>5
  <1>8. Reads(R[0], Separated(texts), IF n = 0 THEN R[0] ELSE Q[n])
    <2> HIDE DEF R, Q
    <2> QED BY <1>7, SeparatedReads DEF n
  <1>9. 0 \in 0..n /\ n \in 0..n /\ D[n] \in Seq(V)
    <2>1. D \in [0..n -> Seq(V)] BY DEF n
    <2> QED BY <1>1, <2>1
  <1>10. IsPaired(kind, D[n]) BY <1>9 DEF n, kind
  <1>11. /\ Reads(Before(below, open, done), <<b>>, Before(outer, kind, <<>>))
         /\ \A q : IsInside(q, outer, kind, D[n]) =>
                Reads(q, <<c>>, Behind(below, open, Append(done, value)))
    BY <1>9, <1>10, PairReads DEF outer, kind, value
  <1>12. Reads(IF n = 0 THEN R[0] ELSE Q[n], <<c>>,
               Behind(below, open, Append(done, value)))
    <2>1. R[n] = Before(outer, kind, D[n]) /\ Q[n] = Behind(outer, kind, D[n])
      BY <1>9
    <2> HIDE DEF R, Q
    <2>2. IsInside(R[n], outer, kind, D[n]) /\ IsInside(Q[n], outer, kind, D[n])
      BY <2>1 DEF IsInside
    <2>3. R[0] = R[n] \/ n # 0 OBVIOUS
    <2> QED BY <1>11, <2>2, <2>3
  <1>13. R[0] = Before(outer, kind, <<>>) BY <1>9
  <1> HIDE DEF R, Q
  <1>14. Reads(Before(below, open, done), <<b>> \o Separated(texts),
               IF n = 0 THEN R[0] ELSE Q[n])
    BY <1>3, <1>8, <1>11, <1>13, ReadsBoth
  <1>15. <<b>> \o Separated(texts) \in Seq(Symbols) BY <1>3, ConcatProperties
  <1> QED BY <1>3, <1>4, <1>12, <1>14, <1>15, ReadsBoth

(* A list of texts that each tell a value tells the list of the values.     *)
LEMMA ListTells ==
    ASSUME NEW V, NEW texts \in Seq(Seq(Symbols)), NEW values \in Seq(V),
           Len(values) = Len(texts), List(values) \in V,
           \A i \in 1..Len(texts) : Tells(V, texts[i], values[i])
    PROVE  Tells(V, Bracketed("[", texts, "]"), List(values))
  <1> DEFINE n == Len(texts)
             D == [i \in 0..n |-> SubSeq(values, 1, i)]
             open == "["
             close == "]"
  <1>1. n \in Nat /\ Len(values) = n OBVIOUS
  <1>2. ArePair(open, close) /\ Kind(close) = "list" /\ "list" \in Kinds
    BY Zenon DEF ArePair, IsOpening, IsClosing, Kind, Kinds
  <1>3. \A i \in 0..n : D[i] \in Seq(V) /\ IsPaired("list", D[i])
    BY <1>1 DEF IsPaired
  <1>4. D[0] = <<>> /\ D[n] = values
    <2>1. SubSeq(values, 1, 0) = <<>> /\ SubSeq(values, 1, n) = values
      BY <1>1, PrefixFacts
    <2>2. 0 \in 0..n /\ n \in 0..n BY <1>1
    <2> QED BY <2>1, <2>2, Zenon
  <1>5. ASSUME NEW i \in 1..n PROVE Advances(V, "list", texts[i], D[i - 1], D[i])
    <2>1. D[i] = Append(D[i - 1], values[i])
      <3>1. SubSeq(values, 1, i) = Append(SubSeq(values, 1, i - 1), values[i])
        BY <1>1, PrefixFacts
      <3>2. i \in 0..n /\ i - 1 \in 0..n BY <1>1
      <3> QED BY <3>1, <3>2, Zenon
    <2>2. D[i - 1] \in Seq(V) BY <1>1, <1>3
    <2> HIDE DEF D
    <2>3. Tells(V, texts[i], values[i]) OBVIOUS
    <2> QED BY <1>2, <2>1, <2>2, <2>3 DEF Tells, Advances
  <1>6. D \in [0..n -> Seq(V)] BY <1>3
  <1>7. Python("list", <<>>, D[n]) = List(values) BY <1>4 DEF List
  <1> HIDE DEF D, open, close
  <1>8. Tells(V, Bracketed(open, texts, close), Python(Kind(close), <<>>, D[Len(texts)]))
    BY <1>2, <1>3, <1>4, <1>5, <1>6, <1>7, TellsBracketed
  <1> QED BY <1>2, <1>7, <1>8 DEF open, close

(* A turn of a dictionary: a key and its value.                             *)
TellsPair(V, text, key, value) ==
    /\ text \in Seq(Symbols) /\ Str(key) \in V /\ value \in V
    /\ \A done \in Seq(V) :
           IsPaired("dict", done) =>
               Advances(V, "dict", text, done, done \o <<Str(key), value>>)

(* Two values at the end.                                                   *)
LEMMA AppendTwo ==
    ASSUME NEW V, NEW s \in Seq(V), NEW a \in V, NEW b \in V
    PROVE  /\ Append(s, a) \in Seq(V)
           /\ Append(Append(s, a), b) = s \o <<a, b>>
           /\ s \o <<a, b>> \in Seq(V)
           /\ Len(Append(s, a)) = Len(s) + 1
           /\ Len(s \o <<a, b>>) = Len(s) + 2
  <1>1. Append(s, a) \in Seq(V) /\ Len(Append(s, a)) = Len(s) + 1 OBVIOUS
  <1>2. Append(s, a) = s \o <<a>> BY AppendIsConcat
  <1>3. Append(Append(s, a), b) = (s \o <<a>>) \o <<b>>
    BY <1>1, <1>2, AppendIsConcat
  <1>4. <<a>> \in Seq(V) /\ <<b>> \in Seq(V) BY OneSymbol
  <1>5. (s \o <<a>>) \o <<b>> = s \o (<<a>> \o <<b>>) BY <1>4, ConcatAssociative
  <1>6. <<a>> \o <<b>> = <<a, b>> BY TwoSymbols
  <1>7. <<a, b>> \in Seq(V) /\ Len(<<a, b>>) = 2 OBVIOUS
  <1>8. s \o <<a, b>> \in Seq(V) /\ Len(s \o <<a, b>>) = Len(s) + 2
    BY <1>7, ConcatProperties
  <1> QED BY <1>1, <1>3, <1>5, <1>6, <1>8

(* A key in quotes, a colon and a text that tells the value.                *)
LEMMA PairTells ==
    ASSUME NEW V, NEW key, NEW text, NEW value,
           Tells(V, Quoted(key), Str(key)), Tells(V, text, value)
    PROVE  TellsPair(V, Quoted(key) \o <<Colon>> \o text, key, value)
  <1> DEFINE k == Quoted(key)
             colon == <<Colon>>
             name == Str(key)
  <1>1. /\ k \in Seq(Symbols) /\ text \in Seq(Symbols)
        /\ name \in V /\ value \in V
    BY DEF Tells
  <1>2. colon \in Seq(Symbols)
    <2>1. Colon \in Symbols BY Zenon DEF Symbols, Colon
    <2> QED BY <2>1, OneSymbol
  <1>3. "dict" \in Kinds BY Zenon DEF Kinds
  <1>4. Tells(V, k, name) OBVIOUS
  <1>5. \A r : Reads(r, colon, Step(r, Colon)) BY ReadsOne
  <1> HIDE DEF k, name, colon
  <1>6. k \o colon \in Seq(Symbols) /\ k \o colon \o text \in Seq(Symbols)
    BY <1>1, <1>2, ConcatProperties
  <1>7. ASSUME NEW done \in Seq(V), IsPaired("dict", done),
               NEW below \in Seq(Frames(V))
        PROVE  Reads(Before(below, "dict", done), k \o colon \o text,
                     Behind(below, "dict", done \o <<name, value>>))
    <2> DEFINE one == Append(done, name)
               two == Append(one, value)
    <2>1. /\ one \in Seq(V) /\ Len(one) = Len(done) + 1
          /\ two = done \o <<name, value>>
      BY <1>1, AppendTwo
    <2>2. Len(done) % 2 = 0 BY <1>7 DEF IsPaired
    <2>3. Len(one) % 2 = 1
      <3>1. \A x \in Nat : x % 2 = 0 => (x + 1) % 2 = 1 OBVIOUS
      <3>2. Len(done) \in Nat OBVIOUS
      <3> HIDE DEF one
      <3> QED BY <2>1, <2>2, <3>1, <3>2
    <2>4. Reads(Before(below, "dict", done), k, Behind(below, "dict", one))
      BY <1>3, <1>4 DEF Tells
    <2>5. Step(Behind(below, "dict", one), Colon) = Before(below, "dict", one)
      <3> HIDE DEF one
      <3> QED BY <1>3, <2>1, <2>3, SeparatorFacts
    <2>6. Reads(Behind(below, "dict", one), colon, Before(below, "dict", one))
      BY <1>5, <2>5
    <2>7. Reads(Before(below, "dict", one), text, Behind(below, "dict", two))
      BY <1>3, <2>1 DEF Tells
    <2> HIDE DEF one, two
    <2>8. Reads(Before(below, "dict", done), k \o colon, Before(below, "dict", one))
      BY <1>1, <1>2, <2>4, <2>6, ReadsBoth
    <2>9. Reads(Before(below, "dict", done), k \o colon \o text,
                Behind(below, "dict", two))
      BY <1>1, <1>6, <2>7, <2>8, ReadsBoth
    <2> QED BY <2>1, <2>9
  <1>8. TellsPair(V, k \o colon \o text, key, value)
    BY <1>1, <1>6, <1>7 DEF TellsPair, Advances, name
  <1> QED BY <1>8 DEF k, colon

ArePairs(D, V, names, values) ==
    /\ D \in [0..Len(names) -> Seq(V)]
    /\ D[0] = <<>>
    /\ \A i \in 0..Len(names) : IsPaired("dict", D[i])
    /\ \A i \in 1..Len(names) : D[i] = D[i - 1] \o <<Str(names[i]), values[i]>>

(* What a dictionary has got behind each of its turns.                      *)
LEMMA PairPrefixes ==
    ASSUME NEW V, NEW names, NEW values, Len(names) \in Nat,
           DOMAIN names = 1..Len(names),
           \A i \in 1..Len(names) : Str(names[i]) \in V /\ values[i] \in V
    PROVE  \E D : /\ ArePairs(D, V, names, values)
                  /\ Pairs(names, values) = Dict(D[Len(names)])
  <1> DEFINE n == Len(names)
             seqs == [i \in DOMAIN names |-> <<Str(names[i]), values[i]>>]
  <1>1. /\ seqs \in Seq(Seq(V)) /\ Len(seqs) = n
        /\ \A i \in 1..n : seqs[i] = <<Str(names[i]), values[i]>>
    OBVIOUS
  <1>2. Pairs(names, values) = Dict(FlattenSeq(seqs)) BY DEF Pairs
  <1> HIDE DEF seqs
  <1>3. PICK D : ArePrefixes(D, V, seqs) /\ D[Len(seqs)] = FlattenSeq(seqs)
    BY <1>1, FlattenPrefixes
  <1>4. /\ D \in [0..n -> Seq(V)] /\ D[0] = <<>>
        /\ \A i \in 1..n : D[i] = D[i - 1] \o <<Str(names[i]), values[i]>>
    BY <1>1, <1>3 DEF ArePrefixes
  <1> HIDE DEF n
  <1> DEFINE S == {i \in Nat : i <= n => IsPaired("dict", D[i])}
  <1>5. 0 \in S
    <2>1. Len(<<>>) % 2 = 0 OBVIOUS
    <2>2. IsPaired("dict", <<>>) BY <2>1 DEF IsPaired
    <2> QED BY <1>4, <2>2
  <1>6. ASSUME NEW i \in Nat, i \in S PROVE i + 1 \in S
    <2>1. SUFFICES ASSUME i + 1 <= n PROVE IsPaired("dict", D[i + 1]) OBVIOUS
    <2>2. n \in Nat BY DEF n
    <2>3. i + 1 \in 1..n /\ (i + 1) - 1 = i /\ i \in 0..n BY <2>1, <2>2
    <2>4. IsPaired("dict", D[i]) BY <1>6, <2>3
    <2>5. D[i] \in Seq(V) BY <1>4, <2>3
    <2>6. Str(names[i + 1]) \in V /\ values[i + 1] \in V BY <2>3 DEF n
    <2>7. D[i + 1] = D[i] \o <<Str(names[i + 1]), values[i + 1]>>
      BY <1>4, <2>3
    <2>8. Len(D[i + 1]) = Len(D[i]) + 2 /\ Len(D[i]) \in Nat
      BY <2>5, <2>6, <2>7, AppendTwo
    <2>9. \A x \in Nat : x % 2 = 0 => (x + 2) % 2 = 0 OBVIOUS
    <2> QED BY <2>4, <2>8, <2>9 DEF IsPaired
  <1>7. \A i \in Nat : i \in S
    <2> HIDE DEF S
    <2> QED BY <1>5, <1>6, SetInduction
  <1>8. \A i \in 0..n : IsPaired("dict", D[i])
    <2>1. n \in Nat BY DEF n
    <2> QED BY <1>7, <2>1
  <1>9. ArePairs(D, V, names, values) BY <1>4, <1>8 DEF ArePairs, n
  <1> QED BY <1>1, <1>2, <1>3, <1>9 DEF n

LeftBrace == "{"
RightBrace == "}"

(* Turns that each tell a pair tell the dictionary of the pairs.            *)
LEMMA DictTells ==
    ASSUME NEW V, NEW texts \in Seq(Seq(Symbols)), NEW names, NEW values,
           Len(names) = Len(texts), DOMAIN names = 1..Len(names),
           Pairs(names, values) \in V,
           \A i \in 1..Len(texts) : TellsPair(V, texts[i], names[i], values[i])
    PROVE  Tells(V, Bracketed(LeftBrace, texts, RightBrace), Pairs(names, values))
  <1>1. Len(names) \in Nat OBVIOUS
  <1>2. \A i \in 1..Len(names) : Str(names[i]) \in V /\ values[i] \in V
    BY DEF TellsPair
  <1>3. PICK D : /\ ArePairs(D, V, names, values)
                 /\ Pairs(names, values) = Dict(D[Len(names)])
    BY <1>1, <1>2, PairPrefixes
  <1>4. ArePair(LeftBrace, RightBrace) /\ Kind(RightBrace) = "dict"
    BY Zenon DEF ArePair, IsOpening, IsClosing, Kind, LeftBrace, RightBrace
  <1>5. ASSUME NEW i \in 1..Len(texts)
        PROVE  Advances(V, "dict", texts[i], D[i - 1], D[i])
    <2>1. i - 1 \in 0..Len(names) BY <1>1
    <2>2. D[i - 1] \in Seq(V) /\ IsPaired("dict", D[i - 1])
      BY <1>3, <2>1 DEF ArePairs
    <2>3. D[i] = D[i - 1] \o <<Str(names[i]), values[i]>> BY <1>3 DEF ArePairs
    <2>4. TellsPair(V, texts[i], names[i], values[i]) OBVIOUS
    <2> QED BY <2>2, <2>3, <2>4 DEF TellsPair
  <1>6. Python("dict", <<>>, D[Len(texts)]) = Pairs(names, values)
    BY <1>3 DEF Dict
  <1>7. /\ D \in [0..Len(texts) -> Seq(V)] /\ D[0] = <<>>
        /\ \A i \in 0..Len(texts) : IsPaired("dict", D[i])
    BY <1>3 DEF ArePairs
  <1> QED BY <1>4, <1>5, <1>6, <1>7, TellsBracketed
-----------------------------------------------------------------------------
(* The texts of a message.                                                  *)

(* The number is where the first "%d" was.                                  *)
LEMMA ReplacedFacts ==
    ASSUME NEW body, IsScalar(body), IsNumbered(body)
    PROVE  \E at \in Nat :
               \A n : Replaced(body, n).text[at + 1] = Decimals[n]
  <1> DEFINE at == Find(body.text, <<"%d">>, 0)
  <1>1. body.text \in Seq(STRING) BY DEF IsScalar
  <1>2. at \in 0..(Len(body.text) - 1)
    <2>1. \/ at = NPOS
          \/ at \in 0..(Len(body.text) - 1)
      BY <1>1, FindFacts, Zenon
    <2>2. at # NPOS BY DEF IsNumbered, Has
    <2> QED BY <2>1, <2>2
  <1> DEFINE before == Substr(body.text, 0, at)
             rest == From(body.text, at + 1)
             text(n) == before \o <<Decimals[n]>> \o rest
  <1>3. \A n : Replaced(body, n).text = text(n)
    <2>1. DOMAIN body = {"type", "text", "keys", "parts"} BY DEF IsScalar
    <2>2. \A n : Replaced(body, n) = [body EXCEPT !.text = text(n)]
      BY Zenon DEF Replaced
    <2> HIDE DEF text
    <2> QED BY <2>1, <2>2, Zenon
  <1> HIDE DEF at
  <1>4. before \in Seq(STRING) /\ Len(before) = at
    <2>1. before = SubSeq(body.text, 1, at) BY <1>1, <1>2, SubstrFacts
    <2>2. \A i \in 1..at : body.text[i] \in STRING BY <1>1, <1>2
    <2> QED BY <1>1, <1>2, <2>1, <2>2, SubSeqProperties
  <1>5. rest \in Seq(STRING)
    <2>1. \A i \in (at + 1 + 1)..Len(body.text) : body.text[i] \in STRING BY <1>1, <1>2
    <2> QED BY <1>1, <1>2, <2>1, SubSeqProperties DEF From
  <1> HIDE DEF before, rest
  <1>6. ASSUME NEW n PROVE text(n)[at + 1] = Decimals[n]
    <2> DEFINE S == STRING \union {Decimals[n]}
               word == <<Decimals[n]>>
    <2>1. before \in Seq(S) /\ rest \in Seq(S) /\ Decimals[n] \in S
      BY <1>4, <1>5
    <2>2. word \in Seq(S) /\ Len(word) = 1 /\ word[1] = Decimals[n] BY <2>1
    <2> HIDE DEF S, word
    <2> DEFINE both == before \o word
    <2>3. both \in Seq(S) /\ Len(both) = at + 1 /\ both[at + 1] = Decimals[n]
      BY <1>2, <1>4, <2>1, <2>2, ConcatProperties
    <2> HIDE DEF both
    <2>4. (both \o rest)[at + 1] = Decimals[n]
      BY <1>2, <2>1, <2>3, ConcatProperties
    <2> QED BY <2>4 DEF word, both
  <1>7. at \in Nat BY <1>2
  <1> HIDE DEF text
  <1> QED BY <1>3, <1>6, <1>7

-----------------------------------------------------------------------------
(* What the parts of a line tell.                                           *)

Scalars == {Str(text) : text \in Seq(Symbols)} \union {Raw(word) : word \in RawWords}
Flat ==
    Scalars \union {List(parts) : parts \in Seq(Scalars)}
            \union {Dict(parts) : parts \in Seq(Scalars)}
PyValues == Flat \union {Dict(parts) : parts \in Seq(Flat)}

TellsScalar(text, value) == value \in Scalars /\ Tells(PyValues, text, value)
TellsFlat(text, value) == value \in Flat /\ Tells(PyValues, text, value)

(* Texts and words are values.                                              *)
LEMMA ScalarTypes ==
    /\ \A text \in Seq(Symbols) : Str(text) \in Scalars /\ Str(text) \in PyValues
    /\ \A word \in RawWords : Raw(word) \in Scalars /\ Raw(word) \in PyValues
  <1>1. \A text \in Seq(Symbols) : Str(text) \in Scalars BY Zenon DEF Scalars
  <1>2. \A word \in RawWords : Raw(word) \in Scalars BY Zenon DEF Scalars
  <1>3. \A v \in Scalars : v \in PyValues BY Zenon DEF PyValues, Flat
  <1> QED BY <1>1, <1>2, <1>3

(* So are the lists and dictionaries of them.                               *)
LEMMA FlatTypes ==
    /\ Scalars \subseteq Flat /\ Flat \subseteq PyValues
    /\ \A parts \in Seq(Scalars) : List(parts) \in Flat /\ Dict(parts) \in Flat
    /\ \A parts \in Seq(Flat) : Dict(parts) \in PyValues
  <1>1. \A parts \in Seq(Scalars) : List(parts) \in Flat /\ Dict(parts) \in Flat
    BY Zenon DEF Flat
  <1>2. \A parts \in Seq(Flat) : Dict(parts) \in PyValues BY Zenon DEF PyValues
  <1>3. Scalars \subseteq Flat /\ Flat \subseteq PyValues BY Zenon DEF PyValues, Flat
  <1> QED BY <1>1, <1>2, <1>3

(* A number tells itself,                                                   *)
LEMMA WordTells ==
    ASSUME NEW text \in Words
    PROVE  TellsScalar(text, Raw(text[1]))
  <1>1. PICK word \in RawWords : text = <<word>> BY DEF Words
  <1>2. text[1] = word BY <1>1
  <1>3. Raw(word) \in Scalars /\ Raw(word) \in PyValues BY ScalarTypes
  <1>4. Tells(PyValues, <<word>>, Raw(word)) BY <1>3, TellsWord
  <1> QED BY <1>1, <1>2, <1>3, <1>4 DEF TellsScalar

(* and so do None, True and False.                                          *)
LEMMA NoneTells == TellsScalar(<<"None">>, Raw("None"))
  <1>1. "None" \in RawWords BY RawWordsAssumption, Zenon
  <1>2. Raw("None") \in Scalars /\ Raw("None") \in PyValues BY <1>1, ScalarTypes
  <1>3. Tells(PyValues, <<"None">>, Raw("None")) BY <1>1, <1>2, TellsWord
  <1> QED BY <1>2, <1>3 DEF TellsScalar

(* A Boolean is told by the word for it.                                    *)
LEMMA BoolTells ==
    ASSUME NEW b
    PROVE  TellsScalar(formatBool(b), Word(b))
  <1> DEFINE word == IF b THEN "True" ELSE "False"
  <1>1. word \in RawWords BY RawWordsAssumption, Zenon
  <1>2. formatBool(b) = <<word>> /\ Word(b) = Raw(word)
    BY Zenon DEF formatBool, Word
  <1> HIDE DEF word
  <1>3. Raw(word) \in Scalars /\ Raw(word) \in PyValues BY <1>1, ScalarTypes
  <1>4. Tells(PyValues, <<word>>, Raw(word)) BY <1>1, <1>3, TellsWord
  <1> QED BY <1>2, <1>3, <1>4 DEF TellsScalar

(* A text of a message is one of symbols.                                   *)
LEMMA TextSymbols == Seq(STRING) \subseteq Seq(Symbols)
  <1>1. STRING \subseteq Symbols BY Zenon DEF Symbols
  <1> QED BY <1>1, SeqMonotonic

(* A text is told between quotes if it has none,                            *)
LEMMA PlainTells ==
    ASSUME NEW text \in Seq(STRING), ~Unescaped(text)
    PROVE  TellsScalar(Quoted(text), Str(text))
  <1>1. text \in Seq(Symbols) BY TextSymbols
  <1>2. Str(text) \in Scalars /\ Str(text) \in PyValues BY <1>1, ScalarTypes
  <1>3. NoQuote(text) /\ NoBackslash(text) /\ NoNewline(text)
    BY HasFacts DEF Unescaped, NeverEscaped, NoQuote, NoBackslash, NoNewline
  <1>4. Tells(PyValues, Quoted(text), Str(text)) BY <1>1, <1>2, <1>3, TellsPlain
  <1> QED BY <1>2, <1>4 DEF TellsScalar

(* or once they are escaped.                                                *)
LEMMA EscapedTells ==
    ASSUME NEW text \in Seq(STRING), ~NeverEscaped(text)
    PROVE  TellsScalar(Quoted(escapeQuotes(text)), Str(text))
  <1>1. text \in Seq(Symbols) BY TextSymbols
  <1>2. Str(text) \in Scalars /\ Str(text) \in PyValues BY <1>1, ScalarTypes
  <1>3. NoBackslash(text) /\ NoNewline(text)
    BY HasFacts DEF NeverEscaped, NoBackslash, NoNewline
  <1>4. Tells(PyValues, Quoted(escapeQuotes(text)), Str(text))
    BY <1>1, <1>2, <1>3, TellsEscaped
  <1> QED BY <1>2, <1>4 DEF TellsScalar

(* What tells a value is not empty.                                         *)
LEMMA TellsSomething ==
    ASSUME NEW V, NEW text, NEW value, Tells(V, text, value)
    PROVE  text # <<>>
  <1> DEFINE r == Before(<<>>, "line", <<>>)
             q == Behind(<<>>, "line", Append(<<>>, value))
  <1> SUFFICES ASSUME text = <<>> PROVE FALSE OBVIOUS
  <1>1. "line" \in Kinds BY Zenon DEF Kinds
  <1>2. <<>> \in Seq(Frames(V)) /\ <<>> \in Seq(V) OBVIOUS
  <1>3. Reads(r, <<>>, q) BY <1>1, <1>2 DEF Tells
  <1>4. r.awaits /\ ~q.awaits BY DEF Before, Behind, Reader
  <1> HIDE DEF r, q
  <1>5. r = q BY <1>3 DEF Reads, IsRun
  <1> QED BY <1>4, <1>5

(* An empty text stays empty if its quotes are escaped, and no other gets so. *)
LEMMA EscapedEmpty ==
    ASSUME NEW text \in Seq(STRING)
    PROVE  escapeQuotes(text) = <<>> <=> text = <<>>
  <1> DEFINE seqs == [i \in DOMAIN text |->
                         IF text[i] = "'" THEN <<"\\", "'">> ELSE <<text[i]>>]
  <1>1. escapeQuotes(text) = FlattenSeq(seqs) BY DEF escapeQuotes
  <1>2. CASE text = <<>>
    <2>1. seqs = <<>> BY <1>2
    <2>2. <<>> \in Seq(Seq(Symbols)) /\ Len(<<>>) = 0 OBVIOUS
    <2>3. FlattenSeq(<<>>) = <<>>
      <3>1. PICK D : ArePrefixes(D, Symbols, <<>>) /\ D[Len(<<>>)] = FlattenSeq(<<>>)
        BY <2>2, FlattenPrefixes
      <3> QED BY <2>2, <3>1 DEF ArePrefixes
    <2> QED BY <1>1, <1>2, <2>1, <2>3
  <1>3. CASE text # <<>>
    <2>1. Len(text) \in Nat /\ Len(text) # 0 /\ DOMAIN text = 1..Len(text) BY <1>3
    <2>2. ASSUME NEW i \in 1..Len(text)
          PROVE  seqs[i] \in Seq(Symbols) /\ Len(seqs[i]) \in {1, 2}
      <3>1. text[i] \in Symbols
        <4>1. text[i] \in STRING OBVIOUS
        <4> QED BY <4>1, Zenon DEF Symbols
      <3>2. "'" \in Symbols /\ "\\" \in Symbols BY Zenon DEF Symbols
      <3>3. /\ <<"\\", "'">> \in Seq(Symbols) /\ Len(<<"\\", "'">>) = 2
            /\ <<text[i]>> \in Seq(Symbols) /\ Len(<<text[i]>>) = 1
        BY <3>1, <3>2
      <3> QED BY <2>1, <3>3
    <2>3. seqs \in Seq(Seq(Symbols)) /\ Len(seqs) = Len(text)
      <3>1. seqs = [i \in 1..Len(text) |-> seqs[i]] BY <2>1
      <3> HIDE DEF seqs
      <3> QED BY <2>1, <2>2, <3>1
    <2> HIDE DEF seqs
    <2> DEFINE n == Len(text)
    <2>4. PICK D : ArePrefixes(D, Symbols, seqs) /\ D[Len(seqs)] = FlattenSeq(seqs)
      BY <2>3, FlattenPrefixes
    <2>5. n \in 1..n /\ n - 1 \in 0..n BY <2>1
    <2>6. D[n] = D[n - 1] \o seqs[n] /\ D[n - 1] \in Seq(Symbols)
      BY <2>3, <2>4, <2>5 DEF ArePrefixes
    <2>7. Len(D[n]) > 0
      <3>1. Len(D[n - 1]) \in Nat BY <2>6
      <3>2. Len(D[n]) = Len(D[n - 1]) + Len(seqs[n]) BY <2>2, <2>5, <2>6, ConcatProperties
      <3>3. Len(seqs[n]) = 1 \/ Len(seqs[n]) = 2 BY <2>2, <2>5
      <3> DEFINE x == Len(D[n - 1])
                 y == Len(seqs[n])
      <3>4. x \in Nat /\ (y = 1 \/ y = 2) /\ Len(D[n]) = x + y BY <3>1, <3>2, <3>3
      <3> HIDE DEF x, y, n
      <3> QED BY <3>4
    <2>8. D[n] # <<>> BY <2>7
    <2> QED BY <1>1, <1>3, <2>3, <2>4, <2>8
  <1> QED BY <1>2, <1>3

(* An empty text of the header is told as None.                             *)
LEMMA ToldTells ==
    ASSUME NEW text \in Seq(STRING), ~Unescaped(text)
    PROVE  TellsScalar(IF text = <<>> THEN <<"None">> ELSE Quoted(text), Told(text))
  BY NoneTells, PlainTells, Zenon DEF Told

(* What the dict format shows of a scalar but a null.                       *)
LEMMA DecodeTells ==
    ASSUME NEW v, IsScalar(v), PlainScalar(v), v.type # "NULL", log_msgs = "dict"
    PROVE  TellsScalar(decodeValue(v), ScalarMeaning(v))
  <1>1. v.text \in Seq(STRING) /\ v.type \notin Compound /\ PlainText(v)
    BY DEF IsScalar, PlainScalar
  <1>2. CASE v.type = "STRING"
    <2>1. decodeValue(v) = Quoted(escapeQuotes(v.text))
      BY <1>2, Zenon DEF decodeValue, Compound, DictNumbers
    <2>2. ScalarMeaning(v) = Str(v.text) BY <1>2, Zenon DEF ScalarMeaning
    <2>3. ~NeverEscaped(v.text) BY <1>1, <1>2 DEF PlainText
    <2> QED BY <1>1, <2>1, <2>2, <2>3, EscapedTells
  <1>3. CASE v.type \in DictNumbers
    <2>1. decodeValue(v) = v.text
      BY <1>1, <1>3, Zenon DEF decodeValue, Compound, DictNumbers
    <2>2. ScalarMeaning(v) = Raw(v.text[1])
      BY <1>3, Zenon DEF ScalarMeaning, DictNumbers
    <2>3. v.text \in Words BY <1>3, Zenon DEF IsScalar, DictNumbers, InteropNumbers
    <2> QED BY <2>1, <2>2, <2>3, WordTells
  <1>4. CASE v.type = "BOOLEAN"
    <2>1. decodeValue(v) = formatBool(v.text = <<"true">>)
      BY <1>4, Zenon DEF decodeValue, Compound, DictNumbers
    <2>2. ScalarMeaning(v) = Word(v.text = <<"true">>)
      BY <1>4, Zenon DEF ScalarMeaning
    <2> QED BY <2>1, <2>2, BoolTells
  <1>5. CASE v.type \notin {"STRING", "BOOLEAN"} \union DictNumbers
    <2>1. decodeValue(v) = Quoted(v.text)
      BY <1>1, <1>5, Zenon DEF decodeValue
    <2>2. ScalarMeaning(v) = Str(v.text)
      BY <1>5, Zenon DEF ScalarMeaning, DictNumbers
    <2>3. ~Unescaped(v.text) BY <1>1, <1>5 DEF PlainText
    <2> QED BY <1>1, <2>1, <2>2, <2>3, PlainTells
  <1> QED BY <1>2, <1>3, <1>4, <1>5

(* What the interop format shows of a scalar.                               *)
LEMMA ScalarTextTells ==
    ASSUME NEW v, IsScalar(v), PlainScalar(v), log_msgs = "interop"
    PROVE  TellsScalar(ScalarText(v), ScalarMeaning(v))
  <1>1. v.text \in Seq(STRING) /\ PlainText(v) BY DEF IsScalar, PlainScalar
  <1>2. CASE v.type = "STRING"
    <2> DEFINE text == v.text
    <2>1. ScalarText(v) = IF escapeQuotes(text) = <<>> THEN <<"None">>
                          ELSE Quoted(escapeQuotes(text))
      BY <1>2, Zenon DEF ScalarText, formatString, InteropNumbers
    <2>2. ScalarMeaning(v) = IF text = <<>> THEN Raw("None") ELSE Str(text)
      BY <1>2, Zenon DEF ScalarMeaning, Told
    <2>3. escapeQuotes(text) = <<>> <=> text = <<>> BY <1>1, EscapedEmpty
    <2>4. ~NeverEscaped(v.text) BY <1>1, <1>2 DEF PlainText
    <2>5. TellsScalar(Quoted(escapeQuotes(text)), Str(text))
      BY <1>1, <2>4, EscapedTells
    <2> HIDE DEF text
    <2> QED BY <2>1, <2>2, <2>3, <2>5, NoneTells, Zenon
  <1>3. CASE v.type \in InteropNumbers
    <2>1. ScalarText(v) = v.text BY <1>3, Zenon DEF ScalarText, InteropNumbers
    <2>2. ScalarMeaning(v) = Raw(v.text[1])
      BY <1>3, Zenon DEF ScalarMeaning, InteropNumbers
    <2>3. v.text \in Words BY <1>3 DEF IsScalar
    <2> QED BY <2>1, <2>2, <2>3, WordTells
  <1>4. CASE v.type = "NULL"
    <2>1. ScalarText(v) = <<"None">> BY <1>4, Zenon DEF ScalarText, InteropNumbers
    <2>2. ScalarMeaning(v) = Raw("None") BY <1>4, Zenon DEF ScalarMeaning
    <2> QED BY <2>1, <2>2, NoneTells
  <1>5. CASE v.type \notin {"STRING", "NULL"} \union InteropNumbers
    <2>1. ScalarText(v) = Quoted(v.text) BY <1>5, Zenon DEF ScalarText
    <2>2. ScalarMeaning(v) = Str(v.text)
      <3>1. v.type = "BOOLEAN" => log_msgs # "dict" OBVIOUS
      <3> QED BY <1>5, <3>1, Zenon DEF ScalarMeaning, InteropNumbers
    <2>3. ~Unescaped(v.text) BY <1>1, <1>5 DEF PlainText
    <2> QED BY <1>1, <2>1, <2>2, <2>3, PlainTells
  <1> QED BY <1>2, <1>3, <1>4, <1>5

(* An element or a key is a scalar as Proton types it.                      *)
LEMMA PartFacts ==
    ASSUME NEW v, IsValue(v)
    PROVE  /\ DOMAIN v.parts = 1..Len(v.parts) /\ Len(v.parts) \in Nat
           /\ DOMAIN v.keys = 1..Len(v.keys) /\ Len(v.keys) \in Nat
           /\ \A i \in DOMAIN v.parts : IsScalar(v.parts[i])
           /\ \A i \in DOMAIN v.keys : IsScalar(v.keys[i])
           /\ v.type = "MAP" => Len(v.keys) = Len(v.parts)
  BY DEF IsValue, IsList

(* A list of scalars, whose texts are told one by one.                      *)
LEMMA ListOfTells ==
    ASSUME NEW v, IsValue(v), v.type = "LIST",
           NEW texts, texts = [i \in DOMAIN v.parts |-> texts[i]],
           \A i \in DOMAIN v.parts : TellsScalar(texts[i], ScalarMeaning(v.parts[i]))
    PROVE  TellsFlat(Bracketed("[", texts, "]"), Meaning(v))
  <1> DEFINE n == Len(v.parts)
             values == [i \in DOMAIN v.parts |-> ScalarMeaning(v.parts[i])]
  <1>1. n \in Nat /\ DOMAIN v.parts = 1..n BY PartFacts
  <1>2. \A i \in 1..n : /\ values[i] \in Scalars
                        /\ texts[i] \in Seq(Symbols)
                        /\ Tells(PyValues, texts[i], values[i])
    BY <1>1 DEF TellsScalar, Tells
  <1>3. Meaning(v) = List(values) BY Zenon DEF Meaning
  <1>4. values = [i \in 1..n |-> values[i]] BY <1>1
  <1> HIDE DEF values, n
  <1>5. texts \in Seq(Seq(Symbols)) /\ Len(texts) = n BY <1>1, <1>2
  <1>6. values \in Seq(Scalars) /\ Len(values) = n BY <1>1, <1>2, <1>4
  <1>7. List(values) \in Flat /\ List(values) \in PyValues BY <1>6, FlatTypes
  <1>8. values \in Seq(PyValues)
    <2>1. Scalars \subseteq PyValues BY FlatTypes
    <2> QED BY <1>6, <2>1, SeqMonotonic
  <1>9. Tells(PyValues, Bracketed("[", texts, "]"), List(values))
    BY <1>2, <1>5, <1>6, <1>7, <1>8, ListTells
  <1> QED BY <1>3, <1>7, <1>9 DEF TellsFlat

(* A map of scalars, whose keys are plain strings.                          *)
LEMMA MapOfTells ==
    ASSUME NEW v, IsValue(v), v.type = "MAP",
           \A i \in DOMAIN v.keys : ~Unescaped(v.keys[i].text),
           NEW texts,
           \A i \in DOMAIN v.parts : TellsScalar(texts[i], ScalarMeaning(v.parts[i]))
    PROVE  TellsFlat(Bracketed(LeftBrace, [i \in DOMAIN v.parts |->
                                              Entry(v.keys[i], texts[i])], RightBrace),
                     Meaning(v))
  <1> DEFINE n == Len(v.parts)
             turns == [i \in DOMAIN v.parts |-> Entry(v.keys[i], texts[i])]
             names == [i \in DOMAIN v.keys |-> v.keys[i].text]
             values == [i \in DOMAIN v.parts |-> ScalarMeaning(v.parts[i])]
  <1>1. n \in Nat /\ DOMAIN v.parts = 1..n /\ DOMAIN v.keys = 1..n BY PartFacts
  <1>2. ASSUME NEW i \in 1..n
        PROVE  /\ TellsPair(PyValues, turns[i], names[i], values[i])
               /\ names[i] \in Seq(STRING) /\ values[i] \in Scalars
    <2> DEFINE key == v.keys[i].text
               value == ScalarMeaning(v.parts[i])
    <2>1. IsScalar(v.keys[i]) BY <1>1, PartFacts
    <2>2. key \in Seq(STRING) BY <2>1 DEF IsScalar
    <2>3. ~Unescaped(key) BY <1>1
    <2>4. Tells(PyValues, Quoted(key), Str(key))
      <3> HIDE DEF key
      <3> QED BY <2>2, <2>3, PlainTells DEF TellsScalar
    <2>5. value \in Scalars /\ Tells(PyValues, texts[i], value)
      BY <1>1 DEF TellsScalar
    <2>6. names[i] = key /\ values[i] = value BY <1>1
    <2>7. turns[i] = Quoted(key) \o <<Colon>> \o texts[i]
      BY <1>1, Zenon DEF Entry, Colon
    <2> HIDE DEF key, value, turns, names, values
    <2>8. TellsPair(PyValues, Quoted(key) \o <<Colon>> \o texts[i], key, value)
      BY <2>4, <2>5, PairTells
    <2> QED BY <2>2, <2>5, <2>6, <2>7, <2>8
  <1>3. Meaning(v) = Pairs(names, values) BY Zenon DEF Meaning
  <1>4. /\ turns = [i \in 1..n |-> turns[i]] /\ names = [i \in 1..n |-> names[i]]
        /\ values = [i \in 1..n |-> values[i]]
    BY <1>1
  <1> HIDE DEF turns, names, values, n
  <1>5. \A i \in 1..n : turns[i] \in Seq(Symbols) BY <1>2 DEF TellsPair
  <1>6. turns \in Seq(Seq(Symbols)) /\ Len(turns) = n BY <1>1, <1>4, <1>5
  <1>7. DOMAIN names = 1..n /\ Len(names) = n BY <1>1, <1>4
  <1>8. Pairs(names, values) \in Flat /\ Pairs(names, values) \in PyValues
    <2>1. \A i \in 1..Len(names) : Str(names[i]) \in Scalars /\ values[i] \in Scalars
      BY <1>2, <1>7, TextSymbols, ScalarTypes
    <2>2. PICK D : /\ ArePairs(D, Scalars, names, values)
                   /\ Pairs(names, values) = Dict(D[Len(names)])
      BY <1>1, <1>7, <2>1, PairPrefixes
    <2>3. D[Len(names)] \in Seq(Scalars) BY <1>1, <1>7, <2>2 DEF ArePairs
    <2> QED BY <2>2, <2>3, FlatTypes
  <1>9. Tells(PyValues, Bracketed(LeftBrace, turns, RightBrace), Pairs(names, values))
    BY <1>2, <1>6, <1>7, <1>8, DictTells
  <1>10. TellsFlat(Bracketed(LeftBrace, turns, RightBrace), Meaning(v))
    BY <1>3, <1>8, <1>9 DEF TellsFlat
  <1> QED BY <1>10 DEF turns

(* What the elements and keys of a plain value are.                         *)
LEMMA PlainFacts ==
    ASSUME NEW v, Plain(v)
    PROVE  /\ v.type \notin {"ARRAY", "DESCRIBED"} /\ PlainText(v)
           /\ \A i \in DOMAIN v.parts : PlainScalar(v.parts[i])
           /\ log_msgs = "dict" => \A i \in DOMAIN v.parts : v.parts[i].type # "NULL"
           /\ \A i \in DOMAIN v.keys : ~Unescaped(v.keys[i].text)
           /\ \A i \in DOMAIN v.keys : v.keys[i].type = "STRING"
  BY DEF Plain

(* A value that is neither a list nor a map means what a scalar does.       *)
LEMMA ScalarMeans ==
    ASSUME NEW v, Plain(v), v.type \notin {"LIST", "MAP"}
    PROVE  PlainScalar(v) /\ Meaning(v) = ScalarMeaning(v)
  <1>1. v.type \notin Compound /\ PlainText(v) BY PlainFacts DEF Compound
  <1>2. Meaning(v) = ScalarMeaning(v) BY Zenon DEF Meaning
  <1> QED BY <1>1, <1>2 DEF PlainScalar

(* The properties, and a map, in the dict format.                           *)
LEMMA DictMapTells ==
    ASSUME NEW v, IsValue(v), v.type = "MAP", Plain(v), log_msgs = "dict"
    PROVE  TellsFlat(writeProperties(v), Meaning(v))
  <1> DEFINE texts == [i \in DOMAIN v.parts |-> decodeValue(v.parts[i])]
  <1>1. \A i \in DOMAIN v.parts : TellsScalar(texts[i], ScalarMeaning(v.parts[i]))
    BY PartFacts, PlainFacts, DecodeTells
  <1>2. [i \in DOMAIN v.parts |-> Entry(v.keys[i], texts[i])]
            = [i \in DOMAIN v.parts |-> Entry(v.keys[i], decodeValue(v.parts[i]))]
    BY Zenon
  <1> DEFINE turns == [i \in DOMAIN v.parts |-> Entry(v.keys[i], texts[i])]
  <1> HIDE DEF texts
  <1>3. TellsFlat(Bracketed(LeftBrace, turns, RightBrace), Meaning(v))
    BY <1>1, PlainFacts, MapOfTells
  <1>4. writeProperties(v) = Bracketed(LeftBrace, turns, RightBrace)
    BY <1>2, Zenon DEF writeProperties, LeftBrace, RightBrace
  <1> QED BY <1>3, <1>4

(* The content in the dict format.                                          *)
LEMMA DictContentTells ==
    ASSUME NEW v, IsValue(v), Plain(v), log_msgs = "dict"
    PROVE  TellsFlat(decodeContent(v), Meaning(v))
  <1>1. CASE v.type = "MAP"
    <2>1. decodeContent(v) = writeProperties(v)
      BY <1>1, Zenon DEF decodeContent, writeProperties
    <2> QED BY <1>1, <2>1, DictMapTells
  <1>2. CASE v.type = "LIST"
    <2> DEFINE texts == [i \in DOMAIN v.parts |-> decodeValue(v.parts[i])]
    <2>1. decodeContent(v) = Bracketed("[", texts, "]")
      BY <1>2, Zenon DEF decodeContent
    <2>2. \A i \in DOMAIN v.parts : TellsScalar(texts[i], ScalarMeaning(v.parts[i]))
      BY PartFacts, PlainFacts, DecodeTells
    <2>3. texts = [i \in DOMAIN v.parts |-> texts[i]] OBVIOUS
    <2> HIDE DEF texts
    <2> QED BY <1>2, <2>1, <2>2, <2>3, ListOfTells
  <1>3. CASE v.type \notin {"LIST", "MAP"}
    <2> DEFINE text == decodeValue(v)
    <2>1. decodeContent(v) = IF text = <<>> THEN <<"None">> ELSE text
      BY <1>3, Zenon DEF decodeContent
    <2>2. PlainScalar(v) /\ Meaning(v) = ScalarMeaning(v) /\ IsScalar(v)
      BY <1>3, ScalarMeans DEF IsValue
    <2>3. CASE v.type = "NULL"
      <3>1. text = <<>> BY <2>3, Zenon DEF decodeValue, DictNumbers
      <3>2. ScalarMeaning(v) = Raw("None") BY <2>3, Zenon DEF ScalarMeaning
      <3>3. TellsScalar(decodeContent(v), ScalarMeaning(v))
        BY <2>1, <3>1, <3>2, NoneTells
      <3> QED BY <2>2, <3>3, FlatTypes DEF TellsFlat, TellsScalar
    <2>4. CASE v.type # "NULL"
      <3>1. TellsScalar(text, ScalarMeaning(v)) BY <2>2, <2>4, DecodeTells
      <3> HIDE DEF text
      <3>2. text # <<>> BY <3>1, TellsSomething DEF TellsScalar
      <3> QED BY <2>1, <2>2, <3>1, <3>2, FlatTypes DEF TellsFlat, TellsScalar
    <2> QED BY <2>3, <2>4
  <1> QED BY <1>1, <1>2, <1>3

(* The properties, and a map, in the interop format.                        *)
LEMMA InteropMapTells ==
    ASSUME NEW v, IsValue(v), v.type = "MAP", Plain(v), log_msgs = "interop"
    PROVE  TellsFlat(formatMap(v), Meaning(v))
  <1> DEFINE texts == [i \in DOMAIN v.parts |-> ScalarText(v.parts[i])]
  <1>1. \A i \in DOMAIN v.parts : TellsScalar(texts[i], ScalarMeaning(v.parts[i]))
    BY PartFacts, PlainFacts, ScalarTextTells
  <1>2. [i \in DOMAIN v.parts |-> Entry(v.keys[i], texts[i])]
            = [i \in DOMAIN v.parts |-> Entry(v.keys[i], ScalarText(v.parts[i]))]
    BY Zenon
  <1> DEFINE turns == [i \in DOMAIN v.parts |-> Entry(v.keys[i], texts[i])]
  <1> HIDE DEF texts
  <1>3. TellsFlat(Bracketed(LeftBrace, turns, RightBrace), Meaning(v))
    BY <1>1, PlainFacts, MapOfTells
  <1>4. formatMap(v) = Bracketed(LeftBrace, turns, RightBrace)
    BY <1>2, Zenon DEF formatMap, LeftBrace, RightBrace
  <1> QED BY <1>3, <1>4

(* The content in the interop format.                                       *)
LEMMA InteropContentTells ==
    ASSUME NEW v, IsValue(v), Plain(v), log_msgs = "interop"
    PROVE  TellsFlat(getValue(v), Meaning(v))
  <1>1. CASE v.type = "MAP"
    <2>1. getValue(v) = formatMap(v) BY <1>1, Zenon DEF getValue
    <2> QED BY <1>1, <2>1, InteropMapTells
  <1>2. CASE v.type = "LIST"
    <2> DEFINE texts == [i \in DOMAIN v.parts |-> ScalarText(v.parts[i])]
    <2>1. getValue(v) = Bracketed("[", texts, "]")
      BY <1>2, Zenon DEF getValue, formatList
    <2>2. \A i \in DOMAIN v.parts : TellsScalar(texts[i], ScalarMeaning(v.parts[i]))
      BY PartFacts, PlainFacts, ScalarTextTells
    <2>3. texts = [i \in DOMAIN v.parts |-> texts[i]] OBVIOUS
    <2> HIDE DEF texts
    <2> QED BY <1>2, <2>1, <2>2, <2>3, ListOfTells
  <1>3. CASE v.type \notin {"LIST", "MAP"}
    <2>1. getValue(v) = ScalarText(v) BY <1>3, PlainFacts, Zenon DEF getValue
    <2>2. PlainScalar(v) /\ Meaning(v) = ScalarMeaning(v) /\ IsScalar(v)
      BY <1>3, ScalarMeans DEF IsValue
    <2> QED BY <2>1, <2>2, ScalarTextTells, FlatTypes DEF TellsFlat, TellsScalar
  <1> QED BY <1>1, <1>2, <1>3

-----------------------------------------------------------------------------
(* The lines.                                                               *)

(* A line that tells a value is read as that value.                         *)
LEMMA TellsLine ==
    ASSUME NEW line, NEW value, Tells(PyValues, line, value)
    PROVE  Read(line) = value
  <1> DEFINE q == Behind(<<>>, "line", Append(<<>>, value))
  <1>1. "line" \in Kinds /\ <<>> \in Seq(Frames(PyValues)) /\ <<>> \in Seq(PyValues)
    <2>1. "line" \in Kinds BY Zenon DEF Kinds
    <2> QED BY <2>1
  <1>2. line \in Seq(Symbols) /\ value \in PyValues BY DEF Tells
  <1>3. Start = Before(<<>>, "line", <<>>) BY DEF Start, Before, Above
  <1>4. Reads(Start, line, q) BY <1>1, <1>3 DEF Tells
  <1>5. ReadLine(line) = q
    <2> HIDE DEF q
    <2> QED BY <1>2, <1>4, ReadsLine
  <1> DEFINE done == Append(<<>>, value)
  <1>6. done \in Seq(PyValues) /\ Len(done) = 1 /\ done[1] = value BY <1>2
  <1>7. q.mode = "between" /\ q.stack = Above(<<>>, "line", done)
    BY DEF Behind, Reader
  <1> HIDE DEF q, done
  <1>8. Last(q.stack) = Frame("line", done)
    <2> DEFINE below == <<>>
    <2>1. below \in Seq(Frames(PyValues)) BY <1>1
    <2> HIDE DEF below
    <2>2. Last(Above(below, "line", done)) = Frame("line", done)
      BY <1>1, <1>6, <2>1, TopFacts
    <2> QED BY <1>7, <2>2 DEF below
  <1>9. Len(q.stack) = 1 BY <1>7 DEF Above
  <1>10. Top(q).done = done BY <1>8, FrameFacts DEF Top
  <1> QED BY <1>5, <1>6, <1>7, <1>9, <1>10 DEF Read

FieldNames ==
    {"redelivered", "reply_to", "subject", "content_type", "user_id", "id",
     "correlation_id", "priority", "durable", "ttl", "properties", "content",
     "first-acquirer", "delivery-count", "user-id", "address", "reply-to",
     "correlation-id", "content-type", "content-encoding",
     "absolute-expiry-time", "creation-time", "group-id", "group-sequence",
     "reply-to-group-id"}

TellsNamed(name, text, key, value) ==
    /\ TellsPair(PyValues, Named(name, text), key, value)
    /\ Str(key) \in Flat /\ value \in Flat

(* A field tells its name and what its text tells.                          *)
LEMMA NamedTells ==
    ASSUME NEW name \in FieldNames, NEW text, NEW value, TellsFlat(text, value)
    PROVE  TellsNamed(name, text, <<name>>, value)
  <1> DEFINE key == <<name>>
  <1>1. name \in Symbols /\ name \notin {"'", "\\", "newline"}
    BY Zenon DEF FieldNames, Symbols
  <1>2. key \in Seq(Symbols) /\ NoQuote(key) /\ NoBackslash(key) /\ NoNewline(key)
    BY <1>1 DEF NoQuote, NoBackslash, NoNewline
  <1>3. Named(name, text) = Quoted(key) \o <<Colon>> \o text
    BY Zenon DEF Named, Colon
  <1> HIDE DEF key
  <1>4. Str(key) \in Scalars /\ Str(key) \in PyValues BY <1>2, ScalarTypes
  <1>5. Tells(PyValues, Quoted(key), Str(key)) BY <1>2, <1>4, TellsPlain
  <1>6. value \in Flat /\ Tells(PyValues, text, value) BY DEF TellsFlat
  <1>7. TellsPair(PyValues, Quoted(key) \o <<Colon>> \o text, key, value)
    BY <1>5, <1>6, PairTells
  <1>8. Str(key) \in Flat BY <1>4, FlatTypes
  <1> QED BY <1>3, <1>6, <1>7, <1>8 DEF TellsNamed, key

(* The same of a scalar.                                                    *)
LEMMA NamedScalar ==
    ASSUME NEW name \in FieldNames, NEW text, NEW value, TellsScalar(text, value)
    PROVE  TellsNamed(name, text, <<name>>, value)
  <1>1. TellsFlat(text, value) BY FlatTypes DEF TellsScalar, TellsFlat
  <1> QED BY <1>1, NamedTells

(* The texts of a message's header, plain ones.                             *)
LEMMA HeaderFacts ==
    ASSUME NEW msg, IsMessage(msg), IsPlain(msg),
           NEW text \in HeaderTexts(msg)
    PROVE  text \in Seq(STRING) /\ ~Unescaped(text)
  BY DEF IsMessage, IsPlain

(* A text without its prefix is plain if the text is.                       *)
LEMMA WithoutFacts ==
    ASSUME NEW text \in Seq(STRING), ~Unescaped(text), NEW prefix
    PROVE  /\ Without(prefix, text) = Bare(prefix, text)
           /\ Bare(prefix, text) \in Seq(STRING)
           /\ ~Unescaped(Bare(prefix, text))
  <1> DEFINE at == Find(text, <<prefix>>, 0)
             n == Len(text)
  <1>1. \/ at = -1 /\ \A i \in 1..n : text[i] # prefix
        \/ at \in 0..(n - 1) /\ text[at + 1] = prefix /\ \A i \in 1..at : text[i] # prefix
    BY FindFacts DEF NPOS
  <1>2. Without(prefix, text) = IF at = 0 THEN Tail(text) ELSE text
    BY Zenon DEF Without
  <1>3. text # <<>> => n > 0 /\ Head(text) = text[1] OBVIOUS
  <1>4. text = <<>> => n = 0 OBVIOUS
  <1>5. n \in Nat OBVIOUS
  <1> HIDE DEF at, n
  <1>6. at = 0 <=> text # <<>> /\ Head(text) = prefix
    <2>1. ASSUME at = 0 PROVE text # <<>> /\ Head(text) = prefix
      BY <1>1, <1>3, <1>4, <2>1
    <2>2. ASSUME text # <<>>, Head(text) = prefix PROVE at = 0
      <3>1. n > 0 /\ text[1] = prefix BY <1>3, <2>2
      <3>2. at # -1 /\ ~(1 \in 1..at) BY <1>1, <1>5, <3>1
      <3> QED BY <1>1, <1>5, <3>2
    <2> QED BY <2>1, <2>2
  <1>7. Without(prefix, text) = Bare(prefix, text)
    BY <1>2, <1>6, Zenon DEF Bare
  <1>8. CASE Bare(prefix, text) = text BY <1>7, <1>8
  <1>9. CASE text # <<>> /\ Bare(prefix, text) = Tail(text)
    <2>1. /\ Tail(text) \in Seq(STRING)
          /\ Len(Tail(text)) = Len(text) - 1
          /\ \A i \in 1..Len(Tail(text)) : Tail(text)[i] = text[i + 1]
      BY <1>9
    <2>2. ASSUME NEW c, ~Has(text, c) PROVE ~Has(Tail(text), c)
      <3>1. \A i \in 1..Len(text) : text[i] # c BY <2>2, HasFacts
      <3>2. \A i \in 1..Len(Tail(text)) : i + 1 \in 1..Len(text) BY <2>1
      <3>3. \A i \in 1..Len(Tail(text)) : Tail(text)[i] # c BY <2>1, <3>1, <3>2
      <3> QED BY <2>1, <3>3, HasFacts
    <2>3. ~Unescaped(Tail(text)) BY <2>2, Zenon DEF Unescaped, NeverEscaped
    <2> QED BY <1>7, <1>9, <2>1, <2>3
  <1>10. Bare(prefix, text) = text \/ (text # <<>> /\ Bare(prefix, text) = Tail(text))
    BY Zenon DEF Bare
  <1> QED BY <1>8, <1>9, <1>10

(* What the texts of a header tell.                                         *)
LEMMA HeaderTells ==
    ASSUME NEW msg, IsMessage(msg), IsPlain(msg),
           NEW name \in FieldNames, NEW text \in HeaderTexts(msg), NEW prefix
    PROVE  /\ TellsNamed(name, IF text = <<>> THEN <<"None">> ELSE Quoted(text),
                         <<name>>, Told(text))
           /\ TellsNamed(name, formatString(text), <<name>>, Told(text))
           /\ TellsNamed(name, formatString(Without(prefix, text)), <<name>>,
                         Told(Bare(prefix, text)))
           /\ TellsNamed(name, formatId(text), <<name>>,
                         IF text = <<>> THEN Raw("None") ELSE Str(Bare("ID:", text)))
  <1>1. text \in Seq(STRING) /\ ~Unescaped(text) BY HeaderFacts
  <1>2. ASSUME NEW s \in Seq(STRING), ~Unescaped(s)
        PROVE  TellsNamed(name, IF s = <<>> THEN <<"None">> ELSE Quoted(s), <<name>>, Told(s))
    BY <1>2, ToldTells, NamedScalar
  <1>3. \A s : formatString(s) = IF s = <<>> THEN <<"None">> ELSE Quoted(s)
    BY Zenon DEF formatString
  <1>4. ASSUME NEW p
        PROVE  /\ Without(p, text) = Bare(p, text)
               /\ Bare(p, text) \in Seq(STRING) /\ ~Unescaped(Bare(p, text))
    BY <1>1, WithoutFacts
  <1>5. TellsNamed(name, formatString(Without(prefix, text)), <<name>>,
                   Told(Bare(prefix, text)))
    BY <1>2, <1>3, <1>4
  <1>6. TellsNamed(name, formatId(text), <<name>>,
                   IF text = <<>> THEN Raw("None") ELSE Str(Bare("ID:", text)))
    <2> DEFINE value == IF text = <<>> THEN Raw("None") ELSE Str(Bare("ID:", text))
    <2>1. CASE text = <<>>
      <3>1. formatId(text) = <<"None">> /\ value = Raw("None")
        BY <2>1, Zenon DEF formatId
      <3> HIDE DEF value
      <3> QED BY <3>1, NoneTells, NamedScalar DEF value
    <2>2. CASE text # <<>>
      <3> DEFINE bare == Bare("ID:", text)
      <3>1. formatId(text) = Quoted(bare)
        BY <1>4, <2>2, Zenon DEF formatId
      <3>2. value = Str(bare) BY <2>2
      <3>3. bare \in Seq(STRING) /\ ~Unescaped(bare) BY <1>4
      <3> HIDE DEF value, bare
      <3>4. TellsScalar(Quoted(bare), Str(bare)) BY <3>3, PlainTells
      <3> QED BY <3>1, <3>2, <3>4, NamedScalar DEF value
    <2> QED BY <2>1, <2>2
  <1> QED BY <1>1, <1>2, <1>3, <1>5, <1>6

(* What its numbers and Booleans tell.                                      *)
LEMMA NamedWord ==
    ASSUME NEW name \in FieldNames, NEW text \in Words, NEW b
    PROVE  /\ TellsNamed(name, text, <<name>>, Raw(text[1]))
           /\ TellsNamed(name, formatBool(b), <<name>>, Word(b))
  <1>1. TellsScalar(text, Raw(text[1])) BY WordTells
  <1>2. TellsScalar(formatBool(b), Word(b)) BY BoolTells
  <1> QED BY <1>1, <1>2, NamedScalar

TellsField(field, key, value) ==
    ~field.throws /\ TellsNamed(field.name, field.text, key, value)

(* A field of the interop format that does not throw.                       *)
LEMMA FieldTells ==
    ASSUME NEW name, NEW text, NEW throws, ~throws, NEW key, NEW value,
           TellsNamed(name, text, key, value)
    PROVE  TellsField(InteropField(name, text, throws), key, value)
  <1> DEFINE field == InteropField(name, text, throws)
  <1>1. field.name = name /\ field.text = text /\ field.throws = throws
    BY DEF InteropField
  <1> HIDE DEF field
  <1> QED BY <1>1 DEF TellsField, field

(* One that cannot.                                                         *)
LEMMA SafeTells ==
    ASSUME NEW name, NEW text, NEW key, NEW value, TellsNamed(name, text, key, value)
    PROVE  TellsField(Safe(name, text), key, value)
  <1> DEFINE throws == FALSE
  <1> HIDE DEF throws
  <1>1. ~throws BY DEF throws
  <1>2. TellsField(InteropField(name, text, throws), key, value) BY <1>1, FieldTells
  <1> QED BY <1>2, Zenon DEF Safe, throws

(* What there is in a message for each field.                               *)
LEMMA MessageFacts ==
    ASSUME NEW msg, IsMessage(msg), IsPlain(msg)
    PROVE  /\ {msg.delivery_count, msg.priority, msg.ttl, msg.expiry_time,
               msg.creation_time, msg.group_sequence} \subseteq Words
           /\ IsValue(msg.properties) /\ msg.properties.type = "MAP"
           /\ Plain(msg.properties)
           /\ IsValue(msg.body) /\ Plain(msg.body)
  BY DEF IsMessage, IsPlain

(* Each field of a message in the interop format tells its part of it.      *)
LEMMA InteropFieldsTell ==
    ASSUME NEW msg, IsMessage(msg), IsPlain(msg), log_msgs = "interop",
           {msg.id.type, msg.correlation_id.type} \subseteq {"NULL", "STRING"}
    PROVE  \A i \in 1..20 :
               TellsField(InteropFields(msg)[i], InteropNames[i], InteropValues(msg)[i])
  <1> DEFINE F(i) == TellsField(InteropFields(msg)[i], InteropNames[i],
                                InteropValues(msg)[i])
  <1>1. /\ {"durable", "priority", "ttl", "first-acquirer", "delivery-count", "id",
            "user-id", "address", "subject", "reply-to"} \subseteq FieldNames
        /\ {"correlation-id", "content-type", "content-encoding",
            "absolute-expiry-time", "creation-time", "group-id", "group-sequence",
            "reply-to-group-id", "properties", "content"} \subseteq FieldNames
    BY Zenon DEF FieldNames
  <1>2. \A name \in FieldNames, text \in Words :
            TellsField(Safe(name, text), <<name>>, Raw(text[1]))
    BY NamedWord, SafeTells
  <1>3. \A name \in FieldNames : \A b :
            TellsField(Safe(name, formatBool(b)), <<name>>, Word(b))
    <2>1. ASSUME NEW name \in FieldNames, NEW b
          PROVE  TellsNamed(name, formatBool(b), <<name>>, Word(b))
      <3>1. TellsScalar(formatBool(b), Word(b)) BY BoolTells
      <3> QED BY <3>1, NamedScalar
    <2> QED BY <2>1, SafeTells
  <1>4. \A name \in FieldNames, text \in HeaderTexts(msg) :
            TellsField(Safe(name, formatString(text)), <<name>>, Told(text))
    BY HeaderTells, SafeTells
  <1>5. /\ F(2) /\ F(3) /\ F(5) /\ F(14) /\ F(15) /\ F(17)
    <2>1. {msg.delivery_count, msg.priority, msg.ttl, msg.expiry_time,
           msg.creation_time, msg.group_sequence} \subseteq Words
      BY MessageFacts
    <2> QED BY <1>1, <1>2, <2>1 DEF InteropFields, InteropNames, InteropValues
  <1>6. F(1) /\ F(4) BY <1>1, <1>3 DEF InteropFields, InteropNames, InteropValues
  <1>7. {msg.reply_to, msg.subject, msg.content_type, msg.user, msg.to,
         msg.id.text, msg.correlation_id.text, msg.content_encoding, msg.group_id,
         msg.reply_to_group_id} \subseteq HeaderTexts(msg)
    BY Zenon DEF HeaderTexts
  <1>8. F(7) /\ F(9) /\ F(10) /\ F(12) /\ F(13) /\ F(16) /\ F(18)
    BY <1>1, <1>4, <1>7 DEF InteropFields, InteropNames, InteropValues
  <1>9. F(8)
    <2>1. TellsField(Safe("address", formatString(Without("topic://", msg.to))),
                     <<"address">>, Told(Bare("topic://", msg.to)))
      BY <1>1, <1>7, HeaderTells, SafeTells
    <2> QED BY <2>1 DEF InteropFields, InteropNames, InteropValues
  <1>10. ASSUME NEW name \in FieldNames, NEW id, id.text \in HeaderTexts(msg),
                id.type \in {"NULL", "STRING"}
         PROVE  TellsField(InteropField(name, formatId(id.text), IdThrows(id)),
                           <<name>>, ToldId(id))
    <2>1. TellsNamed(name, formatId(id.text), <<name>>,
                     IF id.text = <<>> THEN Raw("None") ELSE Str(Bare("ID:", id.text)))
      BY <1>10, HeaderTells
    <2>2. TellsNamed(name, formatId(id.text), <<name>>, ToldId(id))
      BY <2>1, Zenon DEF ToldId
    <2>3. ~IdThrows(id) BY <1>10 DEF IdThrows
    <2> QED BY <2>2, <2>3, FieldTells
  <1>11. F(6) /\ F(11)
    BY <1>1, <1>7, <1>10 DEF InteropFields, InteropNames, InteropValues
  <1>12. F(19)
    <2>1. TellsFlat(formatMap(msg.properties), Meaning(msg.properties))
      BY MessageFacts, InteropMapTells
    <2>2. TellsField(Safe("properties", formatMap(msg.properties)), <<"properties">>,
                     Meaning(msg.properties))
      BY <1>1, <2>1, NamedTells, SafeTells
    <2> QED BY <2>2 DEF InteropFields, InteropNames, InteropValues
  <1>13. F(20)
    <2>1. IsValue(msg.body) /\ Plain(msg.body) BY MessageFacts
    <2>2. TellsFlat(getValue(msg.body), Meaning(msg.body))
      BY <2>1, InteropContentTells
    <2>3. ~getValueThrows(msg.body)
      BY <2>1, PlainFacts DEF getValueThrows, HasForeignKey, PlainScalar
    <2>4. TellsField(InteropField("content", getValue(msg.body), getValueThrows(msg.body)),
                     <<"content">>, Meaning(msg.body))
      BY <1>1, <2>2, <2>3, NamedTells, FieldTells
    <2> QED BY <2>4 DEF InteropFields, InteropNames, InteropValues
  <1> HIDE DEF F
  <1>14. ASSUME NEW i \in 1..20 PROVE F(i)
    <2>1. \/ i = 1 \/ i = 2 \/ i = 3 \/ i = 4 \/ i = 5 \/ i = 6 \/ i = 7
          \/ i = 8 \/ i = 9 \/ i = 10 \/ i = 11 \/ i = 12 \/ i = 13 \/ i = 14
          \/ i = 15 \/ i = 16 \/ i = 17 \/ i = 18 \/ i = 19 \/ i = 20
      OBVIOUS
    <2> QED BY <1>5, <1>6, <1>8, <1>9, <1>11, <1>12, <1>13, <2>1
  <1> QED BY <1>14 DEF F

(* What pairs of flat values make is a value of a line.                     *)
LEMMA PairsType ==
    ASSUME NEW names, NEW values, Len(names) \in Nat, DOMAIN names = 1..Len(names),
           \A i \in 1..Len(names) : Str(names[i]) \in Flat /\ values[i] \in Flat
    PROVE  Pairs(names, values) \in PyValues
  <1>1. PICK D : /\ ArePairs(D, Flat, names, values)
                 /\ Pairs(names, values) = Dict(D[Len(names)])
    BY PairPrefixes
  <1>2. D[Len(names)] \in Seq(Flat) BY <1>1 DEF ArePairs
  <1> QED BY <1>1, <1>2, FlatTypes

(* A line of the interop format tells its message.                          *)
LEMMA InteropTells ==
    ASSUME NEW msg, IsMessage(msg), IsPlain(msg), log_msgs = "interop",
           {msg.id.type, msg.correlation_id.type} \subseteq {"NULL", "STRING"}
    PROVE  Tells(PyValues, printMessageInterop(msg), InteropMeaning(msg))
  <1> DEFINE fields == InteropFields(msg)
             names == InteropNames
             values == InteropValues(msg)
             texts == [i \in 1..20 |-> Named(fields[i].name, fields[i].text)]
             thrown == {i \in DOMAIN fields : fields[i].throws}
             last == Min({Len(fields)} \union thrown)
             shown == [i \in 1..last |->
                             Named(fields[i].name,
                                   IF fields[i].throws THEN <<>> ELSE fields[i].text)]
  <1>1. \A i \in 1..20 : TellsField(fields[i], names[i], values[i])
    BY InteropFieldsTell
  <1>2. DOMAIN fields = 1..20 /\ Len(fields) = 20 BY DEF InteropFields
  <1>3. DOMAIN names = 1..20 /\ Len(names) = 20 BY DEF InteropNames
  <1> HIDE DEF fields, names, values
  <1>4. \A i \in 1..20 : ~fields[i].throws BY <1>1 DEF TellsField
  <1>5. thrown = {} BY <1>2, <1>4
  <1>6. last = 20
    <2>1. {Len(fields)} \union thrown = {20} BY <1>2, <1>5
    <2>2. Min({20}) = CHOOSE x \in {20} : \A y \in {20} : x <= y BY DEF Min
    <2>3. \A x \in {20} : (\A y \in {20} : x <= y) <=> x = 20 OBVIOUS
    <2>4. Min({20}) = 20 BY <2>2, <2>3
    <2> QED BY <2>1, <2>4
  <1>7. printMessageInterop(msg)
            = <<"{">> \o Separated(shown) \o IF thrown = {} THEN <<"}">> ELSE <<>>
    BY Zenon DEF printMessageInterop, fields
  <1> HIDE DEF last, thrown
  <1>8. shown = texts
    <2>1. \A i \in 1..20 : (IF fields[i].throws THEN <<>> ELSE fields[i].text)
                               = fields[i].text
      BY <1>4
    <2> QED BY <1>6, <2>1, Zenon
  <1> HIDE DEF shown
  <1>9. printMessageInterop(msg) = Bracketed(LeftBrace, texts, RightBrace)
    BY <1>5, <1>7, <1>8, Zenon DEF Bracketed, LeftBrace, RightBrace
  <1>10. \A i \in 1..20 : /\ TellsPair(PyValues, texts[i], names[i], values[i])
                          /\ Str(names[i]) \in Flat /\ values[i] \in Flat
    BY <1>1 DEF TellsField, TellsNamed
  <1>11. texts = [i \in 1..20 |-> texts[i]] OBVIOUS
  <1> HIDE DEF texts
  <1>12. texts \in Seq(Seq(Symbols)) /\ Len(texts) = 20
    <2>1. \A i \in 1..20 : texts[i] \in Seq(Symbols) BY <1>10 DEF TellsPair
    <2> QED BY <1>11, <2>1
  <1>13. Pairs(names, values) \in PyValues
    <2>1. Len(names) \in Nat /\ DOMAIN names = 1..Len(names) BY <1>3
    <2>2. \A i \in 1..Len(names) : Str(names[i]) \in Flat /\ values[i] \in Flat
      BY <1>3, <1>10
    <2> QED BY <2>1, <2>2, PairsType
  <1>14. Tells(PyValues, Bracketed(LeftBrace, texts, RightBrace), Pairs(names, values))
    BY <1>3, <1>10, <1>12, <1>13, DictTells
  <1>15. InteropMeaning(msg) = Pairs(names, values)
    BY Zenon DEF InteropMeaning, names, values
  <1> QED BY <1>9, <1>14, <1>15

DictTurns(msg) ==
    LET Shown(text) == IF text = <<>> THEN <<"None">> ELSE Quoted(text)
    IN  << Named("redelivered", formatBool(msg.delivery_count # <<"0">>)),
           Named("reply_to", Shown(msg.reply_to)),
           Named("subject", Shown(msg.subject)),
           Named("content_type", Shown(msg.content_type)),
           Named("user_id", Shown(msg.user)),
           Named("id", Shown(IdText(msg.id))),
           Named("correlation_id", Shown(IdText(msg.correlation_id))),
           Named("priority", msg.priority),
           Named("durable", formatBool(msg.durable)),
           Named("ttl", msg.ttl),
           Named("properties", writeProperties(msg.properties)),
           Named("content", decodeContent(msg.body)) >>

TellsTurn(turn, key, value) ==
    TellsPair(PyValues, turn, key, value) /\ Str(key) \in Flat /\ value \in Flat

(* Each turn of a line in the dict format tells its part of the message.    *)
LEMMA DictTurnsTell ==
    ASSUME NEW msg, IsMessage(msg), IsPlain(msg), log_msgs = "dict"
    PROVE  \A i \in 1..12 : TellsTurn(DictTurns(msg)[i], DictNames[i], DictValues(msg)[i])
  <1> DEFINE F(i) == TellsTurn(DictTurns(msg)[i], DictNames[i], DictValues(msg)[i])
  <1>1. {"redelivered", "reply_to", "subject", "content_type", "user_id", "id",
         "correlation_id", "priority", "durable", "ttl", "properties", "content"}
            \subseteq FieldNames
    BY Zenon DEF FieldNames
  <1>2. \A name \in FieldNames, text \in Words :
            TellsTurn(Named(name, text), <<name>>, Raw(text[1]))
    BY NamedWord DEF TellsTurn, TellsNamed
  <1>3. ASSUME NEW name \in FieldNames, NEW b
        PROVE  TellsTurn(Named(name, formatBool(b)), <<name>>, Word(b))
    <2>1. TellsScalar(formatBool(b), Word(b)) BY BoolTells
    <2>2. TellsNamed(name, formatBool(b), <<name>>, Word(b)) BY <2>1, NamedScalar
    <2> QED BY <2>2 DEF TellsTurn, TellsNamed
  <1>4. \A name \in FieldNames, text \in HeaderTexts(msg) :
            TellsTurn(Named(name, IF text = <<>> THEN <<"None">> ELSE Quoted(text)),
                      <<name>>, Told(text))
    BY HeaderTells DEF TellsTurn, TellsNamed
  <1>5. F(8) /\ F(10)
    <2>1. {msg.priority, msg.ttl} \subseteq Words BY MessageFacts
    <2> QED BY <1>1, <1>2, <2>1 DEF DictTurns, DictNames, DictValues
  <1>6. F(1) /\ F(9) BY <1>1, <1>3 DEF DictTurns, DictNames, DictValues
  <1>7. {msg.reply_to, msg.subject, msg.content_type, msg.user, msg.id.text,
         msg.correlation_id.text} \subseteq HeaderTexts(msg)
    BY Zenon DEF HeaderTexts
  <1>8. F(2) /\ F(3) /\ F(4) /\ F(5)
    BY <1>1, <1>4, <1>7 DEF DictTurns, DictNames, DictValues
  <1>12. \A name \in FieldNames, id \in {msg.id, msg.correlation_id} :
            TellsTurn(Named(name, IF IdText(id) = <<>> THEN <<"None">>
                                                       ELSE Quoted(IdText(id))),
                      <<name>>, ToldAnyId(id))
    <2> SUFFICES ASSUME NEW name \in FieldNames, NEW id \in {msg.id, msg.correlation_id}
                 PROVE  TellsTurn(Named(name, IF IdText(id) = <<>> THEN <<"None">>
                                                          ELSE Quoted(IdText(id))),
                                  <<name>>, ToldAnyId(id))
      OBVIOUS
    <2>1. id.type \in Converted \union {"BINARY"} /\ id.text \in HeaderTexts(msg)
      BY <1>7 DEF IsMessage, Converted
    <2>2. CASE id.type \in Converted
      <3>1. IdText(id) = id.text BY <2>2, Zenon DEF IdText
      <3>2. id.type # "BINARY" BY <2>2 DEF Converted
      <3>3. ToldAnyId(id) = Told(id.text) BY <3>2, Zenon DEF ToldAnyId
      <3> QED BY <1>4, <2>1, <3>1, <3>3, Zenon
    <2>3. CASE id.type = "BINARY"
      <3>1. "BINARY" \notin Converted BY DEF Converted
      <3>2. IdText(id) = <<>> /\ ToldAnyId(id) = Raw("None")
        BY <2>3, <3>1, Zenon DEF IdText, ToldAnyId
      <3>3. TellsNamed(name, <<"None">>, <<name>>, Raw("None"))
        BY NoneTells, NamedScalar
      <3> QED BY <3>2, <3>3, Zenon DEF TellsTurn, TellsNamed
    <2> QED BY <2>1, <2>2, <2>3
  <1>13. F(6) /\ F(7)
    BY <1>1, <1>12 DEF DictTurns, DictNames, DictValues
  <1>9. F(11)
    <2>1. TellsFlat(writeProperties(msg.properties), Meaning(msg.properties))
      BY MessageFacts, DictMapTells
    <2>2. TellsNamed("properties", writeProperties(msg.properties), <<"properties">>,
                     Meaning(msg.properties))
      BY <1>1, <2>1, NamedTells
    <2> QED BY <2>2 DEF DictTurns, DictNames, DictValues, TellsTurn, TellsNamed
  <1>10. F(12)
    <2>1. IsValue(msg.body) /\ Plain(msg.body) BY MessageFacts
    <2>2. TellsFlat(decodeContent(msg.body), Meaning(msg.body))
      BY <2>1, DictContentTells
    <2>3. TellsNamed("content", decodeContent(msg.body), <<"content">>, Meaning(msg.body))
      BY <1>1, <2>2, NamedTells
    <2> QED BY <2>3 DEF DictTurns, DictNames, DictValues, TellsTurn, TellsNamed
  <1> HIDE DEF F
  <1>11. ASSUME NEW i \in 1..12 PROVE F(i)
    <2>1. \/ i = 1 \/ i = 2 \/ i = 3 \/ i = 4 \/ i = 5 \/ i = 6
          \/ i = 7 \/ i = 8 \/ i = 9 \/ i = 10 \/ i = 11 \/ i = 12
      OBVIOUS
    <2> QED BY <1>5, <1>6, <1>8, <1>9, <1>10, <1>13, <2>1
  <1> QED BY <1>11 DEF F

(* The header, one turn after the other.                                    *)
LEMMA HeaderTurns ==
    ASSUME NEW msg
    PROVE  \E t : /\ t = DictTurns(msg)
                  /\ decodeHeader(msg)
                         = (t[1] \o <<Comma>>) \o (t[2] \o <<Comma>>)
                               \o (t[3] \o <<Comma>>) \o (t[4] \o <<Comma>>)
                               \o (t[5] \o <<Comma>>) \o (t[6] \o <<Comma>>)
                               \o (t[7] \o <<Comma>>) \o (t[8] \o <<Comma>>)
                               \o (t[9] \o <<Comma>>) \o (t[10] \o <<Comma>>)
                  /\ t[11] = Named("properties", writeProperties(msg.properties))
                  /\ t[12] = Named("content", decodeContent(msg.body))
  <1> DEFINE t == DictTurns(msg)
  <1>1. \A name, text : Field(name, text) = Named(name, text) \o <<Comma>>
    BY Zenon DEF Field, Comma
  <1>2. \A name, text : write(name, text) =
            Named(name, IF text = <<>> THEN <<"None">> ELSE Quoted(text)) \o <<Comma>>
    BY <1>1, Zenon DEF write
  <1>3. \A name, id : write_id(name, id) = write(name, IdText(id))
    BY Zenon DEF write_id
  <1>4. /\ Field("redelivered", formatBool(msg.delivery_count # <<"0">>))
               = t[1] \o <<Comma>>
        /\ write("reply_to", msg.reply_to) = t[2] \o <<Comma>>
        /\ write("subject", msg.subject) = t[3] \o <<Comma>>
        /\ write("content_type", msg.content_type) = t[4] \o <<Comma>>
        /\ write("user_id", msg.user) = t[5] \o <<Comma>>
        /\ write_id("id", msg.id) = t[6] \o <<Comma>>
        /\ write_id("correlation_id", msg.correlation_id) = t[7] \o <<Comma>>
        /\ Field("priority", msg.priority) = t[8] \o <<Comma>>
        /\ Field("durable", formatBool(msg.durable)) = t[9] \o <<Comma>>
        /\ Field("ttl", msg.ttl) = t[10] \o <<Comma>>
    BY <1>1, <1>2, <1>3 DEF DictTurns
  <1>5. /\ t[11] = Named("properties", writeProperties(msg.properties))
        /\ t[12] = Named("content", decodeContent(msg.body))
    BY DEF DictTurns
  <1> HIDE DEF t
  <1>6. decodeHeader(msg)
            = (t[1] \o <<Comma>>) \o (t[2] \o <<Comma>>) \o (t[3] \o <<Comma>>)
                  \o (t[4] \o <<Comma>>) \o (t[5] \o <<Comma>>)
                  \o (t[6] \o <<Comma>>) \o (t[7] \o <<Comma>>)
                  \o (t[8] \o <<Comma>>) \o (t[9] \o <<Comma>>)
                  \o (t[10] \o <<Comma>>)
    BY <1>4 DEF decodeHeader
  <1> QED BY <1>5, <1>6 DEF t

InTurn(a, b, c, d, e) == a \o b \o c \o d \o e
Nested(a, b, c, d, e) == a \o ((b \o (c \o d)) \o e)

(* Texts are put together in any order.                                     *)
LEMMA TextsTogether ==
    ASSUME NEW a \in Seq(Symbols), NEW b \in Seq(Symbols), NEW c \in Seq(Symbols),
           NEW d \in Seq(Symbols), NEW e \in Seq(Symbols)
    PROVE  InTurn(a, b, c, d, e) = Nested(a, b, c, d, e)
  <1> DEFINE ab == a \o b
             cd == c \o d
             bcd == b \o cd
  <1>1. ab \in Seq(Symbols) /\ cd \in Seq(Symbols) BY ConcatProperties
  <1>2. bcd \in Seq(Symbols)
    <2> HIDE DEF cd
    <2> QED BY <1>1, ConcatProperties
  <1>3. ab \o cd = a \o bcd
    <2> HIDE DEF cd
    <2> QED BY <1>1, ConcatAssociative
  <1>4. (ab \o c) \o d = ab \o cd
    <2> HIDE DEF ab
    <2> QED BY <1>1, ConcatAssociative
  <1>5. (a \o bcd) \o e = a \o (bcd \o e)
    <2> HIDE DEF bcd
    <2> QED BY <1>2, ConcatAssociative
  <1> QED BY <1>3, <1>4, <1>5, Zenon DEF InTurn, Nested

AreTexts(texts) == texts \in Seq(Seq(Symbols))

(* The turns are put together with commas between them, one behind the      *)
(* other.                                                                   *)
LEMMA DictBracketed ==
    ASSUME NEW msg, AreTexts(DictTurns(msg))
    PROVE  printMessage(msg) = Bracketed(LeftBrace, DictTurns(msg), RightBrace)
  <1> DEFINE t == DictTurns(msg)
             comma == <<Comma>>
             left == <<LeftBrace>>
             right == <<RightBrace>>
             s(i) == t[i] \o comma
  <1>1. DOMAIN t = 1..12 /\ Len(t) = 12 /\ t \in Seq(Seq(Symbols))
    <2>1. DOMAIN t = 1..12 /\ Len(t) = 12 BY DEF DictTurns
    <2> QED BY <2>1 DEF AreTexts
  <1>25. Len(t) = 12 /\ \A i \in 1..12 : t[i] \in Seq(Symbols)
    <2> HIDE DEF t
    <2>1. \A i \in 1..Len(t) : t[i] \in Seq(Symbols) BY <1>1, ElementOfSeq
    <2> QED BY <1>1, <2>1, Zenon
  <1>2. /\ decodeHeader(msg) = s(1) \o s(2) \o s(3) \o s(4) \o s(5)
                                    \o s(6) \o s(7) \o s(8) \o s(9) \o s(10)
        /\ t[11] = Named("properties", writeProperties(msg.properties))
        /\ t[12] = Named("content", decodeContent(msg.body))
    <2> DEFINE u == DictTurns(msg)
    <2> HIDE DEF t
    <2>1. u = t BY DEF t
    <2> HIDE DEF u
    <2>2. /\ decodeHeader(msg)
                 = (u[1] \o <<Comma>>) \o (u[2] \o <<Comma>>)
                       \o (u[3] \o <<Comma>>) \o (u[4] \o <<Comma>>)
                       \o (u[5] \o <<Comma>>) \o (u[6] \o <<Comma>>)
                       \o (u[7] \o <<Comma>>) \o (u[8] \o <<Comma>>)
                       \o (u[9] \o <<Comma>>) \o (u[10] \o <<Comma>>)
          /\ u[11] = Named("properties", writeProperties(msg.properties))
          /\ u[12] = Named("content", decodeContent(msg.body))
      BY HeaderTurns DEF u
    <2> QED BY <2>1, <2>2
  <1>3. printMessage(msg) = left \o decodeHeader(msg) \o t[11] \o comma \o t[12] \o right
    <2> HIDE DEF t
    <2> QED BY <1>2, Zenon DEF printMessage, LeftBrace, RightBrace, Comma
  <1>4. comma \in Seq(Symbols) /\ left \in Seq(Symbols) /\ right \in Seq(Symbols)
    <2>1. Comma \in Symbols /\ LeftBrace \in Symbols /\ RightBrace \in Symbols
      BY Zenon DEF Symbols, Comma, LeftBrace, RightBrace
    <2> QED BY <2>1, OneSymbol
  <1> HIDE DEF comma
  <1>5. PICK seqs \in Seq(Seq(Symbols)) :
            /\ Len(seqs) = Len(t)
            /\ \A i \in 1..Len(t) :
                   seqs[i] = IF i < Len(t) THEN t[i] \o <<Comma>> ELSE t[i]
            /\ Separated(t) = FlattenSeq(seqs)
    BY <1>1, SeparatedFacts
  <1> HIDE DEF t, left, right
  <1>6. PICK D : ArePrefixes(D, Symbols, seqs) /\ D[Len(seqs)] = FlattenSeq(seqs)
    BY FlattenPrefixes
  <1>7. Len(seqs) = 12 BY <1>1, <1>5
  <1>8. ASSUME NEW i \in 1..11 PROVE seqs[i] = s(i) /\ s(i) \in Seq(Symbols)
    <2>4. i \in 1..12 /\ i < 12 OBVIOUS
    <2>1. i \in 1..Len(t) /\ i < Len(t) /\ t[i] \in Seq(Symbols) BY <1>25, <2>4, Zenon
    <2>2. seqs[i] = t[i] \o <<Comma>> BY <1>5, <2>1
    <2>3. seqs[i] = s(i) BY <2>2 DEF comma
    <2> QED BY <1>4, <2>1, <2>3, ConcatProperties
  <1>9. D[0] = <<>> /\ \A i \in 1..12 : D[i] = D[i - 1] \o seqs[i]
    BY <1>6, <1>7 DEF ArePrefixes
  <1>10. seqs[12] = t[12] /\ t[11] \in Seq(Symbols) /\ t[12] \in Seq(Symbols)
    <2>1. 12 \in 1..12 /\ ~(12 < 12) /\ 11 \in 1..12 OBVIOUS
    <2>2. seqs[12] = t[12] BY <1>5, <1>25, <2>1
    <2> QED BY <1>25, <2>1, <2>2
  <1>12. s(11) = t[11] \o comma OBVIOUS
  <1> HIDE DEF s
  <1>11. ASSUME NEW i \in 1..11 PROVE D[i] = D[i - 1] \o s(i)
    <2>1. i \in 1..12 OBVIOUS
    <2> QED BY <1>8, <1>9, <2>1
  <1>13. D[1] = s(1)
    <2>1. 1 \in 1..11 /\ 1 - 1 = 0 OBVIOUS
    <2>2. D[1] = <<>> \o s(1) BY <1>9, <1>11, <2>1
    <2>3. s(1) \in Seq(Symbols) BY <1>8, <2>1
    <2> QED BY <2>2, <2>3, ConcatEmptySeq
  <1>14. /\ D[2] = D[1] \o s(2) /\ D[3] = D[2] \o s(3) /\ D[4] = D[3] \o s(4)
         /\ D[5] = D[4] \o s(5) /\ D[6] = D[5] \o s(6) /\ D[7] = D[6] \o s(7)
         /\ D[8] = D[7] \o s(8) /\ D[9] = D[8] \o s(9) /\ D[10] = D[9] \o s(10)
         /\ D[11] = D[10] \o s(11)
    <2>1. D[2] = D[1] \o s(2)
      <3>1. 2 \in 1..11 /\ 2 - 1 = 1 OBVIOUS
      <3> QED BY <1>11, <3>1
    <2>2. D[3] = D[2] \o s(3)
      <3>1. 3 \in 1..11 /\ 3 - 1 = 2 OBVIOUS
      <3> QED BY <1>11, <3>1
    <2>3. D[4] = D[3] \o s(4)
      <3>1. 4 \in 1..11 /\ 4 - 1 = 3 OBVIOUS
      <3> QED BY <1>11, <3>1
    <2>4. D[5] = D[4] \o s(5)
      <3>1. 5 \in 1..11 /\ 5 - 1 = 4 OBVIOUS
      <3> QED BY <1>11, <3>1
    <2>5. D[6] = D[5] \o s(6)
      <3>1. 6 \in 1..11 /\ 6 - 1 = 5 OBVIOUS
      <3> QED BY <1>11, <3>1
    <2>6. D[7] = D[6] \o s(7)
      <3>1. 7 \in 1..11 /\ 7 - 1 = 6 OBVIOUS
      <3> QED BY <1>11, <3>1
    <2>7. D[8] = D[7] \o s(8)
      <3>1. 8 \in 1..11 /\ 8 - 1 = 7 OBVIOUS
      <3> QED BY <1>11, <3>1
    <2>8. D[9] = D[8] \o s(9)
      <3>1. 9 \in 1..11 /\ 9 - 1 = 8 OBVIOUS
      <3> QED BY <1>11, <3>1
    <2>9. D[10] = D[9] \o s(10)
      <3>1. 10 \in 1..11 /\ 10 - 1 = 9 OBVIOUS
      <3> QED BY <1>11, <3>1
    <2>10. D[11] = D[10] \o s(11)
      <3>1. 11 \in 1..11 /\ 11 - 1 = 10 OBVIOUS
      <3> QED BY <1>11, <3>1
    <2> QED BY <2>1, <2>2, <2>3, <2>4, <2>5, <2>6, <2>7, <2>8, <2>9, <2>10
  <1>15. D[10] = decodeHeader(msg) BY <1>2, <1>13, <1>14
  <1>16. D[12] = D[11] \o t[12]
    <2>1. 12 \in 1..12 /\ 12 - 1 = 11 OBVIOUS
    <2> QED BY <1>9, <1>10, <2>1
  <1>17. D[10] \in Seq(Symbols) /\ D[11] \in Seq(Symbols)
    BY <1>6, <1>7 DEF ArePrefixes
  <1> DEFINE header == D[10]
             eleven == t[11]
             twelve == t[12]
             all == D[12]
  <1>18. Separated(t) = all BY <1>5, <1>6, <1>7
  <1>19. all = (header \o (eleven \o comma)) \o twelve BY <1>12, <1>14, <1>16
  <1>20. /\ header \in Seq(Symbols) /\ eleven \in Seq(Symbols)
         /\ twelve \in Seq(Symbols)
    BY <1>10, <1>17
  <1>21. printMessage(msg) = left \o header \o eleven \o comma \o twelve \o right
    BY <1>3, <1>15
  <1> HIDE DEF header, eleven, twelve, all
  <1>22. left \o header \o eleven \o comma \o twelve = left \o all
    <2>1. InTurn(left, header, eleven, comma, twelve)
              = Nested(left, header, eleven, comma, twelve)
      BY <1>4, <1>20, TextsTogether
    <2> QED BY <1>19, <2>1, Zenon DEF InTurn, Nested
  <1>23. Bracketed(LeftBrace, t, RightBrace) = left \o all \o right
    BY <1>18, Zenon DEF Bracketed, left, right
  <1>24. printMessage(msg) = Bracketed(LeftBrace, t, RightBrace)
    BY <1>21, <1>22, <1>23
  <1> QED BY <1>24 DEF t

(* A line of the dict format tells its message.                             *)
LEMMA DictLineTells ==
    ASSUME NEW msg, IsMessage(msg), IsPlain(msg), log_msgs = "dict"
    PROVE  Tells(PyValues, printMessage(msg), DictMeaning(msg))
  <1> DEFINE turns == DictTurns(msg)
             names == DictNames
             values == DictValues(msg)
  <1>1. \A i \in 1..12 : /\ TellsPair(PyValues, turns[i], names[i], values[i])
                         /\ Str(names[i]) \in Flat /\ values[i] \in Flat
    BY DictTurnsTell DEF TellsTurn
  <1>2. turns = [i \in 1..12 |-> turns[i]] /\ Len(turns) = 12 BY DEF DictTurns
  <1>3. DOMAIN names = 1..12 /\ Len(names) = 12 BY DEF DictNames
  <1> HIDE DEF turns, names, values
  <1>4. \A i \in 1..12 : turns[i] \in Seq(Symbols) BY <1>1 DEF TellsPair
  <1>5. turns \in Seq(Seq(Symbols)) BY <1>2, <1>4
  <1>6. Pairs(names, values) \in PyValues
    <2>1. Len(names) \in Nat /\ DOMAIN names = 1..Len(names) BY <1>3
    <2>2. \A i \in 1..Len(names) : Str(names[i]) \in Flat /\ values[i] \in Flat
      BY <1>1, <1>3
    <2> QED BY <2>1, <2>2, PairsType
  <1>7. Tells(PyValues, Bracketed(LeftBrace, turns, RightBrace), Pairs(names, values))
    BY <1>1, <1>2, <1>3, <1>5, <1>6, DictTells
  <1>8. printMessage(msg) = Bracketed(LeftBrace, turns, RightBrace)
    BY <1>5, DictBracketed DEF turns, AreTexts
  <1>9. DictMeaning(msg) = Pairs(names, values)
    BY Zenon DEF DictMeaning, names, values
  <1> QED BY <1>7, <1>8, <1>9
-----------------------------------------------------------------------------
(* Counting.                                                                *)

Made(n) ==
    IF IsNumbered(m.body) THEN [m EXCEPT !.body = Replaced(@, n)] ELSE m

(* A sender's messages never throw, so that what the link has got is what   *)
(* is counted, numbered from 0.                                             *)
CountInv ==
    /\ role \in {"sender", "receiver"}
    /\ m \in IF role = "sender" THEN Composed ELSE Received
    /\ sent \in 0..MaxMessages
    /\ wire = [i \in 1..sent |-> Made(i - 1)]

(* What Proton types of a message and of its content.                       *)
LEMMA BodyFacts ==
    ASSUME NEW msg \in Composed \union Received
    PROVE  "body" \in DOMAIN msg /\ IsScalar(msg.body)
  <1>1. IsMessage(msg) BY MessagesAssumption
  <1>2. "body" \in DOMAIN msg BY <1>1, Zenon DEF IsMessage
  <1>3. IsScalar(msg.body) BY <1>1, Zenon DEF IsMessage, IsValue
  <1> QED BY <1>2, <1>3

(* Only the content is another once it is numbered.                         *)
LEMMA MadeFacts ==
    ASSUME m \in Composed \union Received, NEW n
    PROVE  /\ IsNumbered(m.body) => Made(n).body = Replaced(m.body, n)
           /\ ~IsNumbered(m.body) => Made(n) = m
           /\ IsNumbered(m.body) => Replaced(m.body, n).type = "STRING"
  <1>1. "body" \in DOMAIN m /\ IsScalar(m.body) BY BodyFacts
  <1>2. IsNumbered(m.body) => Made(n).body = Replaced(m.body, n)
    BY <1>1, Zenon DEF Made
  <1>3. ~IsNumbered(m.body) => Made(n) = m BY Zenon DEF Made
  <1>4. ASSUME IsNumbered(m.body) PROVE Replaced(m.body, n).type = "STRING"
    <2>1. m.body.type = "STRING" /\ "type" # "text" BY <1>4 DEF IsNumbered
    <2>2. DOMAIN m.body = {"type", "text", "keys", "parts"} BY <1>1 DEF IsScalar
    <2> QED BY <2>1, <2>2, Zenon DEF Replaced
  <1> QED BY <1>2, <1>3, <1>4

(* The numbers tell the messages apart.                                     *)
LEMMA MadeApart ==
    ASSUME m \in Composed \union Received, IsNumbered(m.body),
           NEW i \in 0..MaxMessages, NEW j \in 0..MaxMessages, i # j
    PROVE  Made(i) # Made(j)
  <1>1. PICK at \in Nat : \A n : Replaced(m.body, n).text[at + 1] = Decimals[n]
    BY BodyFacts, ReplacedFacts
  <1>2. Decimals[i] # Decimals[j] BY DecimalsAssumption
  <1>3. \A n : Made(n).body = Replaced(m.body, n) BY MadeFacts
  <1> QED BY <1>1, <1>2, <1>3

(* Printing a message made of a command line throws nothing.                *)
LEMMA ComposedPrints ==
    ASSUME m \in Composed, NEW n
    PROVE  ~PrintThrows(Made(n))
  <1>1. m \in Composed \union Received OBVIOUS
  <1>2. CASE IsNumbered(m.body)
    <2>1. Made(n).body.type = "STRING" BY <1>1, <1>2, MadeFacts
    <2> QED BY <2>1 DEF PrintThrows, printMessageThrows, HasForeignKey
  <1>3. CASE ~IsNumbered(m.body)
    <2>1. Made(n) = m BY <1>1, <1>3, MadeFacts
    <2>2. \A i \in DOMAIN m.body.parts : m.body.parts[i].type # "LIST"
      BY ItemsAssumption
    <2>3. \A i \in DOMAIN m.body.keys : m.body.keys[i].type = "STRING"
      BY ItemsAssumption
    <2> QED BY <2>1, <2>2, <2>3
          DEF PrintThrows, printMessageThrows, HasForeignKey, decodeThrows
  <1> QED BY <1>2, <1>3

(* What is counted is what is on the wire, in every state.                  *)
THEOREM CountInvariant == Spec => []CountInv
  <1>1. Init => CountInv
    <2> SUFFICES ASSUME Init PROVE CountInv OBVIOUS
    <2>1. sent = 0 /\ wire = <<>> BY DEF Init
    <2>2. wire = [i \in 1..sent |-> Made(i - 1)] BY <2>1
    <2> QED BY <2>1, <2>2, MaxMessagesAssumption DEF Init, CountInv
  <1>2. CountInv /\ [Next]_vars => CountInv'
    <2> SUFFICES ASSUME CountInv, [Next]_vars PROVE CountInv' OBVIOUS
    <2> USE DEF CountInv
    <2>1. ASSUME UNCHANGED <<role, m, sent, wire>> PROVE CountInv'
      BY <2>1 DEF Made
    <2>2. CASE send
      <3>1. /\ role = "sender" /\ m \in Composed /\ message_to_send = Made(sent)
            /\ role' = role /\ m' = m /\ wire' = Append(wire, message_to_send)
            /\ Len(wire) < MaxMessages
        BY <2>2 DEF send, message_to_send, Made
      <3>2. ~PrintThrows(message_to_send) BY <3>1, ComposedPrints
      <3>3. sent' = sent + 1 BY <2>2, <3>2 DEF send
      <3>4. Len(wire) = sent BY MaxMessagesAssumption
      <3>5. sent' \in 0..MaxMessages BY <3>1, <3>3, <3>4, MaxMessagesAssumption
      <3>6. wire' = [i \in 1..sent' |-> Made(i - 1)]
        BY <3>1, <3>3, MaxMessagesAssumption
      <3>7. \A k : Made(k)' = Made(k) BY <3>1 DEF Made
      <3> QED BY <3>1, <3>5, <3>6, <3>7
    <2>3. CASE on_message BY <2>1, <2>3 DEF on_message
    <2>4. CASE Done BY <2>1, <2>4 DEF Done, vars
    <2>5. CASE UNCHANGED vars BY <2>1, <2>5 DEF vars
    <2> QED BY <2>2, <2>3, <2>4, <2>5 DEF Next
  <1> QED BY <1>1, <1>2, PTL DEF Spec

(* A sender counts each message it sends, and its messages differ once they *)
(* are numbered.                                                            *)
THEOREM CountsAlways == Spec => []CountsWhatItSends
  <1>1. CountInv => CountsWhatItSends
    <2> SUFFICES ASSUME CountInv PROVE CountsWhatItSends OBVIOUS
    <2>1. m \in Composed \union Received BY DEF CountInv
    <2>2. sent = Len(wire) /\ DOMAIN wire = 1..sent
      BY MaxMessagesAssumption DEF CountInv
    <2>3. ASSUME IsNumbered(m.body), NEW i \in DOMAIN wire, NEW j \in DOMAIN wire,
                 i # j
          PROVE  wire[i] # wire[j]
      <3>1. i - 1 \in 0..MaxMessages /\ j - 1 \in 0..MaxMessages /\ i - 1 # j - 1
        <4>1. sent \in 0..MaxMessages BY DEF CountInv
        <4> QED BY <2>2, <2>3, <4>1, MaxMessagesAssumption
      <3>2. Made(i - 1) # Made(j - 1) BY <2>1, <2>3, <3>1, MadeApart
      <3> QED BY <2>2, <3>2 DEF CountInv
    <2> QED BY <2>2, <2>3 DEF CountsWhatItSends
  <1> QED BY <1>1, CountInvariant, PTL
-----------------------------------------------------------------------------
(* Reading back.                                                            *)

(* The number is put into a text of the content.                            *)
LEMMA ReplacedIsValue ==
    ASSUME NEW body, IsValue(body), IsNumbered(body), NEW n \in 0..MaxMessages
    PROVE  IsValue(Replaced(body, n))
  <1> DEFINE new == Replaced(body, n)
             at == Find(body.text, <<"%d">>, 0)
             text == Substr(body.text, 0, at) \o <<Decimals[n]>> \o From(body.text, at + 1)
  <1>1. /\ DOMAIN body = {"type", "text", "keys", "parts"}
        /\ body.text \in Seq(STRING) /\ body.type = "STRING"
    BY DEF IsValue, IsScalar, IsNumbered
  <1>2. at \in 0..(Len(body.text) - 1)
    <2>1. at = NPOS \/ at \in 0..(Len(body.text) - 1) BY <1>1, FindFacts, Zenon
    <2>2. at # NPOS BY DEF IsNumbered, Has
    <2> QED BY <2>1, <2>2
  <1>3. new = [body EXCEPT !.text = text] BY Zenon DEF Replaced
  <1> HIDE DEF at, new
  <1>4. text \in Seq(STRING)
    <2> DEFINE before == Substr(body.text, 0, at)
               rest == From(body.text, at + 1)
               word == <<Decimals[n]>>
    <2>1. before \in Seq(STRING)
      <3>1. before = SubSeq(body.text, 1, at) BY <1>1, <1>2, SubstrFacts
      <3>2. \A i \in 1..at : body.text[i] \in STRING BY <1>1, <1>2
      <3> QED BY <1>1, <1>2, <3>1, <3>2, SubSeqProperties
    <2>2. rest \in Seq(STRING)
      <3>1. \A i \in (at + 1 + 1)..Len(body.text) : body.text[i] \in STRING
        BY <1>1, <1>2
      <3> QED BY <1>1, <1>2, <3>1, SubSeqProperties DEF From
    <2>3. word \in Seq(STRING)
      <3>1. Decimals[n] \in STRING BY DecimalsAssumption
      <3> QED BY <3>1, OneSymbol
    <2> HIDE DEF before, rest, word
    <2>4. before \o word \in Seq(STRING) BY <2>1, <2>3, ConcatProperties
    <2>5. before \o word \o rest \in Seq(STRING) BY <2>2, <2>4, ConcatProperties
    <2> QED BY <2>5 DEF before, rest, word
  <1> HIDE DEF text
  <1>5. /\ DOMAIN new = DOMAIN body /\ new.text = text /\ new.type = body.type
        /\ new.keys = body.keys /\ new.parts = body.parts
    BY <1>1, <1>3, Zenon
  <1>6. "STRING" \notin InteropNumbers BY Zenon DEF InteropNumbers
  <1>7. IsScalar(new) BY <1>1, <1>4, <1>5, <1>6 DEF IsScalar
  <1>8. IsValue(new) BY <1>1, <1>5, <1>7 DEF IsValue
  <1> QED BY <1>8 DEF new

(* A message stays one once it is numbered.                                 *)
LEMMA MadeIsMessage ==
    ASSUME m \in Composed \union Received, NEW n \in 0..MaxMessages
    PROVE  IsMessage(Made(n))
  <1>1. IsMessage(m) BY MessagesAssumption
  <1>2. CASE ~IsNumbered(m.body)
    <2>1. Made(n) = m BY <1>2, MadeFacts
    <2> QED BY <1>1, <2>1
  <1>3. CASE IsNumbered(m.body)
    <2> DEFINE body == Replaced(m.body, n)
               new == [m EXCEPT !.body = body]
    <2>1. Made(n) = new BY <1>3, Zenon DEF Made
    <2>2. IsValue(m.body) BY <1>1 DEF IsMessage
    <2>3. IsValue(body) BY <1>3, <2>2, ReplacedIsValue
    <2> HIDE DEF body
    <2>4. DOMAIN m =
              {"delivery_count", "reply_to", "subject", "content_type", "user", "id",
               "correlation_id", "priority", "durable", "ttl", "first_acquirer", "to",
               "content_encoding", "expiry_time", "creation_time", "group_id",
               "group_sequence", "reply_to_group_id", "properties", "body"}
      BY <1>1, Zenon DEF IsMessage
    <2>5. DOMAIN new = DOMAIN m BY Zenon
    <2>6. new.body = body BY <2>4, Zenon
    <2>7. /\ new.delivery_count = m.delivery_count /\ new.reply_to = m.reply_to
          /\ new.subject = m.subject /\ new.content_type = m.content_type
          /\ new.user = m.user /\ new.id = m.id
          /\ new.correlation_id = m.correlation_id
      BY <2>4, Zenon
    <2>8. /\ new.priority = m.priority /\ new.durable = m.durable /\ new.ttl = m.ttl
          /\ new.first_acquirer = m.first_acquirer /\ new.to = m.to
          /\ new.content_encoding = m.content_encoding
          /\ new.expiry_time = m.expiry_time
      BY <2>4, Zenon
    <2>9. /\ new.creation_time = m.creation_time /\ new.group_id = m.group_id
          /\ new.group_sequence = m.group_sequence
          /\ new.reply_to_group_id = m.reply_to_group_id
          /\ new.properties = m.properties
      BY <2>4, Zenon
    <2> HIDE DEF new
    <2>10. HeaderTexts(new) = HeaderTexts(m)
      BY <2>7, <2>8, <2>9 DEF HeaderTexts
    <2>11. IsMessage(new)
      BY <1>1, <2>3, <2>5, <2>6, <2>7, <2>8, <2>9, <2>10 DEF IsMessage
    <2> QED BY <2>1, <2>11
  <1> QED BY <1>2, <1>3

(* What is printed is the line of a message.                                *)
PrintedInv ==
    printed # Nothing => \E msg : IsMessage(msg) /\ printed = PrintOf(msg)

(* This holds in every state.                                               *)
THEOREM PrintedInvariant == Spec => []PrintedInv
  <1>1. Init => PrintedInv BY DEF Init, PrintedInv
  <1>2. CountInv /\ PrintedInv /\ [Next]_vars => PrintedInv'
    <2> SUFFICES ASSUME CountInv, PrintedInv, [Next]_vars PROVE PrintedInv' OBVIOUS
    <2>1. Nothing' = Nothing BY DEF Nothing
    <2>2. ASSUME log_msgs' = log_msgs PROVE \A msg : PrintOf(msg)' = PrintOf(msg)
      BY <2>2 DEF PrintOf
    <2>3. ASSUME UNCHANGED <<log_msgs, printed>> PROVE PrintedInv'
      <3>1. \A msg : PrintOf(msg)' = PrintOf(msg) BY <2>2, <2>3
      <3> QED BY <2>1, <2>3, <3>1 DEF PrintedInv
    <2>4. ASSUME NEW msg, IsMessage(msg), printed' = PrintOf(msg),
                 log_msgs' = log_msgs
          PROVE  PrintedInv'
      BY <2>1, <2>2, <2>4 DEF PrintedInv
    <2>5. CASE send
      <3>1. m \in Composed /\ message_to_send = Made(sent) /\ log_msgs' = log_msgs
        BY <2>5 DEF send, message_to_send, Made, CountInv
      <3>2. IsMessage(message_to_send) BY <3>1, MadeIsMessage DEF CountInv
      <3>3. printed' = printed \/ printed' = PrintOf(message_to_send)
        BY <2>5 DEF send
      <3> QED BY <2>3, <2>4, <3>1, <3>2, <3>3
    <2>6. CASE on_message
      <3>1. m \in Received /\ log_msgs' = log_msgs
        BY <2>6 DEF on_message, CountInv
      <3>2. IsMessage(m) BY <3>1, MessagesAssumption
      <3>3. printed' = printed \/ printed' = PrintOf(m) BY <2>6 DEF on_message
      <3> QED BY <2>3, <2>4, <3>1, <3>2, <3>3
    <2>7. CASE Done BY <2>3, <2>7 DEF Done, vars
    <2>8. CASE UNCHANGED vars BY <2>3, <2>8 DEF vars
    <2> QED BY <2>5, <2>6, <2>7, <2>8 DEF Next
  <1> QED BY <1>1, <1>2, CountInvariant, PTL DEF Spec

(* Python reads a line of the dict format as the dictionary of the message, *)
(* whatever the number, the names and the values of its properties and      *)
(* elements, if the message is plain (IsPlain).                             *)
THEOREM DictAlwaysReadsBack == Spec => []DictReadsBack
  <1>1. PrintedInv => DictReadsBack
    <2> SUFFICES ASSUME PrintedInv, HasPrinted("dict"), IsPlain(printed.message)
                 PROVE  Read(printed.text) = DictMeaning(printed.message)
      BY DEF DictReadsBack
    <2>1. log_msgs = "dict" /\ printed # Nothing BY DEF HasPrinted
    <2>2. PICK msg : IsMessage(msg) /\ printed = PrintOf(msg)
      BY <2>1 DEF PrintedInv
    <2>3. printed = [message |-> msg, text |-> printMessage(msg)]
      BY <2>1, <2>2, Zenon DEF PrintOf
    <2>4. printed.message = msg /\ printed.text = printMessage(msg) BY <2>3
    <2>5. Tells(PyValues, printMessage(msg), DictMeaning(msg))
      BY <2>1, <2>2, <2>4, DictLineTells
    <2> QED BY <2>4, <2>5, TellsLine
  <1> QED BY <1>1, PrintedInvariant, PTL

(* The same of the interop format, if the ids are strings or absent.         *)
THEOREM InteropAlwaysReadsBack == Spec => []InteropReadsBack
  <1>1. PrintedInv => InteropReadsBack
    <2> SUFFICES ASSUME PrintedInv, HasPrinted("interop"), IsPlain(printed.message),
                        {printed.message.id.type, printed.message.correlation_id.type}
                            \subseteq {"NULL", "STRING"}
                 PROVE  Read(printed.text) = InteropMeaning(printed.message)
      BY DEF InteropReadsBack
    <2>1. log_msgs = "interop" /\ printed # Nothing BY DEF HasPrinted
    <2>2. PICK msg : IsMessage(msg) /\ printed = PrintOf(msg)
      BY <2>1 DEF PrintedInv
    <2>3. printed = [message |-> msg, text |-> printMessageInterop(msg)]
      BY <2>1, <2>2, Zenon DEF PrintOf
    <2>4. printed.message = msg /\ printed.text = printMessageInterop(msg) BY <2>3
    <2>5. Tells(PyValues, printMessageInterop(msg), InteropMeaning(msg))
      BY <2>1, <2>2, <2>4, InteropTells
    <2> QED BY <2>4, <2>5, TellsLine
  <1> QED BY <1>1, PrintedInvariant, PTL
=====
