------------------------------ MODULE Strings ------------------------------
(***************************************************************************)
(* The std::string calls the clients take their arguments apart with.  A   *)
(* string is a sequence of symbols: a delimiter, or a word no search looks *)
(* into.  Positions count from 0 and NPOS is -1, so that NPOS + 1 = 0, as  *)
(* for an unsigned size_type.                                              *)
(***************************************************************************)
EXTENDS Integers, Sequences, FiniteSetsExt

NPOS == -1

(* s.find(part, from)                                                       *)
Find(s, part, from) ==
    LET hits == {p \in from..(Len(s) - Len(part)) :
                    SubSeq(s, p + 1, p + Len(part)) = part}
    IN  IF hits = {} THEN NPOS ELSE Min(hits)

Has(s, symbol) == Find(s, <<symbol>>, 0) # NPOS

(* s.substr(pos)                                                            *)
From(s, pos) == SubSeq(s, pos + 1, Len(s))

(* s.substr(pos, len): a len below 0 is a very large size_type.             *)
Substr(s, pos, len) ==
    IF len < 0 THEN From(s, pos)
               ELSE SubSeq(s, pos + 1, Min({pos + len, Len(s)}))
=============================================================================
