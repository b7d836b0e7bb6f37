----------------------------- MODULE UriParser -----------------------------
(***************************************************************************)
(* UriParser::parse: the positions of the delimiters are looked up in the  *)
(* whole URI first, and the parts are cut out between them.                *)
(***************************************************************************)
EXTENDS Strings

scheme_delimiter(uri) == Find(uri, <<":", "/", "/">>, 0)

first_colon_anywhere(uri) == Find(uri, <<":">>, 0)      \* mutant

(* Behind the scheme, if there is one (NPOS + 1 is 0).                      *)
first_colon(uri) == Find(uri, <<":">>, scheme_delimiter(uri) + 1)

ampersand(uri) == Find(uri, <<"@">>, 0)

HasCredentials(uri) ==
    ampersand(uri) # NPOS /\ first_colon(uri) # NPOS /\ first_colon(uri) < ampersand(uri)

slash_position_anywhere(uri) == Find(uri, <<"/">>, 0)   \* mutant

slash_position(uri) ==
    LET scheme == scheme_delimiter(uri)
    IN  Find(uri, <<"/">>, IF scheme = NPOS THEN 0 ELSE scheme + 3)

(* The colon before the port.                                               *)
colon_position(uri) ==
    LET bracket == Find(uri, <<"]">>, 0)
    IN  IF bracket # NPOS THEN Find(uri, <<":">>, bracket + 1)
        ELSE IF HasCredentials(uri) THEN Find(uri, <<":">>, ampersand(uri))
        ELSE first_colon(uri)

(* The position before the host.                                            *)
BeforeHost(uri) ==
    IF ampersand(uri) = NPOS /\ scheme_delimiter(uri) # NPOS
    THEN scheme_delimiter(uri) + 2
    ELSE ampersand(uri)

user(uri) ==
    LET start == IF scheme_delimiter(uri) = NPOS THEN 0 ELSE scheme_delimiter(uri) + 3
    IN  IF HasCredentials(uri)
        THEN Substr(uri, start, first_colon(uri) - start) ELSE <<>>

password(uri) ==
    IF HasCredentials(uri)
    THEN Substr(uri, first_colon(uri) + 1, ampersand(uri) - first_colon(uri) - 1)
    ELSE <<>>

host(uri) ==
    LET before == BeforeHost(uri)
        colon == colon_position(uri)
        slash == slash_position(uri)
    IN  IF colon # NPOS THEN Substr(uri, before + 1, colon - before - 1)
        ELSE IF slash # NPOS THEN Substr(uri, before + 1, slash - before - 1)
        ELSE From(uri, before + 1)

(* Without a slash the length of the host is taken for a position.          *)
port(uri) ==
    LET colon == colon_position(uri)
        slash == slash_position(uri)
    IN  IF colon = NPOS THEN <<>>
        ELSE IF slash # NPOS THEN Substr(uri, colon + 1, slash - colon - 1)
        ELSE From(uri, colon - BeforeHost(uri) - 1)

path(uri) ==
    LET slash == slash_position(uri)
        question == Find(uri, <<"?">>, 0)
        hash == Find(uri, <<"#">>, 0)
    IN  IF slash = NPOS THEN <<>>
        ELSE IF question # NPOS THEN Substr(uri, slash + 1, question - slash - 1)
        ELSE IF hash # NPOS THEN Substr(uri, slash + 1, hash - slash - 1)
        ELSE From(uri, slash + 1)

(* The parts beside the credentials, which the clients do not read.         *)
Place(uri) == [host |-> host(uri), port |-> port(uri), path |-> path(uri)]
=============================================================================
