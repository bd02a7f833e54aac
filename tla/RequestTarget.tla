--------------------------- MODULE RequestTarget ---------------------------
(***************************************************************************)
(* What a request asks for, from the text of its target: the path decoded  *)
(* (corRestStateInit.c, corRestUrlValueEncode.c), the query split into     *)
(* parameters, ?pretty taken out of them (corRestInit.c), and the others   *)
(* held against what the service takes (corRestParamRegistry.c).           *)
(*                                                                         *)
(* Texts as in ServiceLookup.  No text here escapes a NUL, which would end *)
(* its string.                                                             *)
(***************************************************************************)
EXTENDS ServiceLookup

CONSTANTS
    Registry    \* what corRestParamAdd was given: <<[name, bit], ...>>

Char(n) == CHOOSE ch \in DOMAIN Code : Code[ch] = n

----------------------------------------------------------------------------
(* Percent-encoding *)

MustEncode(ch) == Code[ch] \notin 33 .. 126 \/ ch \in {"%", "&", "#", "+", "?"}

Hex(n) == Char(IF n < 10 THEN 48 + n ELSE 55 + n)

\* corRestUrlValueEncode
Encode(value) ==
    FlattenSeq([i \in DOMAIN value |->
        IF MustEncode(value[i]) THEN <<"%", Hex(Code[value[i]] \div 16), Hex(Code[value[i]] % 16)>>
        ELSE <<value[i]>>])

HexVal(ch) ==
    LET n == Code[ch]
    IN  CASE n \in 48 .. 57  -> n - 48
          [] n \in 65 .. 70  -> n - 55
          [] n \in 97 .. 102 -> n - 87
          [] OTHER -> -1

Escape(text, i) ==
    /\ text[i] = "%" /\ i + 2 <= Len(text)
    /\ HexVal(text[i + 1]) >= 0 /\ HexVal(text[i + 2]) >= 0

\* corRestUrlValueDecode: what is no escape stays as it is
Decode(text) ==
    LET step(d, i) ==
            IF d.skip > 0 THEN [d EXCEPT !.skip = @ - 1]
            ELSE IF Escape(text, i)
            THEN [out |-> Append(d.out, Char(16 * HexVal(text[i + 1]) + HexVal(text[i + 2]))), skip |-> 2]
            ELSE [d EXCEPT !.out = Append(@, text[i])]
    IN  FoldLeft(step, [out |-> <<>>, skip |-> 0], [i \in DOMAIN text |-> i]).out

----------------------------------------------------------------------------
(* The path and the query *)

\* corRestUrlPathNormalize
Normalized(path) == IF Len(path) > 1 /\ Last(path) = "/" THEN Front(path) ELSE path

\* What a client means by the path it sends over a socket: decoded, and without the '/'
\* at its end; one that ends in two loses both to PathOf
Resource(path) == Normalized(Decode(path))

\* The path of a request that came in is normalized as it arrives and once decoded
PathOf(path) == Normalized(Decode(Normalized(path)))

\* The built-in server's: '+' in a query is a space
Spaced(query) == [i \in DOMAIN query |-> IF query[i] = "+" THEN " " ELSE query[i]]

\* The first of chars in text from i on, or the end
EndOf(text, i, chars) ==
    LET at == {k \in i .. Len(text) : text[k] \in chars}
    IN  IF at = {} THEN Len(text) + 1 ELSE Min(at)

\* Mutant: the query is decoded before it is split
DecodedFirst(query) ==
    LET text == Decode(query)
        from[i \in 1 .. Len(text) + 2] ==
            IF i > Len(text) THEN <<>>
            ELSE LET eq  == EndOf(text, i, {"=", "&"})
                     amp == EndOf(text, i, {"&"})
                 IN  <<[name |-> SubSeq(text, i, eq - 1), value |-> SubSeq(text, eq + 1, amp - 1)]>>
                         \o from[amp + 1]
    IN  from[1]

\* corRestUriParamsParse: split at every '&' and the first '=' of each, then decoded
ParamsOf(query) ==
    LET from[i \in 1 .. Len(query) + 2] ==
            IF i > Len(query) THEN <<>>
            ELSE LET eq  == EndOf(query, i, {"=", "&"})
                     amp == EndOf(query, i, {"&"})
                 IN  <<[name  |-> Decode(SubSeq(query, i, eq - 1)),
                        value |-> Decode(SubSeq(query, eq + 1, amp - 1))]>> \o from[amp + 1]
    IN  from[1]

----------------------------------------------------------------------------
(* The parameters *)

Pretty == <<"p", "r", "e", "t", "t", "y">>

\* ?pretty out of the array, wherever and however often: the last takes its place,
\* and is looked at next
WithoutPretty(params) ==
    LET step(s, k) ==
            IF s.params[s.i].name # Pretty THEN [s EXCEPT !.i = @ + 1]
            ELSE IF s.i = Len(s.params) THEN [s EXCEPT !.params = Front(@)]
            ELSE [s EXCEPT !.params = [Front(@) EXCEPT ![s.i] = Last(s.params)]]
    IN  FoldLeft(step, [i |-> 1, params |-> params], params).params

\* corRestParamLookup: the one added last, 0 when there is none
ParamBit(name) ==
    LET at == {i \in DOMAIN Registry : Registry[i].name = name}
    IN  IF at = {} THEN 0 ELSE Registry[Max(at)].bit

\* A service that takes any parameter has all bits set
AnyParam == 1 .. 64

Supported(service, params) ==
    \/ service.params = AnyParam
    \/ \A i \in DOMAIN params : ParamBit(params[i].name) \in service.params
=============================================================================
