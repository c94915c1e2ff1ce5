------------------------------ MODULE Sanitize ------------------------------
(***************************************************************************)
(* sanitizeBody (internal/server/server.go): what becomes of the bytes of  *)
(* a file, or of a program's output, before they are sent.                 *)
(*                                                                         *)
(* Bytes are the classes the code tells apart: "x" (printable ASCII and    *)
(* TAB), "?", "cr", "lf", "nul", "ctl" (any other control byte, DEL        *)
(* included), "80" (0x80 to 0x9F), and two bytes that begin a rune of two  *)
(* bytes: "c2", which with "80" makes a C1 control rune, and "c3", which   *)
(* with "80" makes a printable one.  "ff" occurs in no UTF-8 text.         *)
(*                                                                         *)
(* A definition that ends in "_" is a faulty variant of the one after it,  *)
(* kept to show that a property would notice the fault.                    *)
(***************************************************************************)
EXTENDS Naturals, Sequences, SequencesExt

Byte == {"x", "?", "cr", "lf", "nul", "ctl", "80", "c2", "c3", "ff"}

CRLF == <<"cr", "lf">>

\* bytes.ReplaceAll of CRLF by LF, then of CR by LF; the other way round
\* would double every line break.
ReplaceLineEnds_(s) ==
    [i \in DOMAIN s |-> IF s[i] = "cr" THEN "lf" ELSE s[i]]

ReplaceLineEnds(s) ==
    LET paired(i) == s[i] = "cr" /\ i < Len(s) /\ s[i + 1] = "lf"
        short == FlattenSeq([i \in DOMAIN s |-> IF paired(i) THEN <<>> ELSE <<s[i]>>])
    IN  [i \in DOMAIN short |-> IF short[i] = "cr" THEN "lf" ELSE short[i]]

\* utf8.Valid.
Leads == {"c2", "c3"}
Valid(s) == /\ \A i \in DOMAIN s : s[i] \in Leads => i < Len(s) /\ s[i + 1] = "80"
            /\ \A i \in DOMAIN s : s[i] = "80" => i > 1 /\ s[i - 1] \in Leads
            /\ \A i \in DOMAIN s : s[i] # "ff"

\* The runes of a valid text, or the bytes of any.
Units(s, utf8) ==
    IF utf8 THEN FlattenSeq([i \in DOMAIN s |->
                    CASE s[i] \in Leads -> << <<s[i], "80">> >>
                      [] s[i] = "80"    -> <<>>
                      [] OTHER          -> << <<s[i]>> >>])
    ELSE [i \in DOMAIN s |-> <<s[i]>>]

\* Takes the C1 controls for printable runes.
ValidOutput_(unit) == unit \notin {<<"nul">>, <<"ctl">>, <<"cr">>, <<"lf">>, <<"80">>}

\* validOutputRune and validOutputByte.
ValidOutput(unit) == unit \notin {<<"nul">>, <<"ctl">>, <<"cr">>, <<"lf">>, <<"80">>,
                                  <<"c2", "80">>}

Shown(unit) == IF unit = <<"lf">> THEN CRLF
               ELSE IF ValidOutput(unit) THEN unit ELSE <<"?">>

\* The bodies a text makes: one, or none when it is refused.
sanitizeBody(raw, utf8) ==
    LET s == ReplaceLineEnds(raw)
        units == Units(s, utf8)
    IN  IF (\E i \in DOMAIN raw : raw[i] = "nul") \/ (utf8 /\ ~Valid(s)) THEN {}
        ELSE {FlattenSeq([i \in DOMAIN units |-> Shown(units[i])])}

EndsCRLF(s) == Len(s) >= 2 /\ SubSeq(s, Len(s) - 1, Len(s)) = CRLF
-----------------------------------------------------------------------------
\* The line ends of a text, and its printable units.
Breaks(s) == Cardinality({i \in DOMAIN s : \/ s[i] = "lf"
                                           \/ s[i] = "cr" /\ ~(i < Len(s) /\ s[i + 1] = "lf")})
Printed(s, utf8) == Cardinality({i \in DOMAIN s : /\ s[i] \notin {"cr", "lf"}
                                                  /\ utf8 => s[i] # "80"})

\* What may be sent: CR and LF only as CRLF, no control byte and no C1 control,
\* alone or as a rune, and UTF-8 where it is required.
CleanLines(s, utf8) ==
    /\ \A i \in DOMAIN s : s[i] = "cr" => i < Len(s) /\ s[i + 1] = "lf"
    /\ \A i \in DOMAIN s : s[i] = "lf" => i > 1 /\ s[i - 1] = "cr"
    /\ \A i \in DOMAIN s : s[i] \notin {"nul", "ctl"}
    /\ \A i \in DOMAIN s : s[i] = "80" => utf8 /\ i > 1 /\ s[i - 1] # "c2"
    /\ utf8 => Valid(s)

\* However a text ends its lines, mixes of CR, LF and CRLF included, the body
\* may be sent and has as many lines, each of which ends in CRLF; it has one
\* printable unit for every unit of the text, and sanitising it again changes
\* nothing.
Tidy(raw, utf8) ==
    \A body \in sanitizeBody(raw, utf8) :
       /\ CleanLines(body, utf8)
       /\ Breaks(body) = Breaks(raw) /\ Printed(body, utf8) = Printed(raw, utf8)
       /\ sanitizeBody(body, utf8) = {body}
=============================================================================
