----------------------------- MODULE MCContent -----------------------------
\* With a limit of 11: a line, a rune without line end, line ends that grow
\* past the limit when they become CRLF, a text too long as it is, and one
\* sanitizeBody refuses.
\* Besides, every text of up to two bytes, and of three where only UTF-8 or
\* only line ends matter, stands alone in a document root, so that the
\* sanitiser meets it.
EXTENDS Content

Line == <<"x", "lf">>
Ragged == <<"c3", "80">>
Swelling == [i \in 1..6 |-> "lf"]
Long == [i \in 1..12 |-> "x"]
Dirty == <<"nul">>
EditedTexts == {Line, Ragged, Swelling, Long, Dirty}

MCNoContentBody == <<"x", "x", "x", "cr", "lf">>
MCCreditsBody == <<"cr", "lf", "x", "cr", "lf">>

Strings(bytes, n) == UNION {[1..k -> bytes] : k \in 0..n}
SourceTexts == Strings(Byte, 2) \cup [1..3 -> {"80", "c2", "c3"}]
                 \cup [1..3 -> {"x", "cr", "lf"}]
MCTexts == EditedTexts \cup SourceTexts

File(t) == [kind |-> "file", text |-> t]
Other(k) == [kind |-> k, text |-> Ragged]

\* The request's own files are anything; of the templates the header may be
\* a text or a program, the footer a text.
MainFiles == {File(t) : t \in EditedTexts} \cup {Other(k) : k \in Kinds \ {"file"}}
Headers == {<<File(Ragged), Other("absent")>>, <<Other("absent"), File(Line)>>,
            <<Other("absent"), Other("absent")>>}
EditedRoots ==
  {[p \in Paths |-> CASE p = <<"main", "txt">> -> a
                      [] p = <<"main", "cgi">> -> b
                      [] p = <<"header", "txt">> -> h[1]
                      [] p = <<"header", "cgi">> -> h[2]
                      [] p = <<"footer", "txt">> -> h[1]
                      [] OTHER -> Other("absent")] :
     a \in MainFiles, b \in {File(Line), Other("absent")}, h \in Headers}

OneFileRoots ==
  {[p \in Paths |-> IF p = <<"main", "txt">> THEN File(t) ELSE Other("absent")] :
     t \in SourceTexts}
MCInitialRoots == EditedRoots \cup OneFileRoots
MCNewFiles == {File(Line), Other("absent"), Other("link")}
=============================================================================
