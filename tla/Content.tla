------------------------------ MODULE Content ------------------------------
(***************************************************************************)
(* buildValidResponse (internal/server/server.go): the answer to one valid *)
(* request is put together from the document root while somebody edits it. *)
(* Every name is looked for as a static file (Lstat, Open, Fstat, ReadAll) *)
(* and then, when CGI is enabled, as a program; the request's own content  *)
(* comes first, then the header and the footer.                            *)
(*                                                                         *)
(* Texts, bodies and the answer are sequences of the bytes of module       *)
(* Sanitize.  The body of a program is the abstract outcome of runCGI      *)
(* (module CGIRun).                                                        *)
(*                                                                         *)
(* A definition that ends in "_" is a faulty variant of the one after it,  *)
(* kept to show that a property would notice the fault.                    *)
(***************************************************************************)
EXTENDS Sanitize

CONSTANTS Texts,             \* what a file can hold and a program can print
          InitialRoots,      \* document roots a request can start with
          NewFiles,          \* what an editor can put in place of a file
          MaxResponseBytes,  \* max_response_bytes
          NoContentBody,     \* what is sent in place of a page
          CreditsBody,       \* what is sent after one
          MaxEdits           \* bound: edits during one request

Slots == {"main", "header", "footer"}
Paths == Slots \X {"txt", "cgi"}
Kinds == {"absent", "link", "dir", "denied", "file"}
Files == [kind : Kinds, text : Texts]
Configs == [cgi : BOOLEAN, tpl : BOOLEAN, credits : BOOLEAN, utf8 : BOOLEAN]

\* The two fixed texts are lines that may be sent under either protocol.
ASSUME ContentAssumption ==
  /\ MaxResponseBytes \in Nat /\ MaxEdits \in Nat
  /\ \A b \in {NoContentBody, CreditsBody} :
        /\ b \in Seq(Byte) /\ EndsCRLF(b)
        /\ \A utf8 \in BOOLEAN : CleanLines(b, utf8)
  /\ Texts \subseteq Seq(Byte) /\ NewFiles \subseteq Files
  /\ InitialRoots \subseteq [Paths -> Files]

VARIABLES root,      \* the document root
          config,    \* mode.cgiEnable, TPLEnable, CreditsEnable, and whether
                     \* the protocol is fingers, which requires UTF-8
          pc,        \* the next step of the request's goroutine
          slot,      \* the name being resolved
          opened,    \* the file behind the open descriptor
          parts,     \* what each name contributes
          outcome,   \* the outcome the access log will show
          errors,    \* error log entries of this request
          response,  \* the answer and the body it carries
          edits,     \* edits so far
          gap,       \* at some moment the request had no file of either kind
          appeared   \* its static file came into being during the request

vars == <<root, config, pc, slot, opened, parts, outcome, errors, response,
          edits, gap, appeared>>
----------------------------------------------------------------------------
Segment(from, body) == [from |-> from, body |-> body]
Nothing == Segment("nothing", <<>>)
NoContent == Segment("nocontent", NoContentBody)
NoFile == [kind |-> "absent"]

Missing(r) == \A k \in {"txt", "cgi"} : r[<<"main", k>>].kind = "absent"

Init == /\ root \in InitialRoots
        /\ config \in Configs
        /\ pc = "lstat" /\ slot = "main"
        /\ opened = NoFile
        /\ parts = [s \in Slots |-> Nothing]
        /\ outcome = "none" /\ errors = {}
        /\ response = Nothing
        /\ edits = 0 /\ gap = Missing(root) /\ appeared = FALSE

\* One iteration of joinSegments: an empty part is left out, CRLF is added
\* where what came before lacks one.
Glue(acc) == IF acc = <<>> \/ EndsCRLF(acc) THEN <<>> ELSE CRLF

\* Looks for CRLF at the end of the wrong part.
Add_(acc, s) == IF s = <<>> THEN acc ELSE acc \o Glue(s) \o s

Add(acc, s) == IF s = <<>> THEN acc ELSE acc \o Glue(acc) \o s

\* joinSegments of three parts.
Join(a, b, c) == LET all == Add(Add(Add(<<>>, a), b), c) IN all \o Glue(all)

Assembled(p) ==
  LET page == Join(p["header"].body, p["main"].body, p["footer"].body)
  IN  IF config.credits THEN Join(page, CreditsBody, <<>>) ELSE page

\* The whole page, known by the body it carries.
Page == Segment(parts["main"].from, Assembled(parts))

TooLong == Len(Assembled(parts)) > MaxResponseBytes

\* resolveTemplates follows resolveMainContent, footer after header.
NextSlot == CASE slot = "main" /\ config.tpl -> "header"
              [] slot = "header" -> "footer"
              [] OTHER -> "none"

\* Looks for templates whether tpl_enable is set or not.
Settle_(part, result, log) ==
  /\ parts' = [parts EXCEPT ![slot] = part]
  /\ outcome' = IF slot = "main" THEN result ELSE outcome
  /\ errors' = errors \cup log
  /\ slot' = NextSlot
  /\ pc' = IF slot = "footer" THEN "assemble" ELSE "lstat"
  /\ opened' = NoFile

\* The current name is resolved: its part, its outcome, its log entries.
Settle(part, result, log) ==
  /\ parts' = [parts EXCEPT ![slot] = part]
  /\ outcome' = IF slot = "main" THEN result ELSE outcome
  /\ errors' = errors \cup log
  /\ slot' = NextSlot
  /\ pc' = IF NextSlot = "none" THEN "assemble" ELSE "lstat"
  /\ opened' = NoFile

Found(part, result) == Settle(part, result, {})

Absent == IF slot = "main" THEN Settle(NoContent, "miss", {})
          ELSE Settle(Nothing, outcome, {<<slot, "skipped">>})

Refused(kind, result) ==
  IF slot = "main" THEN Settle(NoContent, result, {<<slot, kind>>})
  ELSE Settle(Nothing, outcome, {<<slot, kind>>, <<slot, "skipped">>})

Goto(l) == /\ pc' = l
           /\ UNCHANGED <<slot, opened, parts, outcome, errors>>

\* A file that vanishes before Open is not looked for as a program.
TryCGI_ == IF config.cgi /\ pc = "lstat" THEN Goto("cgi") ELSE Absent

\* No static file: a program may stand in, if there can be one.
TryCGI == IF config.cgi THEN Goto("cgi") ELSE Absent

Quiet == UNCHANGED <<root, config, response, edits, gap, appeared>>
----------------------------------------------------------------------------
(* openRegularReadNoFollow, first look: Lstat.                             *)
Lstat == LET f == root[<<slot, "txt">>]
         IN  /\ pc = "lstat"
             /\ CASE f.kind = "absent" -> TryCGI
                  [] f.kind \in {"link", "dir"} -> Refused("txt", "miss")
                  [] OTHER -> Goto("open")
             /\ Quiet

(* Second look: Open with O_NOFOLLOW, then Fstat of the open descriptor.
   The faulty variant trusts Lstat and lets Open follow a link.            *)
Open_ == LET f == root[<<slot, "txt">>]
         IN  /\ pc = "open"
             /\ CASE f.kind = "absent" -> TryCGI
                  [] f.kind \in {"dir", "denied"} -> Refused("txt", "miss")
                  [] OTHER -> /\ opened' = f /\ pc' = "read"
                              /\ UNCHANGED <<slot, parts, outcome, errors>>
             /\ Quiet

Open == LET f == root[<<slot, "txt">>]
        IN  /\ pc = "open"
            /\ CASE f.kind = "absent" -> TryCGI
                 [] f.kind \in {"link", "dir", "denied"} -> Refused("txt", "miss")
                 [] OTHER -> /\ opened' = f /\ pc' = "read"
                             /\ UNCHANGED <<slot, parts, outcome, errors>>
            /\ Quiet

(* The rest of loadStatic: ReadAll fails, the file is too long, or
   sanitizeBody refuses it; or it becomes the part.                        *)
Read == LET t == opened.text
            bodies == sanitizeBody(t, config.utf8)
        IN  /\ pc = "read"
            /\ \/ Refused("txt", "miss")
               \/ /\ Len(t) <= MaxResponseBytes
                  /\ \E body \in bodies : Found(Segment(opened.kind, body), "hit")
            /\ Quiet

(* openRegularExecNoFollow: a single Open with O_PATH and its Fstat.       *)
OpenExec == LET f == root[<<slot, "cgi">>]
            IN  /\ pc = "cgi"
                /\ CASE f.kind = "absent" -> Absent
                     [] f.kind \in {"link", "dir", "denied"} -> Refused("cgi", "cgi_fail")
                     [] OTHER -> /\ opened' = f /\ pc' = "run"
                                 /\ UNCHANGED <<slot, parts, outcome, errors>>
                /\ Quiet

(* The rest of runCGI: the program fails, or prints the text it was opened
   with, which sanitizeBody accepts or not.                                *)
RunCGI == /\ pc = "run"
          /\ \/ Refused("cgi", "cgi_fail")
             \/ \E body \in sanitizeBody(opened.text, config.utf8) :
                   Found(Segment("cgi", body), "cgi_hit")
          /\ Quiet

(* The end of buildValidResponse.                                          *)
Assemble_ == /\ pc = "assemble"
             /\ pc' = "done"
             /\ response' = IF TooLong THEN NoContent ELSE Page
             /\ UNCHANGED <<root, config, slot, opened, parts, outcome, errors, edits, gap, appeared>>

Assemble == /\ pc = "assemble"
            /\ pc' = "done"
            /\ IF TooLong
               THEN response' = NoContent /\ outcome' = "miss"
               ELSE /\ response' = Page
                    /\ UNCHANGED outcome
            /\ UNCHANGED <<root, config, slot, opened, parts, errors, edits, gap, appeared>>

(* Somebody removes a file, or puts another in its place in one step
   (rename); what is already open stays as it was.                         *)
Edit == \E p \in Paths, f \in NewFiles :
          /\ pc # "done" /\ edits < MaxEdits /\ f # root[p]
          /\ root' = [root EXCEPT ![p] = f]
          /\ edits' = edits + 1
          /\ gap' = (gap \/ Missing(root'))
          /\ appeared' = (appeared \/ (/\ p = <<"main", "txt">>
                                       /\ root[p].kind = "absent"
                                       /\ f.kind # "absent"))
          /\ UNCHANGED <<config, pc, slot, opened, parts, outcome, errors, response>>

Next == Lstat \/ Open \/ Read \/ OpenExec \/ RunCGI \/ Assemble \/ Edit

Spec == Init /\ [][Next]_vars
----------------------------------------------------------------------------
Segments == [from : {"nothing", "nocontent", "cgi"} \cup Kinds, body : Seq(Byte)]

(* TypeOK: a request is always at a step it can take, with the descriptor
   that step needs.                                                        *)
TypeOK ==
  /\ root \in [Paths -> Files]
  /\ config \in Configs
  /\ pc \in {"lstat", "open", "read", "cgi", "run", "assemble", "done"}
  /\ slot \in Slots \cup {"none"}
  /\ (slot = "none") <=> (pc \in {"assemble", "done"})
  /\ opened \in Files \cup {NoFile}
  /\ pc \in {"read", "run"} => opened \in Files
  /\ parts \in [Slots -> Segments]
  /\ outcome \in {"none", "hit", "miss", "cgi_hit", "cgi_fail"}
  /\ errors \subseteq Slots \X {"txt", "cgi", "skipped"}
  /\ response \in Segments
  /\ edits \in 0..MaxEdits
  /\ gap \in BOOLEAN /\ appeared \in BOOLEAN

(* OnlyRegularServed: whatever replaces a file between Lstat, Open and
   ReadAll, no link, directory or unreadable file ends up in a page: a
   static part is a regular file that was read through the descriptor
   Fstat looked at.                                                        *)
OnlyRegularServed ==
  \A s \in Slots : parts[s].from \in {"nothing", "nocontent", "cgi", "file"}

(* MissMeansNoFile: the static file and the program are looked for at two
   moments.  As long as no static file comes into being in between, a miss
   with nothing in the error log means that at one single moment there was
   neither; so replacing a text by a program, program first, never makes a
   request miss.  Replacing a program by a text can.                       *)
MissMeansNoFile ==
  (/\ pc = "done" /\ outcome = "miss" /\ config.cgi
   /\ ~TooLong
   /\ \A k \in {"txt", "cgi"} : <<"main", k>> \notin errors
   /\ ~appeared) => gap

(* OutcomeNamesBody: the outcome in the access log names the body that was
   sent, whatever became of header and footer and of the size limit, and an
   answer for which a program failed is never logged as a success.         *)
OutcomeNamesBody ==
  pc = "done" =>
    /\ outcome = "hit" <=> response.from = "file"
    /\ outcome = "cgi_hit" <=> response.from = "cgi"
    /\ outcome \in {"miss", "cgi_fail"} <=> response.from = "nocontent"
    /\ outcome = "cgi_fail" => <<"main", "cgi">> \in errors
    /\ <<"main", "cgi">> \in errors => outcome \in {"cgi_fail", "miss"}

\* A part as whole lines.
Lines(b) == IF b = <<>> \/ EndsCRLF(b) THEN b ELSE b \o CRLF

(* AnswerIsItsParts: an answer is header, content, footer and credits one
   after the other, each as whole lines, none of them joined to the line of
   another or missing, with no CRLF added to a part that has one: exactly
   when these bytes, after sanitising and with every CRLF that was added, are
   within max_response_bytes; and otherwise it is NoContentBody.  However it
   was put together it may be sent: no stray CR or LF and no control arises
   where two parts meet, and it is UTF-8 where that is required.           *)
AnswerIsItsParts ==
  LET body(s) == Lines(parts[s].body)
      page == body("header") \o body("main") \o body("footer")
                \o (IF config.credits THEN CreditsBody ELSE <<>>)
  IN  pc = "done" =>
        /\ CleanLines(response.body, config.utf8)
        /\ response.body = IF Len(page) <= MaxResponseBytes THEN page ELSE NoContentBody

(* SanitizedIsTidy: whatever file or program output a request reads, what
   sanitizeBody makes of it is tidy: as many lines, each ended by CRLF, no
   control byte, no C1 control either as a byte or as a rune, no stray line
   end, and sanitising it again changes nothing.                           *)
SanitizedIsTidy ==
  pc \in {"read", "run"} => Tidy(opened.text, config.utf8)
=============================================================================
