--------------------------- MODULE RequestParser ---------------------------
(***************************************************************************)
(* parseRequest (internal/server/request.go): one complete request line is *)
(* turned into flags, a target and a canonical form, or refused.           *)
(*                                                                         *)
(* A line is the sequence of its white-space separated tokens, how they    *)
(* are spaced, and its ending; readLine hands over complete lines only, so *)
(* the ending is CRLF or LF.  The spacing is "single" (one space between   *)
(* tokens, none around), "wide" (any other run of spaces) or "exotic"      *)
(* (another rune strings.Fields would split at).  A token that starts with *)
(* "/" has a name and a value (Bare without "="); any other token is a     *)
(* target.  A text the rune, length and shape rules refuse is one outside  *)
(* FlagNames, FlagValues or TargetNames: empty or overlong, "@", a second  *)
(* "=", ".txt" or ".cgi" at the end, a dot at an edge or two in a row.     *)
(*                                                                         *)
(* A definition that ends in "_" is a faulty variant of the one after it,  *)
(* kept to show that a property would notice the fault.                    *)
(***************************************************************************)
EXTENDS Naturals, FiniteSets, Sequences

CONSTANTS FlagNames,    \* the names validFlagName accepts
          FlagValues,   \* the values validFlagValue accepts
          TargetNames,  \* the targets validTargetComponent accepts
          Malformed,    \* stands for every text they refuse
          Bare,         \* the value of a flag without "="
          W,            \* the name of the finger protocol's own flag
          MaxFlags,     \* maxFlagsPerRequest
          MaxTokens     \* bound: the tokens of a line

ASSUME ParserAssumption ==
  /\ W \in FlagNames /\ MaxFlags \in Nat \ {0} /\ MaxTokens \in Nat
  /\ Malformed \notin FlagNames \cup FlagValues \cup TargetNames \cup {Bare}
  /\ Bare \notin FlagValues

\* The listener's protocol, with extendFinger folded in.
Modes == {"finger", "extended", "fingers"}

Flags == [slash : {TRUE}, name : FlagNames, value : FlagValues \cup {Bare}]
Targets == [slash : {FALSE}, name : TargetNames, value : {Bare}]
Tokens == [slash : {TRUE}, name : FlagNames \cup {Malformed},
                           value : FlagValues \cup {Bare, Malformed}]
            \cup [slash : {FALSE}, name : TargetNames \cup {Malformed}, value : {Bare}]

Lines == [toks : UNION {[1..n -> Tokens] : n \in 0..MaxTokens},
          spacing : {"single", "wide", "exotic"}, ending : {"CRLF", "LF"}]

VARIABLES mode,      \* which parser runs
          line,      \* the raw line
          phase,     \* "start", "scan", "accepted" or "rejected"
          rest,      \* the tokens the loop has not seen
          flags,     \* Request.Flags
          target,    \* the target token, at most one
          canonical  \* Request.Canonical as tokens joined by single spaces

vars == <<mode, line, phase, rest, flags, target, canonical>>
----------------------------------------------------------------------------
IsFlag(t) == t \in Flags           \* parseFlag, validFlagName, validFlagValue
IsTarget(t) == t \in Targets       \* parseTarget, validTargetComponent

Empty(l) == l.toks = <<>> /\ l.spacing = "single"

\* validRequestRunes: of white space only the space itself may occur.
CleanRunes(l) == l.spacing # "exotic"

WFlag == [slash |-> TRUE, name |-> W, value |-> Bare]

BuildCanonical_(fs, tg) == tg \o fs
BuildCanonical(fs, tg) == fs \o tg

Init == /\ mode \in Modes
        /\ line \in Lines
        /\ phase = "start"
        /\ rest = <<>> /\ flags = <<>> /\ target = <<>> /\ canonical = <<>>

Reject == /\ phase' = "rejected"
          /\ UNCHANGED <<mode, line, rest, flags, target, canonical>>

Accept(tg, cn) == /\ phase' = "accepted"
                  /\ target' = tg
                  /\ canonical' = cn
                  /\ UNCHANGED <<mode, line, rest, flags>>

(* parseFingerRequest without extendFinger: the line is "/W", a target, or
   "/W", one space and a target.                                           *)
PlainFinger_ ==
  LET toks == line.toks
      tg == IF toks # <<>> /\ toks[1] = WFlag THEN Tail(toks) ELSE toks
  IN  /\ phase = "start" /\ mode = "finger"
      /\ IF \/ Empty(line)
            \/ line.spacing = "single" /\ toks = <<WFlag>>
            \/ line.spacing = "single" /\ Len(tg) = 1 /\ IsTarget(tg[1])
         THEN Accept(tg, tg)
         ELSE Reject

PlainFinger ==
  LET toks == line.toks
      tg == IF toks # <<>> /\ toks[1] = WFlag THEN Tail(toks) ELSE toks
  IN  /\ phase = "start" /\ mode = "finger"
      /\ IF \/ Empty(line)
            \/ line.spacing = "single" /\ toks = <<WFlag>>
            \/ line.spacing = "single" /\ Len(tg) = 1 /\ IsTarget(tg[1])
         THEN Accept(tg, toks)
         ELSE Reject

(* The two ways into parseStructuredRequest, with what comes before its
   loop: fingers insists on CRLF, an empty line asks for the index, a line
   of spaces or with a rune that is not allowed is refused.                *)
Begin ==
  /\ phase = "start" /\ mode # "finger"
  /\ IF mode = "fingers" /\ line.ending # "CRLF" THEN Reject
     ELSE IF Empty(line) THEN Accept(<<>>, <<>>)
     ELSE IF ~CleanRunes(line) \/ line.toks = <<>> THEN Reject
     ELSE /\ phase' = "scan"
          /\ rest' = line.toks
          /\ UNCHANGED <<mode, line, flags, target, canonical>>

\* One iteration over a token that starts with "/".
ScanFlag_ ==
  LET t == Head(rest)
      seen == \E i \in 1..Len(flags) : flags[i].name = t.name
  IN  /\ phase = "scan" /\ rest # <<>> /\ t.slash
      /\ IF target # <<>> \/ ~IsFlag(t) \/ Len(flags) >= MaxFlags THEN Reject
         ELSE /\ rest' = Tail(rest)
              /\ flags' = IF seen THEN flags ELSE Append(flags, t)
              /\ UNCHANGED <<mode, line, phase, target, canonical>>

ScanFlag ==
  LET t == Head(rest)
      seen == \E i \in 1..Len(flags) : flags[i].name = t.name
  IN  /\ phase = "scan" /\ rest # <<>> /\ t.slash
      /\ IF target # <<>> \/ ~IsFlag(t) \/ (~seen /\ Len(flags) >= MaxFlags) THEN Reject
         ELSE /\ rest' = Tail(rest)
              /\ flags' = IF seen THEN flags ELSE Append(flags, t)
              /\ UNCHANGED <<mode, line, phase, target, canonical>>

\* One iteration over any other token; it is checked after the loop.
ScanTarget_ ==
  /\ phase = "scan" /\ rest # <<>> /\ ~Head(rest).slash
  /\ rest' = Tail(rest)
  /\ target' = Append(target, Head(rest))
  /\ UNCHANGED <<mode, line, phase, flags, canonical>>

ScanTarget ==
  /\ phase = "scan" /\ rest # <<>> /\ ~Head(rest).slash
  /\ IF target # <<>> THEN Reject
     ELSE /\ rest' = Tail(rest)
          /\ target' = <<Head(rest)>>
          /\ UNCHANGED <<mode, line, phase, flags, canonical>>

Finish ==
  /\ phase = "scan" /\ rest = <<>>
  /\ IF target # <<>> /\ ~IsTarget(target[1]) THEN Reject
     ELSE Accept(target, BuildCanonical(flags, target))

Next == PlainFinger \/ Begin \/ ScanFlag \/ ScanTarget \/ Finish

Spec == Init /\ [][Next]_vars
----------------------------------------------------------------------------
(* What a line means, said without a loop: a reference for the parser.     *)

\* The indices of the flags among the first n tokens of s that no earlier
\* token repeats.
FirstOfName(s, n) == {i \in 1..n : s[i].slash /\ \A j \in 1..(i - 1) : s[j].name # s[i].name}

\* The members of a set of numbers that have k - 1 smaller ones in it.
WithRank(S, k) == {i \in S : Cardinality({j \in S : j <= i}) = k}
Nth(S, k) == CHOOSE i \in WithRank(S, k) : TRUE

Kept(s) == LET first == FirstOfName(s, Len(s))
           IN  [k \in 1..Cardinality(first) |-> s[Nth(first, k)]]

WellFormed(s) ==
  /\ s # <<>>
  /\ \A i \in 1..(Len(s) - 1) : IsFlag(s[i])
  /\ IsFlag(s[Len(s)]) \/ IsTarget(s[Len(s)])
  /\ Cardinality(FirstOfName(s, Len(s))) <= MaxFlags

TargetOf(s) == IF s # <<>> /\ IsTarget(s[Len(s)]) THEN <<s[Len(s)]>> ELSE <<>>

\* The requests a line stands for: none or one.
Meaning(m, l) ==
  IF m = "fingers" /\ l.ending # "CRLF" THEN {}
  ELSE IF Empty(l) THEN {[flags |-> <<>>, target |-> <<>>, canonical |-> <<>>]}
  ELSE IF m # "finger" /\ CleanRunes(l) /\ WellFormed(l.toks)
       THEN {[flags |-> Kept(l.toks), target |-> TargetOf(l.toks),
              canonical |-> Kept(l.toks) \o TargetOf(l.toks)]}
  ELSE IF m = "finger" /\ l.spacing = "single"
          /\ l.toks \in {<<WFlag>>} \cup {<<t>> : t \in Targets} \cup {<<WFlag, t>> : t \in Targets}
       THEN {[flags |-> <<>>, target |-> TargetOf(l.toks), canonical |-> l.toks]}
  ELSE {}

Parsed == [flags |-> flags, target |-> target, canonical |-> canonical]
----------------------------------------------------------------------------
(* TypeOK: the parser keeps at most MaxFlags flags and one target, of the
   right shape (parseStructuredRequest, lines 167-190).                    *)
TypeOK ==
  /\ mode \in Modes
  /\ line \in Lines
  /\ phase \in {"start", "scan", "accepted", "rejected"}
  /\ rest \in Seq(Tokens)
  /\ flags \in Seq(Flags) /\ Len(flags) <= MaxFlags
  /\ target \in Seq(Tokens) /\ Len(target) <= 1
  /\ canonical \in Seq(Flags \cup Targets)

(* ParsesAsDefined: the loop accepts exactly the lines the reference gives
   a meaning to, and builds that meaning: the first flag of a name wins, a
   repeated one does not count towards the limit, and nothing may follow
   the target.                                                             *)
ParsesAsDefined ==
  /\ phase = "accepted" => Meaning(mode, line) = {Parsed}
  /\ phase = "rejected" => Meaning(mode, line) = {}

(* CanonicalIsStable: the canonical form, which is what a CGI program reads
   on stdin and the access log records, is itself a request of the same
   protocol and means the same.                                            *)
CanonicalIsStable ==
  phase = "accepted" =>
    Meaning(mode, [toks |-> canonical, spacing |-> "single", ending |-> "CRLF"]) = {Parsed}

(* ModesAgree: turning extend_finger on, or moving a client from finger to
   fingers, changes neither the target nor the canonical form of a request
   that was accepted before.                                               *)
ModesAgree ==
  phase = "accepted" =>
    \A m \in {"extended", "fingers"} :
      LET there == Meaning(m, [line EXCEPT !.ending = "CRLF"])
      IN  /\ there # {}
          /\ \A r \in there : r.target = target /\ r.canonical = canonical
=============================================================================
