--------------------------- MODULE StartupProofs ---------------------------
(***************************************************************************)
(* Theorems about module Startup: what a configuration file means does not *)
(* depend on the order of its lines, what Validate lets through is fit to  *)
(* serve, log files are open exactly when they should be, and the logger   *)
(* writes entries of one line each and implements the abstract LogFile.    *)
(***************************************************************************)
EXTENDS Startup, TextProofs

(* Reading the file: what its first n lines say.                           *)

SetBy(n, key)   == {i \in 1..n : source[i].key = key}
FinalBy(n, key) == LastOf(SetBy(n, key), key)
StatedBy(n)     == [key \in DOMAIN Default |->
                      IF key = "tls_cgi_enable_set" THEN SetBy(n, "tls_cgi_enable") # {}
                      ELSE FinalBy(n, key)]

Loaded == Opening \cup Started \cup {"initFailed"}

LoadInv ==
    /\ source \in ConfigFiles /\ lineNo \in 0..Len(source)
    /\ stage # "loadFailed" =>
          /\ \A i \in 1..lineNo : WellFormed(source[i])
          /\ cfg = StatedBy(lineNo)
          /\ seen = {key \in Required : SetBy(lineNo, key) # {}}
    /\ stage \in Loaded => lineNo = Len(source) /\ Required \subseteq seen /\ Validate(cfg)
    /\ stage = "loadFailed" => ~Acceptable

\* A Config has a field for every key a file may name, and one more.
LEMMA DefaultKeys == /\ DOMAIN Default = Allowed \cup {"tls_cgi_enable_set"}
                     /\ "tls_cgi_enable_set" \notin Allowed
                     /\ "skip" \notin DOMAIN Default
                     /\ Default = [key \in DOMAIN Default |-> Default[key]]
                     /\ Default.tls_cgi_enable_set = FALSE
                     /\ Required \subseteq Allowed
<1>1. DOMAIN Default = Allowed \cup {"tls_cgi_enable_set"}
  BY DEF Default, Allowed, Switches, Counts, Timeouts, Paths
<1>2. /\ "tls_cgi_enable_set" \notin Allowed
      /\ "skip" \notin DOMAIN Default
      /\ Required \subseteq Allowed
  BY DEF Default, Allowed, Required, Switches, Counts, Timeouts, Paths
<1>3. Default = [key \in DOMAIN Default |-> Default[key]]
  BY DEF Default
<1>4. Default.tls_cgi_enable_set = FALSE
  BY DEF Default
<1> QED  BY <1>1, <1>2, <1>3, <1>4

\* Which parser reads the value of a key.
LEMMA Parsers ==
  ASSUME NEW v
  PROVE  /\ \A key \in Switches : Parsed(key, v) = YesNo(v)
         /\ \A key \in Counts   : Parsed(key, v) = PositiveInt(v)
         /\ \A key \in Timeouts : Parsed(key, v) = MillisOf(v)
         /\ \A key \in Paths    : Parsed(key, v) = {v.word}
         /\ Parsed("bind_ip", v) = {v.word} \cap Addresses
         /\ Parsed("tls_enable", v) = {v.word} \cap {"no", "yes_both", "yes_strict"}
         /\ Parsed("trusted_proxy_ips", v) = {v.word} \cap IPLists
         /\ Parsed("log_group", v) = {v.word} \ {"two words"}
         /\ Parsed("log_umask", v) = {v.num} \ {NaN}
         /\ Parsed("log_format", v) = {v.word}
<1> DEFINE Single == {"bind_ip", "tls_enable", "trusted_proxy_ips", "log_group",
                      "log_umask", "log_format"}
<1>0. /\ Switches \cap (Counts \cup Timeouts \cup Paths \cup Single) = {}
      /\ Counts \cap (Timeouts \cup Paths \cup Single) = {}
      /\ Timeouts \cap (Paths \cup Single) = {} /\ Paths \cap Single = {}
  BY DEF Switches, Counts, Timeouts, Paths
<1>1. \A key \in Switches : Parsed(key, v) = YesNo(v)    BY <1>0 DEF Parsed
<1>2. \A key \in Counts : Parsed(key, v) = PositiveInt(v)  BY <1>0 DEF Parsed
<1>3. \A key \in Timeouts : Parsed(key, v) = MillisOf(v)  BY <1>0 DEF Parsed
<1>4. \A key \in Paths : Parsed(key, v) = {v.word}        BY <1>0 DEF Parsed
<1>5. /\ Parsed("bind_ip", v) = {v.word} \cap Addresses
      /\ Parsed("tls_enable", v) = {v.word} \cap {"no", "yes_both", "yes_strict"}
      /\ Parsed("trusted_proxy_ips", v) = {v.word} \cap IPLists
  BY DEF Parsed, Switches, Counts, Timeouts, Paths
<1>6. /\ Parsed("log_group", v) = {v.word} \ {"two words"}
      /\ Parsed("log_umask", v) = {v.num} \ {NaN}
      /\ Parsed("log_format", v) = {v.word}
  BY DEF Parsed, Switches, Counts, Timeouts, Paths
<1> QED  BY <1>1, <1>2, <1>3, <1>4, <1>5, <1>6

\* A parser makes at most one value of a text.
LEMMA SingleValue ==
  ASSUME NEW key \in Allowed, NEW v, NEW a \in Parsed(key, v), NEW b \in Parsed(key, v)
  PROVE  a = b
<1>1. CASE key \in Switches
  <2>1. a \in YesNo(v) /\ b \in YesNo(v)  BY <1>1, Parsers
  <2> QED  BY <2>1 DEF YesNo
<1>2. CASE key \in Counts
  <2>1. a \in PositiveInt(v) /\ b \in PositiveInt(v)  BY <1>2, Parsers
  <2> QED  BY <2>1 DEF PositiveInt
<1>3. CASE key \in Timeouts
  <2>1. a \in MillisOf(v) /\ b \in MillisOf(v)  BY <1>3, Parsers
  <2> QED  BY <2>1 DEF MillisOf, PositiveInt
<1>4. CASE key \in Paths
  <2>1. a \in {v.word} /\ b \in {v.word}  BY <1>4, Parsers
  <2> QED  BY <2>1
<1>5. CASE key \in {"bind_ip", "tls_enable", "log_group", "log_umask",
                    "log_format", "trusted_proxy_ips"}
  <2>1. Parsed(key, v) \subseteq {v.word} \/ Parsed(key, v) \subseteq {v.num}
    BY <1>5, Parsers
  <2> QED  BY <2>1
<1> QED  BY <1>1, <1>2, <1>3, <1>4, <1>5 DEF Allowed

\* A number beyond all of a set is the greatest when it joins them.
LEMMA MaxOfNext ==
  ASSUME NEW n \in Nat, NEW S \in SUBSET (1..n)
  PROVE  Max(S \cup {n + 1}) = n + 1
<1>1. \A y \in S \cup {n + 1} : n + 1 >= y  OBVIOUS
<1>2. \A x \in S \cup {n + 1} : (\A y \in S \cup {n + 1} : x >= y) => x = n + 1
  OBVIOUS
<1> QED  BY <1>1, <1>2 DEF Max

\* What the lines of a configuration file are.
LEMMA SourceLine ==
  ASSUME source \in ConfigFiles
  PROVE  /\ Len(source) \in Nat /\ DOMAIN source = 1..Len(source)
         /\ \A i \in 1..Len(source) :
               source[i] \in [key : STRING, value : [word : STRING \ {""}, num : Int]]
  BY StartupAssumption, LenProperties, ElementOfSeq

\* What all lines of a file say is what the file says.
LEMMA WholeFile ==
  ASSUME source \in ConfigFiles
  PROVE  /\ \A key : SetBy(Len(source), key) = Setting(key)
         /\ \A key : FinalBy(Len(source), key) = Final(key)
         /\ StatedBy(Len(source)) = Stated
<1>1. \A key : SetBy(Len(source), key) = Setting(key)
  BY SourceLine DEF SetBy, Setting
<1>2. ASSUME NEW key PROVE FinalBy(Len(source), key) = Final(key)
  <2>1. SetBy(Len(source), key) = Setting(key)  BY <1>1
  <2> QED  BY <2>1 DEF FinalBy, Final
<1>3. SetBy(Len(source), "tls_cgi_enable") = Setting("tls_cgi_enable")  BY <1>1
<1>4. \A key \in DOMAIN Default : FinalBy(Len(source), key) = Final(key)  BY <1>2
<1>5. StatedBy(Len(source)) = Stated  BY <1>3, <1>4, Zenon DEF StatedBy, Stated
<1> QED  BY <1>1, <1>2, <1>5

\* What one more line adds to the settings.
LEMMA NextLine ==
  ASSUME source \in ConfigFiles, NEW n \in Nat, n < Len(source)
  PROVE  /\ \A key : source[n + 1].key # key => /\ SetBy(n + 1, key) = SetBy(n, key)
                                               /\ FinalBy(n + 1, key) = FinalBy(n, key)
         /\ LET key == source[n + 1].key
            IN  /\ SetBy(n + 1, key) # {}
                /\ key \in Allowed =>
                      \A v \in Parsed(key, source[n + 1].value) : FinalBy(n + 1, key) = v
<1>1. ASSUME NEW key, source[n + 1].key # key
      PROVE  /\ SetBy(n + 1, key) = SetBy(n, key)
             /\ FinalBy(n + 1, key) = FinalBy(n, key)
  <2>1. SetBy(n + 1, key) = SetBy(n, key)  BY <1>1 DEF SetBy
  <2>2. FinalBy(n + 1, key) = FinalBy(n, key)  BY <2>1 DEF FinalBy
  <2> QED  BY <2>1, <2>2
<1> DEFINE k == source[n + 1].key
<1>2. SetBy(n + 1, k) = SetBy(n, k) \cup {n + 1} /\ SetBy(n, k) \in SUBSET (1..n)
  BY DEF SetBy
<1>3. ASSUME k \in Allowed, NEW v \in Parsed(k, source[n + 1].value)
      PROVE  FinalBy(n + 1, k) = v
  <2>1. Max(SetBy(n + 1, k)) = n + 1  BY <1>2, MaxOfNext
  <2> DEFINE values == Parsed(k, source[n + 1].value)
             u == CHOOSE x \in values : TRUE
  <2>2. SetBy(n + 1, k) # {}  BY <1>2
  <2>3. FinalBy(n + 1, k) = u  BY <2>1, <2>2, Zenon DEF FinalBy, LastOf
  <2>4. u \in values  BY <1>3, Zenon
  <2>5. u = v  BY <1>3, <2>4, SingleValue
  <2> QED  BY <2>3, <2>5
<1> QED  BY <1>1, <1>2, <1>3

\* One accepted line turns what n lines state into what n + 1 lines state.
LEMMA LineApplied ==
  ASSUME source \in ConfigFiles, NEW n \in Nat, n < Len(source),
         NEW c \in ApplyLine(StatedBy(n), source[n + 1])
  PROVE  c = StatedBy(n + 1) /\ WellFormed(source[n + 1])
<1> DEFINE l == source[n + 1]
<1>1. CASE l.key = "skip"
  <2>1. c = StatedBy(n)  BY <1>1 DEF ApplyLine
  <2>2. \A key \in DOMAIN Default : SetBy(n + 1, key) = SetBy(n, key)
                                  /\ FinalBy(n + 1, key) = FinalBy(n, key)
    BY <1>1, NextLine, DefaultKeys
  <2>3. SetBy(n + 1, "tls_cgi_enable") = SetBy(n, "tls_cgi_enable")
    BY <1>1, NextLine
  <2>4. StatedBy(n + 1) = StatedBy(n)  BY <2>2, <2>3, Zenon DEF StatedBy
  <2> QED  BY <1>1, <2>1, <2>4 DEF WellFormed
<1>2. CASE l.key # "skip"
  <2>1. l.key \in Allowed  BY <1>2 DEF ApplyLine
  <2>2. PICK v \in Parsed(l.key, l.value) : c = Store(StatedBy(n), l.key, v)
    BY <1>2, <2>1 DEF ApplyLine
  <2>3. l.key \in DOMAIN Default /\ l.key # "tls_cgi_enable_set"
    BY <2>1, DefaultKeys
  <2>4. DOMAIN c = DOMAIN Default  BY <2>2 DEF Store, StatedBy
  <2>5. ASSUME NEW key \in DOMAIN Default PROVE c[key] = StatedBy(n + 1)[key]
    <3>1. CASE key = l.key
      <4>1. c[key] = v  BY <2>2, <2>3, <3>1 DEF Store, StatedBy
      <4>2. StatedBy(n + 1)[key] = FinalBy(n + 1, key)  BY <2>3, <3>1 DEF StatedBy
      <4> QED  BY <3>1, <4>1, <4>2, <2>1, NextLine
    <3>2. CASE key = "tls_cgi_enable_set"
      <4>1. c[key] = (StatedBy(n)[key] \/ l.key = "tls_cgi_enable")
        BY <2>2, <2>3, <3>2, Zenon DEF Store, StatedBy
      <4>2. StatedBy(n)[key] = (SetBy(n, "tls_cgi_enable") # {})
        BY <3>2, Zenon DEF StatedBy
      <4>3. StatedBy(n + 1)[key] = (SetBy(n + 1, "tls_cgi_enable") # {})
        BY <3>2, Zenon DEF StatedBy
      <4>4. SetBy(n + 1, "tls_cgi_enable") # {}
              <=> SetBy(n, "tls_cgi_enable") # {} \/ l.key = "tls_cgi_enable"
        BY NextLine
      <4> QED  BY <4>1, <4>2, <4>3, <4>4, Zenon
    <3>3. CASE key # l.key /\ key # "tls_cgi_enable_set"
      <4>1. c[key] = StatedBy(n)[key]  BY <2>2, <3>3 DEF Store, StatedBy
      <4>2. StatedBy(n)[key] = FinalBy(n, key)  BY <3>3 DEF StatedBy
      <4>3. StatedBy(n + 1)[key] = FinalBy(n + 1, key)  BY <3>3 DEF StatedBy
      <4> QED  BY <3>3, <4>1, <4>2, <4>3, NextLine
    <3> QED  BY <3>1, <3>2, <3>3
  <2>6. c = [key \in DOMAIN Default |-> c[key]]  BY <2>2 DEF Store, StatedBy
  <2>7. StatedBy(n + 1) = [key \in DOMAIN Default |-> StatedBy(n + 1)[key]]
    BY Zenon DEF StatedBy
  <2>8. c = StatedBy(n + 1)  BY <2>5, <2>6, <2>7
  <2> QED  BY <2>1, <2>2, <2>8 DEF WellFormed
<1> QED  BY <1>1, <1>2

\* A step that leaves the file alone leaves its meaning alone.
LEMMA SameFile ==
  ASSUME UNCHANGED source
  PROVE  /\ \A n, key : SetBy(n, key)' = SetBy(n, key)
         /\ \A n : StatedBy(n)' = StatedBy(n)
         /\ Acceptable' <=> Acceptable
<1>1. \A n, key : SetBy(n, key)' = SetBy(n, key)  BY DEF SetBy
<1>2. \A S, key : LastOf(S, key)' = LastOf(S, key)  BY DEF LastOf
<1>3. \A n : StatedBy(n)' = StatedBy(n)  BY <1>1, <1>2 DEF StatedBy, FinalBy
<1>4. Stated' = Stated  BY <1>2 DEF Stated, Final, Setting
<1>5. Acceptable' <=> Acceptable  BY <1>4 DEF Acceptable, WellFormed, Setting
<1> QED  BY <1>1, <1>3, <1>5

\* LoadInv holds at the start.
LEMMA LoadInit == Init => LoadInv
<1> SUFFICES ASSUME Init PROVE LoadInv
  OBVIOUS
<1>1. source \in ConfigFiles /\ lineNo = 0 /\ stage = "open"  BY DEF Init
<1>2. \A key : SetBy(0, key) = {}  BY DEF SetBy
<1>3. StatedBy(0) = [key \in DOMAIN Default |-> Default[key]]
  <2>1. \A key : FinalBy(0, key) = Default[key]  BY <1>2 DEF FinalBy, LastOf
  <2>2. (SetBy(0, "tls_cgi_enable") # {}) = Default.tls_cgi_enable_set
    BY <1>2, DefaultKeys
  <2> QED  BY <2>1, <2>2, Zenon DEF StatedBy
<1>4. cfg = StatedBy(0)  BY <1>3, DefaultKeys DEF Init
<1>5. seen = {key \in Required : SetBy(0, key) # {}}  BY <1>2 DEF Init
<1>6. lineNo \in 0..Len(source)
  <2>1. Len(source) \in Nat  BY <1>1, SourceLine
  <2> QED  BY <1>1, <2>1
<1>7. stage \notin Loaded /\ stage # "loadFailed"
  BY <1>1 DEF Loaded, Opening, Started
<1> QED  BY <1>1, <1>4, <1>5, <1>6, <1>7 DEF LoadInv

\* Steps after loading keep what was loaded.
LEMMA LoadKept ==
  ASSUME LoadInv, UNCHANGED configVars,
         stage' \in Loaded => stage \in Loaded,
         stage' = "loadFailed" <=> stage = "loadFailed"
  PROVE  LoadInv'
<1>1. /\ source' = source /\ lineNo' = lineNo /\ cfg' = cfg /\ seen' = seen
  BY DEF configVars
<1>2. /\ StatedBy(lineNo)' = StatedBy(lineNo)
      /\ \A key : SetBy(lineNo, key)' = SetBy(lineNo, key)
      /\ Acceptable' <=> Acceptable
      /\ Validate(cfg)' <=> Validate(cfg)
  <2>1. \A n : StatedBy(n)' = StatedBy(n)  BY <1>1, SameFile
  <2> QED  BY <1>1, SameFile, <2>1 DEF Validate, StatedBy, FinalBy, SetBy, LastOf
<1>3. \A i : WellFormed(source[i])' <=> WellFormed(source[i])  BY <1>1 DEF WellFormed
<1> QED  BY <1>1, <1>2, <1>3 DEF LoadInv

\* Reading one more line preserves it.
LEMMA LoadReads == LoadInv /\ ReadLine => LoadInv'
<1> SUFFICES ASSUME LoadInv, ReadLine PROVE LoadInv'
  OBVIOUS
<1>1. /\ source' = source /\ lineNo' = lineNo + 1 /\ stage = "scan"
      /\ lineNo < Len(source) /\ source \in ConfigFiles /\ lineNo \in 0..Len(source)
  BY DEF ReadLine, LoadInv
<1>2. Len(source) \in Nat /\ lineNo \in Nat /\ lineNo' \in 0..Len(source)
  <2>1. Len(source) \in Nat  BY <1>1, SourceLine
  <2> QED  BY <1>1, <2>1
<1>3. /\ \A i \in 1..lineNo : WellFormed(source[i])
      /\ cfg = StatedBy(lineNo)
      /\ seen = {key \in Required : SetBy(lineNo, key) # {}}
  BY <1>1 DEF LoadInv
<1> DEFINE l == source[lineNo + 1]
<1>4. CASE ApplyLine(cfg, l) = {} /\ stage' = "loadFailed"
  <2>1. ~WellFormed(l)
    <3>1. l.key # "skip"  BY <1>4 DEF ApplyLine
    <3>2. ASSUME l.key \in Allowed, NEW v \in Parsed(l.key, l.value) PROVE FALSE
      BY <1>4, <3>1, <3>2 DEF ApplyLine
    <3> QED  BY <3>1, <3>2 DEF WellFormed
  <2>2. lineNo + 1 \in DOMAIN source
    <3>1. DOMAIN source = 1..Len(source)  BY <1>1, SourceLine
    <3> QED  BY <1>1, <1>2, <3>1
  <2>3. ~Acceptable  BY <2>1, <2>2 DEF Acceptable
  <2>4. ~Acceptable'  BY <2>3, <1>1, SameFile
  <2>5. stage' \notin Loaded  BY <1>4 DEF Loaded, Opening, Started
  <2> QED  BY <1>1, <1>2, <1>4, <2>4, <2>5 DEF LoadInv
<1>5. CASE /\ cfg' \in ApplyLine(cfg, l)
           /\ seen' = seen \cup ({l.key} \cap Required) /\ stage' = stage
  <2>1. cfg' = StatedBy(lineNo + 1) /\ WellFormed(l)
    BY <1>1, <1>2, <1>3, <1>5, LineApplied
  <2>2. \A i \in 1..(lineNo + 1) : WellFormed(source[i])  BY <1>2, <1>3, <2>1
  <2>3. seen' = {key \in Required : SetBy(lineNo + 1, key) # {}}
    <3>1. \A key : SetBy(lineNo + 1, key) # {} <=> SetBy(lineNo, key) # {} \/ key = l.key
      BY <1>1, <1>2, NextLine
    <3> QED  BY <1>3, <1>5, <3>1
  <2>4. cfg' = StatedBy(lineNo)'
    BY <1>1, <2>1 DEF StatedBy, FinalBy, SetBy, LastOf
  <2>5. seen' = {key \in Required : SetBy(lineNo, key)' # {}}
    BY <1>1, <2>3 DEF SetBy
  <2>6. \A i \in 1..lineNo' : WellFormed(source[i])'
    BY <1>1, <2>2 DEF WellFormed
  <2>7. stage' \notin Loaded /\ stage' # "loadFailed"
    BY <1>1, <1>5 DEF Loaded, Opening, Started
  <2> QED  BY <1>1, <1>2, <2>4, <2>5, <2>6, <2>7 DEF LoadInv
<1> QED  BY <1>4, <1>5 DEF ReadLine

\* So does the end of the file.
LEMMA LoadFinishes == LoadInv /\ FinishLoad => LoadInv'
<1> SUFFICES ASSUME LoadInv, FinishLoad PROVE LoadInv'
  OBVIOUS
<1>1. /\ UNCHANGED <<source, lineNo, cfg, seen>> /\ lineNo = Len(source)
      /\ stage = "scan" /\ source \in ConfigFiles
  BY DEF FinishLoad, LoadInv, configVars
<1>2. /\ \A i \in 1..lineNo : WellFormed(source[i])
      /\ cfg = Stated
      /\ seen = {key \in Required : Setting(key) # {}}
  BY <1>1, WholeFile DEF LoadInv
<1>3. CASE Required \subseteq seen /\ Validate(cfg)
  <2>1. stage' = "errorLog"  BY <1>3 DEF FinishLoad
  <2>2. /\ Required \subseteq seen' /\ Validate(cfg)'
        /\ stage' \in Loaded /\ stage' # "loadFailed"
    BY <1>1, <1>3, <2>1 DEF Validate, Loaded, Opening
  <2>3. /\ cfg = StatedBy(lineNo)
        /\ seen = {key \in Required : SetBy(lineNo, key) # {}}
        /\ \A i \in 1..lineNo : WellFormed(source[i])
    BY <1>1 DEF LoadInv
  <2>4. cfg' = StatedBy(lineNo)'
    BY <1>1, <2>3 DEF SetBy, StatedBy, FinalBy, LastOf
  <2>5. seen' = {key \in Required : SetBy(lineNo, key)' # {}}
    BY <1>1, <2>3 DEF SetBy
  <2>6. \A i \in 1..lineNo' : WellFormed(source[i])'
    BY <1>1, <2>3 DEF WellFormed
  <2>7. lineNo' \in 0..Len(source') /\ lineNo' = Len(source')  BY <1>1 DEF LoadInv
  <2> QED  BY <1>1, <2>2, <2>4, <2>5, <2>6, <2>7 DEF LoadInv
<1>4. CASE ~(Required \subseteq seen /\ Validate(cfg))
  <2>1. stage' = "loadFailed"  BY <1>4 DEF FinishLoad
  <2>2. ~Acceptable  BY <1>2, <1>4 DEF Acceptable
  <2>3. ~Acceptable'  BY <1>1, <2>2, SameFile
  <2>4. stage' \notin Loaded  BY <2>1 DEF Loaded, Opening, Started
  <2> QED  BY <1>1, <2>1, <2>3, <2>4 DEF LoadInv
<1> QED  BY <1>3, <1>4

\* So does every other step.
LEMMA LoadStep == LoadInv /\ [Next]_vars => LoadInv'
<1> SUFFICES ASSUME LoadInv, [Next]_vars PROVE LoadInv'
  OBVIOUS
<1> USE DEF Loaded, Opening, Started
<1>1. CASE OpenConfig       BY <1>1, LoadKept DEF OpenConfig
<1>2. CASE ReadLine         BY <1>2, LoadReads
<1>3. CASE FinishLoad       BY <1>3, LoadFinishes
<1>4. CASE OpenErrorLog     BY <1>4, LoadKept DEF OpenErrorLog
<1>5. CASE OpenAccessLog    BY <1>5, LoadKept DEF OpenAccessLog
<1>6. CASE LoadKeyPair      BY <1>6, LoadKept DEF LoadKeyPair
<1>7. CASE RunReturns       BY <1>7, LoadKept DEF RunReturns
<1>8. CASE CloseServer      BY <1>8, LoadKept DEF CloseServer
<1>9. ASSUME NEW w \in Writers, LogCall(w) \/ LogStep(w) PROVE LoadInv'
  BY <1>9, LoadKept DEF LogCall, LogStep
<1>10. CASE UNCHANGED vars  BY <1>10, LoadKept DEF vars
<1> QED  BY <1>1, <1>2, <1>3, <1>4, <1>5, <1>6, <1>7, <1>8, <1>9, <1>10
         DEF Next, MainStep, Terminated

\* LoadInv holds in every reachable state.
LEMMA LoadInductive == Spec => []LoadInv
  BY LoadInit, LoadStep, PTL DEF Spec

\* Load takes exactly the files that make sense, and reads them alike in
\* whatever order the lines come.
THEOREM LoadIsDeclarative == Spec => []LoadMeansFile
<1>1. LoadInv => LoadMeansFile
  <2> SUFFICES ASSUME LoadInv PROVE LoadMeansFile
    OBVIOUS
  <2>1. ASSUME stage \in Loaded PROVE Acceptable /\ cfg = Stated
    <3>1. /\ stage # "loadFailed" /\ lineNo = Len(source) /\ Required \subseteq seen
          /\ Validate(cfg) /\ source \in ConfigFiles
      BY <2>1 DEF LoadInv, Loaded, Opening, Started
    <3>2. /\ \A i \in DOMAIN source : WellFormed(source[i])
          /\ cfg = Stated
          /\ seen = {key \in Required : Setting(key) # {}}
      BY <3>1, WholeFile, SourceLine DEF LoadInv
    <3> QED  BY <3>1, <3>2 DEF Acceptable
  <2> QED  BY <2>1 DEF LoadMeansFile, Loaded, LoadInv
<1> QED  BY <1>1, LoadInductive, PTL
-----------------------------------------------------------------------------
(* Serving: what it listens for, and the log files that are open.          *)

As(f, wanted, state) == handle[f] = IF wanted THEN state ELSE "none"

ServeInv ==
    /\ modes = IF stage \in Started THEN ListenerModes(cfg) ELSE {}
    /\ handle \in [Files -> {"none", "open", "closed"}]
    /\ stage \in {"open", "scan", "errorLog", "accessLog"} => handle["access.log"] = "none"
    /\ stage \in {"open", "scan", "errorLog"} => handle["error.log"] = "none"
    /\ stage \in {"accessLog", "keys", "serving", "stopping", "runFailed"} =>
          As("error.log", cfg.log_errors, "open")
    /\ stage \in {"keys", "serving", "stopping", "runFailed"} =>
          As("access.log", cfg.log_requests, "open")
    /\ stage = "exit0" => /\ As("error.log", cfg.log_errors, "closed")
                          /\ As("access.log", cfg.log_requests, "closed")
    /\ stage = "initFailed" => \A f \in Files : handle[f] # "open"

\* ServeInv holds at the start.
LEMMA ServeInit == Init => ServeInv
  BY DEF Init, LoggerInit, ServeInv, Files, Started

\* It is preserved by every step.
LEMMA ServeStep == ServeInv /\ [Next]_vars => ServeInv'
<1> SUFFICES ASSUME ServeInv, [Next]_vars PROVE ServeInv'
  OBVIOUS
<1> USE DEF ServeInv, Started, Files, As
<1>1. CASE OpenConfig       BY <1>1 DEF OpenConfig, configVars, loggerVars
<1>2. CASE ReadLine         BY <1>2 DEF ReadLine, loggerVars
<1>3. CASE FinishLoad       BY <1>3 DEF FinishLoad, configVars, loggerVars
<1>4. CASE OpenErrorLog
  <2>1. stage = "errorLog" /\ cfg' = cfg /\ modes' = modes
    BY <1>4 DEF OpenErrorLog, configVars
  <2>2. CASE ~cfg.log_errors /\ stage' = "accessLog" /\ UNCHANGED loggerVars
    BY <2>1, <2>2 DEF loggerVars
  <2>3. CASE cfg.log_errors /\ stage' = "accessLog" /\ OpenLog("error.log")
    BY <2>1, <2>3 DEF OpenLog
  <2>4. CASE stage' = "initFailed" /\ UNCHANGED loggerVars
    BY <2>1, <2>4 DEF loggerVars
  <2> QED  BY <1>4, <2>2, <2>3, <2>4 DEF OpenErrorLog
<1>5. CASE OpenAccessLog
  <2>1. stage = "accessLog" /\ cfg' = cfg /\ modes' = modes
    BY <1>5 DEF OpenAccessLog, configVars
  <2>2. CASE ~cfg.log_requests /\ stage' = "keys" /\ UNCHANGED loggerVars
    BY <2>1, <2>2 DEF loggerVars
  <2>3. CASE cfg.log_requests /\ stage' = "keys" /\ OpenLog("access.log")
    BY <2>1, <2>3 DEF OpenLog
  <2>4. CASE stage' = "initFailed" /\ CloseLogs
    BY <2>1, <2>4 DEF CloseLogs, CloseAll
  <2> QED  BY <1>5, <2>2, <2>3, <2>4 DEF OpenAccessLog
<1>6. CASE LoadKeyPair
  <2>1. stage = "keys" /\ cfg' = cfg  BY <1>6 DEF LoadKeyPair, configVars
  <2>2. CASE stage' = "serving" /\ modes' = ListenerModes(cfg) /\ UNCHANGED loggerVars
    BY <2>1, <2>2 DEF loggerVars
  <2>3. CASE stage' = "initFailed" /\ Close /\ UNCHANGED modes
    BY <2>1, <2>3 DEF Close, CloseAll
  <2> QED  BY <1>6, <2>2, <2>3 DEF LoadKeyPair
<1>7. CASE RunReturns       BY <1>7 DEF RunReturns, configVars, loggerVars
<1>8. CASE CloseServer
  <2>1. /\ stage = "stopping" /\ stage' = "exit0" /\ cfg' = cfg /\ modes' = modes
        /\ handle' = CloseAll
    BY <1>8 DEF CloseServer, Close, configVars
  <2> QED  BY <2>1 DEF CloseAll
<1>9. ASSUME NEW w \in Writers, LogCall(w) \/ LogStep(w) PROVE ServeInv'
  <2>1. UNCHANGED <<stage, cfg, modes, handle>>
    BY <1>9 DEF LogCall, LogStep, configVars, Call, WriterStep, Lock, Write,
                WriteFails, Unlock
  <2> QED  BY <2>1
<1>10. CASE UNCHANGED vars  BY <1>10 DEF vars, configVars, loggerVars
<1> QED  BY <1>1, <1>2, <1>3, <1>4, <1>5, <1>6, <1>7, <1>8, <1>9, <1>10
         DEF Next, MainStep, Terminated

\* ServeInv holds in every reachable state.
LEMMA ServeInductive == Spec => []ServeInv
  BY ServeInit, ServeStep, PTL DEF Spec

\* A start that fails and a clean end leave no log file open, and a daemon
\* that serves has open what it is to write.
THEOREM LogsMatch == Spec => []LogsMatchStage
<1>1. ServeInv => LogsMatchStage
  BY DEF ServeInv, LogsMatchStage, As, Started, Files
<1> QED  BY <1>1, ServeInductive, PTL

\* A key that occurs has a last occurrence.
LastInv == \A key : SetBy(lineNo, key) # {} =>
                       Max(SetBy(lineNo, key)) \in SetBy(lineNo, key)

\* The last value of a key is always one that its parser returns.
LEMMA LastInductive == Spec => []LastInv
<1>1. LoadInv => LastInv
  <2> SUFFICES ASSUME LoadInv, NEW key, SetBy(lineNo, key) # {}
               PROVE  Max(SetBy(lineNo, key)) \in SetBy(lineNo, key)
    BY DEF LastInv
  <2>1. lineNo \in Nat
    <3>1. Len(source) \in Nat /\ lineNo \in 0..Len(source)  BY SourceLine DEF LoadInv
    <3> QED  BY <3>1
  <2>2. SetBy(lineNo, key) \in SUBSET (0..lineNo)  BY <2>1 DEF SetBy
  <2> QED  BY <2>1, <2>2, MaxOf
<1> QED  BY <1>1, LoadInductive, PTL

\* What is known of a daemon that serves.
LEMMA Serving ==
  ASSUME LoadInv, LastInv, ServeInv, stage \in Started
  PROVE  /\ cfg = Stated /\ Validate(cfg) /\ modes = ListenerModes(cfg)
         /\ \A key \in Allowed : cfg[key] = Final(key)
         /\ cfg.tls_cgi_enable_set = (Setting("tls_cgi_enable") # {})
         /\ \A key \in Allowed : Setting(key) # {} =>
               LET value == source[Max(Setting(key))].value
               IN  /\ value \in [word : STRING \ {""}, num : Int]
                   /\ cfg[key] \in Parsed(key, value)
<1>1. /\ stage # "loadFailed" /\ lineNo = Len(source) /\ Validate(cfg)
      /\ source \in ConfigFiles
  BY DEF LoadInv, Loaded, Opening, Started
<1>2. cfg = Stated /\ \A i \in DOMAIN source : WellFormed(source[i])
  BY <1>1, WholeFile, SourceLine DEF LoadInv
<1>3. ASSUME NEW key \in Allowed PROVE cfg[key] = Final(key)
  BY <1>2, DefaultKeys DEF Stated
<1>4. ASSUME NEW key \in Allowed, Setting(key) # {}
      PROVE  LET value == source[Max(Setting(key))].value
             IN  /\ value \in [word : STRING \ {""}, num : Int]
                 /\ cfg[key] \in Parsed(key, value)
  <2> DEFINE i == Max(Setting(key))
             values == Parsed(key, source[i].value)
  <2>1. i \in Setting(key)  BY <1>1, <1>4, WholeFile DEF LastInv
  <2>2. i \in 1..Len(source) /\ source[i].key = key /\ WellFormed(source[i])
    BY <1>1, <1>2, <2>1, SourceLine DEF Setting
  <2>3. source[i].value \in [word : STRING \ {""}, num : Int]
    BY <1>1, <2>2, SourceLine
  <2>4. values # {}
    <3>1. key # "skip"  BY DefaultKeys
    <3> QED  BY <2>2, <3>1 DEF WellFormed
  <2>5. cfg[key] = CHOOSE v \in values : TRUE
    BY <1>3, <1>4, Zenon DEF Final, LastOf
  <2>6. cfg[key] \in values  BY <2>4, <2>5, Zenon
  <2> QED  BY <2>3, <2>6
<1>5. cfg.tls_cgi_enable_set = (Setting("tls_cgi_enable") # {})
  BY <1>2, DefaultKeys, Zenon DEF Stated
<1>6. modes = ListenerModes(cfg)  BY DEF ServeInv
<1> QED  BY <1>1, <1>2, <1>3, <1>4, <1>5, <1>6

\* Below the largest int, a product is not bent.
LEMMA NoWrap ==
  ASSUME NEW n \in 0..MaxInt
  PROVE  Wrap(n) = n
<1>1. MaxInt \in Nat  BY ConfigAssumption
<1>2. n + MaxInt + 1 \in 0..(2 * (MaxInt + 1) - 1)  BY <1>1
<1>3. \A m \in Nat \ {0} : \A x \in 0..(m - 1) : x % m = x  OBVIOUS
<1>4. (n + MaxInt + 1) % (2 * (MaxInt + 1)) = n + MaxInt + 1
  BY <1>1, <1>2, <1>3
<1> QED  BY <1>1, <1>4 DEF Wrap

\* What Validate lets through is fit to serve with, and a timeout is the one
\* the file states unless that overflows.
THEOREM StartedIsSound == Spec => []StartedConfigIsSound
<1>1. LoadInv /\ LastInv /\ ServeInv => StartedConfigIsSound
  <2> SUFFICES ASSUME LoadInv, LastInv, ServeInv, stage \in Started
               PROVE  StartedConfigIsSound
    BY DEF StartedConfigIsSound
  <2>1. Validate(cfg) /\ modes = ListenerModes(cfg)  BY Serving
  <2>2. modes # {}
    <3>1. PlainEnabled(cfg) \/ TLSEnabled(cfg)
      BY <2>1 DEF Validate, PlainEnabled, TLSEnabled
    <3> QED  BY <2>1, <3>1 DEF ListenerModes
  <2>3. \A m \in modes : \/ /\ m.tls = FALSE /\ m.port = cfg.port /\ PlainEnabled(cfg)
                            /\ m.docRoot = cfg.doc_root /\ m.cgi = cfg.cgi_enable
                         \/ /\ m.tls = TRUE /\ m.port = cfg.tls_port /\ TLSEnabled(cfg)
                            /\ m.docRoot = EffectiveTLSDocRoot(cfg)
                            /\ m.cgi = EffectiveTLSCGIEnable(cfg)
    BY <2>1 DEF ListenerModes
  <2>4. ASSUME NEW m \in modes
        PROVE  /\ m.port \in 1..MaxPort /\ m.docRoot \in AbsPaths
               /\ m.tls => cfg.tls_cert \in AbsPaths /\ cfg.tls_key \in AbsPaths
    <3>1. EffectiveTLSDocRoot(cfg) \in AbsPaths
      BY <2>1 DEF EffectiveTLSDocRoot, Validate
    <3> QED  BY <2>1, <2>3, <3>1 DEF Validate
  <2>5. ASSUME NEW m \in modes, NEW n \in modes, m.port = n.port PROVE m = n
    <3>1. cfg.port = cfg.tls_port => ~PlainEnabled(cfg) \/ ~TLSEnabled(cfg)
      BY <2>1 DEF Validate, PlainEnabled, TLSEnabled
    <3> DEFINE plain == [tls |-> FALSE, port |-> cfg.port, docRoot |-> cfg.doc_root,
                         cgi |-> cfg.cgi_enable]
               over == [tls |-> TRUE, port |-> cfg.tls_port,
                        docRoot |-> EffectiveTLSDocRoot(cfg),
                        cgi |-> EffectiveTLSCGIEnable(cfg)]
    <3>2. \A k \in modes : \/ k = plain /\ PlainEnabled(cfg)
                           \/ k = over /\ TLSEnabled(cfg)
      BY <2>1 DEF ListenerModes
    <3>3. plain.port = cfg.port /\ over.port = cfg.tls_port  OBVIOUS
    <3> HIDE DEF plain, over
    <3> QED  BY <2>5, <3>1, <3>2, <3>3
  <2>6. ASSUME NEW f \in Files, handle[f] # "none" PROVE cfg.log_root \in AbsPaths
    <3>1. cfg.log_errors \/ cfg.log_requests
      BY <2>6 DEF ServeInv, As, Started, Files
    <3> QED  BY <2>1, <3>1 DEF Validate
  <2>7. ASSUME NEW key \in Timeouts
        PROVE  /\ cfg[key] > 0
               /\ Setting(key) # {} =>
                     LET n == source[Max(Setting(key))].value.num
                     IN  n * Milli <= MaxInt => cfg[key] = n * Milli
    <3>1. cfg[key] > 0  BY <2>1 DEF Validate, Timeouts
    <3> DEFINE value == source[Max(Setting(key))].value
    <3>2. ASSUME Setting(key) # {}, value.num * Milli <= MaxInt
          PROVE  cfg[key] = value.num * Milli
      <4>1. key \in Allowed  BY DEF Allowed
      <4>2. value.num \in Int /\ cfg[key] \in MillisOf(value)
        BY <3>2, <4>1, Serving, Parsers
      <4>3. value.num > 0 /\ cfg[key] = Wrap(value.num * Milli)
        BY <4>2 DEF MillisOf, PositiveInt
      <4>4. value.num * Milli \in 0..MaxInt
        <5>1. \A a, b \in Nat : a * b \in Nat  OBVIOUS
        <5>2. value.num \in Nat /\ Milli \in Nat /\ MaxInt \in Nat
          BY <4>2, <4>3, ConfigAssumption
        <5>3. value.num * Milli \in Nat  BY <5>1, <5>2
        <5> QED  BY <3>2, <5>2, <5>3
      <4> QED  BY <4>3, <4>4, NoWrap
    <3> QED  BY <3>1, <3>2
  <2> QED  BY <2>2, <2>4, <2>5, <2>6, <2>7 DEF StartedConfigIsSound
<1> QED  BY <1>1, LoadInductive, LastInductive, ServeInductive, PTL

\* fingers:// has its own document root and CGI switch exactly when the file
\* sets them.
THEOREM Fallback == Spec => []FingersFallsBack
<1>1. LoadInv /\ LastInv /\ ServeInv => FingersFallsBack
  <2> SUFFICES ASSUME LoadInv, LastInv, ServeInv, NEW m \in modes, m.tls
               PROVE  /\ m.docRoot = Final(IF Setting("tls_doc_root") = {} THEN "doc_root"
                                           ELSE "tls_doc_root")
                      /\ m.cgi = Final(IF Setting("tls_cgi_enable") = {} THEN "cgi_enable"
                                       ELSE "tls_cgi_enable")
    BY DEF FingersFallsBack
  <2>1. stage \in Started /\ modes = ListenerModes(cfg)  BY DEF ServeInv
  <2>2. /\ m.docRoot = EffectiveTLSDocRoot(cfg) /\ m.cgi = EffectiveTLSCGIEnable(cfg)
    BY <2>1 DEF ListenerModes
  <2>3. /\ cfg.doc_root = Final("doc_root") /\ cfg.tls_doc_root = Final("tls_doc_root")
        /\ cfg.cgi_enable = Final("cgi_enable")
        /\ cfg.tls_cgi_enable = Final("tls_cgi_enable")
        /\ cfg.tls_cgi_enable_set = (Setting("tls_cgi_enable") # {})
    BY <2>1, Serving DEF Allowed, Paths, Switches
  <2>4. cfg.tls_doc_root = "" <=> Setting("tls_doc_root") = {}
    <3>1. CASE Setting("tls_doc_root") = {}
      BY <2>3, <3>1 DEF Final, LastOf, Default
    <3>2. CASE Setting("tls_doc_root") # {}
      <4> DEFINE value == source[Max(Setting("tls_doc_root"))].value
      <4>1. value.word \in STRING \ {""} /\ cfg.tls_doc_root \in {value.word}
        BY <2>1, <3>2, Serving, Parsers DEF Allowed, Paths
      <4> QED  BY <3>2, <4>1
    <3> QED  BY <3>1, <3>2
  <2>5. m.docRoot = Final(IF Setting("tls_doc_root") = {} THEN "doc_root" ELSE "tls_doc_root")
    BY <2>2, <2>3, <2>4 DEF EffectiveTLSDocRoot
  <2>6. m.cgi = Final(IF Setting("tls_cgi_enable") = {} THEN "cgi_enable" ELSE "tls_cgi_enable")
    BY <2>2, <2>3, Zenon DEF EffectiveTLSCGIEnable
  <2> QED  BY <2>5, <2>6
<1> QED  BY <1>1, LoadInductive, LastInductive, ServeInductive, PTL
-----------------------------------------------------------------------------
(* What sanitizeLog makes of a text.                                       *)

Clean == Runes \ {"lf", "ctl"}
Written == Runes \ {"ctl"}

\* The size of a text is its length, and two more for each wide rune.
LEMMA BytesNumber ==
  \A s \in Seq(Runes) :
     Bytes(s) = Len(s) + 2 * NumberOf(s, {"wide"}) /\ Bytes(s) \in Nat
<1> TAKE s \in Seq(Runes)
<1>1. {i \in DOMAIN s : s[i] = "wide"} = {i \in DOMAIN s : s[i] \in {"wide"}}  OBVIOUS
<1>2. NumberOf(s, {"wide"}) \in Nat /\ Len(s) \in Nat  BY NumberAppend, LenProperties
<1> QED  BY <1>1, <1>2 DEF Bytes, NumberOf

\* An empty text has no bytes.
LEMMA BytesEmpty == Bytes(<<>>) = 0
<1>1. <<>> \in Seq(Runes) /\ Len(<<>>) = 0  BY EmptySeq
<1>2. NumberOf(<<>>, {"wide"}) = 0  BY NumberEmpty
<1>3. Bytes(<<>>) = Len(<<>>) + 2 * NumberOf(<<>>, {"wide"})  BY <1>1, BytesNumber, Zenon
<1> QED  BY <1>1, <1>2, <1>3

\* Sizes add up under concatenation.
LEMMA BytesConcat ==
  ASSUME NEW s \in Seq(Runes), NEW t \in Seq(Runes)
  PROVE  Bytes(s \o t) = Bytes(s) + Bytes(t)
<1>1. NumberOf(s \o t, {"wide"}) = NumberOf(s, {"wide"}) + NumberOf(t, {"wide"})
  BY NumberConcat
<1>2. s \o t \in Seq(Runes) /\ Len(s \o t) = Len(s) + Len(t)  BY ConcatProperties
<1>3. /\ NumberOf(s, {"wide"}) \in Nat /\ NumberOf(t, {"wide"}) \in Nat
      /\ Len(s) \in Nat /\ Len(t) \in Nat
  BY NumberAppend, LenProperties
<1>4. /\ Bytes(s) = Len(s) + 2 * NumberOf(s, {"wide"})
      /\ Bytes(t) = Len(t) + 2 * NumberOf(t, {"wide"})
      /\ Bytes(s \o t) = Len(s \o t) + 2 * NumberOf(s \o t, {"wide"})
  BY <1>2, BytesNumber, Zenon
<1> QED  BY <1>1, <1>2, <1>3, <1>4

\* A part of a text is a text and not larger.
LEMMA PartOf ==
  ASSUME NEW S \in SUBSET Runes, NEW s \in Seq(S), NEW a \in 1..Len(s), NEW b \in a..Len(s)
  PROVE  /\ SubSeq(s, a, b) \in Seq(S)
         /\ Len(SubSeq(s, a, b)) = b - a + 1
         /\ \A i \in 1..(b - a + 1) : SubSeq(s, a, b)[i] = s[a + i - 1]
         /\ Bytes(SubSeq(s, a, b)) <= Bytes(s)
<1> DEFINE n == Len(s)
           before == SubSeq(s, 1, a - 1)
           part   == SubSeq(s, a, b)
           after  == SubSeq(s, b + 1, n)
<1>1. n \in Nat /\ \A i \in 1..n : s[i] \in S  BY LenProperties, ElementOfSeq
<1>2. before \in Seq(S)
  <2>1. \A i \in 1..(a - 1) : s[i] \in S  BY <1>1
  <2>2. 1 \in Int /\ a - 1 \in Int  BY <1>1
  <2> QED  BY <2>1, <2>2, SubSeqProperties
<1>3. /\ part \in Seq(S) /\ Len(part) = b - a + 1
      /\ \A i \in 1..(b - a + 1) : part[i] = s[a + i - 1]
  <2>1. \A i \in a..b : s[i] \in S  BY <1>1
  <2>2. a \in Int /\ b \in Int /\ a <= b + 1  BY <1>1
  <2> QED  BY <2>1, <2>2, SubSeqProperties
<1>4. after \in Seq(S)
  <2>1. \A i \in (b + 1)..n : s[i] \in S  BY <1>1
  <2>2. b + 1 \in Int /\ n \in Int  BY <1>1
  <2> QED  BY <2>1, <2>2, SubSeqProperties
<1>5. s = before \o (part \o after)
  <2>1. part \o after = SubSeq(s, a, n)
    <3>1. a \in 1..(n + 1) /\ b \in (a - 1)..n /\ n \in b..n  BY <1>1
    <3> QED  BY <3>1, ConcatAdjacentSubSeq
  <2>2. before \o SubSeq(s, a, n) = SubSeq(s, 1, n)
    <3>1. 1 \in 1..(n + 1) /\ a - 1 \in (1 - 1)..n /\ n \in (a - 1)..n /\ (a - 1) + 1 = a
      BY <1>1
    <3> QED  BY <3>1, ConcatAdjacentSubSeq
  <2>3. SubSeq(s, 1, n) = s  BY SubSeqFull
  <2> QED  BY <2>1, <2>2, <2>3
<1>6. before \in Seq(Runes) /\ part \in Seq(Runes) /\ after \in Seq(Runes)
  BY <1>2, <1>3, <1>4, SeqMonotonic
<1> HIDE DEF before, part, after, n
<1>7. part \o after \in Seq(Runes)  BY <1>6, ConcatProperties
<1>8. Bytes(s) = Bytes(before) + (Bytes(part) + Bytes(after))
  BY <1>5, <1>6, <1>7, BytesConcat
<1>9. Bytes(part) <= Bytes(s)  BY <1>6, <1>8, BytesNumber
<1> QED  BY <1>3, <1>9 DEF part

\* strings.TrimSpace leaves a part of the text without blanks at its ends.
LEMMA TrimmedText ==
  ASSUME NEW S \in SUBSET Runes, NEW s \in Seq(S)
  PROVE  LET t == Trimmed(s)
         IN  /\ t \in Seq(S) /\ Bytes(t) <= Bytes(s)
             /\ t # <<>> => t[1] # "sp" /\ t[Len(t)] # "sp"
             /\ t = <<>> => \A i \in DOMAIN s : s[i] = "sp"
<1> DEFINE solid == {i \in DOMAIN s : s[i] # "sp"}
           n == Len(s)
<1>1. n \in Nat /\ DOMAIN s = 1..n  BY LenProperties
<1>2. CASE solid = {}
  <2>1. Trimmed(s) = <<>>  BY <1>2 DEF Trimmed
  <2>2. <<>> \in Seq(S) /\ s \in Seq(Runes)  BY EmptySeq, SeqMonotonic
  <2>3. Bytes(s) \in Nat  BY <2>2, BytesNumber
  <2> QED  BY <1>2, <2>1, <2>2, <2>3, BytesEmpty
<1>3. CASE solid # {}
  <2> DEFINE a == Min(solid)
             b == Max(solid)
  <2>1. solid \in SUBSET Nat /\ solid \in SUBSET (0..n)  BY <1>1
  <2> HIDE DEF solid, n
  <2>2. a \in solid /\ b \in solid /\ a <= b  BY <1>1, <1>3, <2>1, MinOf, MaxOf
  <2>3. Trimmed(s) = SubSeq(s, a, b)  BY <1>3 DEF Trimmed, solid
  <2> HIDE DEF a, b
  <2>4. a \in 1..n /\ b \in a..n /\ s[a] # "sp" /\ s[b] # "sp"
    BY <1>1, <2>2 DEF solid
  <2> DEFINE t == SubSeq(s, a, b)
  <2>5. /\ t \in Seq(S) /\ Len(t) = b - a + 1 /\ Bytes(t) <= Bytes(s)
        /\ \A i \in 1..(b - a + 1) : t[i] = s[a + i - 1]
    BY <2>4, PartOf DEF n
  <2> HIDE DEF t
  <2>6. t[1] = s[a] /\ t[Len(t)] = s[b]
    <3>1. 1 \in 1..(b - a + 1) /\ b - a + 1 \in 1..(b - a + 1) /\ a + 1 - 1 = a
          /\ a + (b - a + 1) - 1 = b
      BY <1>1, <2>4
    <3> QED  BY <2>5, <3>1
  <2>7. t # <<>>
    <3>1. Len(t) # 0  BY <1>1, <2>4, <2>5
    <3> QED  BY <2>5, <3>1, EmptySeq
  <2> QED  BY <2>3, <2>4, <2>5, <2>6, <2>7 DEF t
<1> QED  BY <1>2, <1>3

\* Escape as a function, whose results have no line feed and no control.
Escapes == [r \in Runes |-> Escape(r)]
LEMMA EscapeTypes == Spelling(Escapes, Runes, Clean)
<1>1. ASSUME NEW r \in Runes PROVE Escape(r) \in Seq(Clean)
  <2>1. <<"sp">> \in Seq(Clean) /\ <<"a", "a", "a", "a">> \in Seq(Clean)
    BY DEF Clean, Runes
  <2>2. r \notin {"lf", "ctl"} => <<r>> \in Seq(Clean)  BY DEF Clean
  <2> QED  BY <2>1, <2>2 DEF Escape
<1> QED  BY <1>1 DEF Spelling, Escapes

\* Escaping goes rune by rune, and leaves neither line feeds nor control
\* characters.
LEMMA EscapedText ==
  ASSUME NEW s \in Seq(Runes)
  PROVE  Escaped(s) \in Seq(Clean) /\ Escaped(s) = Spread(Escapes, s)
<1>1. DOMAIN s = 1..Len(s) /\ \A i \in 1..Len(s) : s[i] \in Runes
  BY LenProperties, ElementOfSeq
<1>2. [i \in DOMAIN s |-> Escape(s[i])] = [i \in DOMAIN s |-> Escapes[s[i]]]
  BY <1>1 DEF Escapes
<1>3. Escaped(s) = Spread(Escapes, s)  BY <1>2, Zenon DEF Escaped, Spread
<1>4. \A t \in Seq(Runes) :
         /\ Spread(Escapes, t) \in Seq(Clean)
         /\ \A r \in Runes : Spread(Escapes, Append(t, r)) = Spread(Escapes, t) \o Escapes[r]
  <2>1. Spelling(Escapes, Runes, Clean)  BY EscapeTypes
  <2> QED  BY <2>1, SpreadAppend
<1> QED  BY <1>3, <1>4

\* What a rune that is no blank is escaped to begins with no blank either, and
\* always fits.
LEMMA EscapeSolid ==
  ASSUME NEW r \in Runes \ {"sp", "lf"}
  PROVE  Escape(r) \in Seq(Clean) /\ Len(Escape(r)) > 0 /\ Escape(r)[1] # "sp"
         /\ Bytes(Escape(r)) <= MaxField
<1>0. Escape(r) \in Seq(Clean)  BY EscapeTypes DEF Spelling, Escapes
<1>1. CASE r = "ctl"
  <2> DEFINE a == <<"a", "a", "a", "a">>
  <2>1. Escape(r) = a  BY <1>1 DEF Escape
  <2>2. Len(a) = 4 /\ a[1] = "a" /\ a \in Seq(Runes)  BY DEF Runes
  <2>3. NumberOf(a, {"wide"}) = 0
    <3>1. {i \in DOMAIN a : a[i] \in {"wide"}} = {}  OBVIOUS
    <3> QED  BY <3>1, FS_EmptySet DEF NumberOf
  <2> HIDE DEF a
  <2>4. Bytes(a) = Len(a) + 2 * NumberOf(a, {"wide"})  BY <2>2, BytesNumber, Zenon
  <2> QED  BY <1>0, <2>1, <2>2, <2>3, <2>4, LoggerAssumption
<1>2. CASE r # "ctl"
  <2> DEFINE a == <<r>>
  <2>1. Escape(r) = a  BY <1>2 DEF Escape
  <2>2. Len(a) = 1 /\ a[1] = r /\ a \in Seq(Runes)
    <3>1. r \in Runes  OBVIOUS
    <3>2. a \in Seq(Runes)  BY <3>1
    <3>3. Len(a) = 1  OBVIOUS
    <3>4. a[1] = r  OBVIOUS
    <3> QED  BY <3>2, <3>3, <3>4
  <2>3. NumberOf(a, {"wide"}) = 1 \/ NumberOf(a, {"wide"}) = 0  BY NumberSmall, Zenon
  <2> HIDE DEF a
  <2>4. Bytes(a) = Len(a) + 2 * NumberOf(a, {"wide"})  BY <2>2, BytesNumber, Zenon
  <2>5. 1 + 2 * 0 <= MaxField /\ 1 + 2 * 1 <= MaxField  BY LoggerAssumption
  <2> QED  BY <1>0, <2>1, <2>2, <2>3, <2>4, <2>5
<1> QED  BY <1>1, <1>2

\* The longest beginning that fits does fit.
LEMMA FittingText ==
  ASSUME NEW s \in Seq(Clean), NEW n \in Nat
  PROVE  Fitting(s, n) \in Seq(Clean) /\ Bytes(Fitting(s, n)) <= n
<1> DEFINE sizes == {k \in 0..Len(s) : Bytes(SubSeq(s, 1, k)) <= n}
           m == Max(sizes)
<1>1. Len(s) \in Nat /\ \A i \in 1..Len(s) : s[i] \in Clean
  BY LenProperties, ElementOfSeq
<1>2. 0 \in sizes
  <2>1. SubSeq(s, 1, 0) = <<>>  BY SubSeqEmpty
  <2>2. Bytes(SubSeq(s, 1, 0)) = 0  BY <2>1, BytesEmpty
  <2> QED  BY <1>1, <2>2
<1>3. m \in sizes
  <2>1. sizes \in SUBSET (0..Len(s)) /\ sizes # {}  BY <1>2
  <2> HIDE DEF sizes
  <2> QED  BY <1>1, <2>1, MaxOf
<1>4. Fitting(s, n) = SubSeq(s, 1, m)  BY DEF Fitting
<1> HIDE DEF m
<1>5. m \in 0..Len(s) /\ Bytes(SubSeq(s, 1, m)) <= n  BY <1>3
<1>6. SubSeq(s, 1, m) \in Seq(Clean)
  <2>1. \A i \in 1..m : s[i] \in Clean  BY <1>1, <1>5
  <2> QED  BY <1>1, <1>5, <2>1, SubSeqProperties
<1> QED  BY <1>4, <1>5, <1>6

\* Where nothing but blanks fits, the text begins with one or is empty.
LEMMA BlankStart ==
  ASSUME NEW s \in Seq(Runes), NEW m \in 0..Len(s),
         \A k \in 0..Len(s) : Bytes(Escaped(SubSeq(s, 1, k))) <= MaxField => k <= m,
         Trimmed(Escaped(SubSeq(s, 1, m))) = <<>>
  PROVE  s = <<>> \/ s[1] \in {"sp", "lf"}
<1> SUFFICES ASSUME s # <<>>, s[1] \notin {"sp", "lf"} PROVE FALSE
  OBVIOUS
<1> DEFINE c == s[1]
           one == <<c>>
           rest == SubSeq(s, 2, m)
           whole == Escaped(SubSeq(s, 1, m))
<1>1. Len(s) \in Nat /\ Len(s) > 0 /\ \A i \in 1..Len(s) : s[i] \in Runes
  BY LenProperties, ElementOfSeq, EmptySeq
<1>2. c \in Runes \ {"sp", "lf"}  BY <1>1
<1>3. one \in Seq(Runes) /\ Len(one) = 1 /\ one[1] = c
  <2> HIDE DEF c
  <2> QED  BY <1>2
<1>4. SubSeq(s, 1, 1) = one
  <2> DEFINE t == SubSeq(s, 1, 1)
  <2>1. t \in Seq(Runes) /\ Len(t) = 1 /\ \A i \in 1..1 : t[i] = s[1 + i - 1]
    <3>1. 1 \in 1..Len(s) /\ 1 \in 1..1  BY <1>1
    <3> QED  BY <1>1, <3>1, SubSeqProperties
  <2>2. t[1] = c
    <3>1. 1 \in 1..1 /\ 1 + 1 - 1 = 1  OBVIOUS
    <3> HIDE DEF t
    <3> QED  BY <2>1, <3>1
  <2> HIDE DEF t, one, c
  <2>3. \A i \in 1..Len(t) : t[i] = one[i]  BY <1>3, <2>1, <2>2
  <2> QED  BY <1>3, <2>1, <2>3, SeqEqual DEF t
<1>5. Escaped(one) = Escape(c)
  <2> HIDE DEF c, one
  <2>1. Escaped(one) = Spread(Escapes, one)  BY <1>3, EscapedText
  <2>2. Spread(Escapes, <<c>>) = Escapes[c]  BY <1>2, EscapeTypes, SpreadSingle
  <2> QED  BY <1>2, <2>1, <2>2 DEF one, Escapes
<1>6. m >= 1
  <2>1. Bytes(Escaped(SubSeq(s, 1, 1))) <= MaxField  BY <1>2, <1>4, <1>5, EscapeSolid
  <2>2. 1 \in 0..Len(s)  BY <1>1
  <2> QED  BY <1>1, <2>1, <2>2
<1>7. rest \in Seq(Runes)
  <2>1. \A i \in 2..m : s[i] \in Runes  BY <1>1
  <2> QED  BY <1>1, <2>1, SubSeqProperties
<1>8. SubSeq(s, 1, m) = one \o rest
  <2>1. 1 \in 1..(Len(s) + 1) /\ 1 \in (1 - 1)..Len(s) /\ m \in 1..Len(s) /\ 1 + 1 = 2
    BY <1>1, <1>6
  <2>2. SubSeq(s, 1, 1) \o SubSeq(s, 1 + 1, m) = SubSeq(s, 1, m)
    BY <2>1, ConcatAdjacentSubSeq
  <2> HIDE DEF one
  <2> QED  BY <1>4, <2>1, <2>2
<1>9. whole = Escape(c) \o Escaped(rest) /\ Escaped(rest) \in Seq(Clean)
  <2> HIDE DEF c, one, rest
  <2>1. one \o rest \in Seq(Runes)  BY <1>3, <1>7, ConcatProperties
  <2>2. \A t \in Seq(Runes) :
           /\ Spread(Escapes, t) \in Seq(Clean)
           /\ \A v \in Seq(Runes) :
                Spread(Escapes, t \o v) = Spread(Escapes, t) \o Spread(Escapes, v)
    <3>1. Spelling(Escapes, Runes, Clean)  BY EscapeTypes
    <3> QED  BY <3>1, SpreadConcat
  <2>3. Escaped(one \o rest) = Escaped(one) \o Escaped(rest)
    BY <1>3, <1>7, <2>1, <2>2, EscapedText
  <2> QED  BY <1>5, <1>7, <1>8, <2>3, EscapedText
<1>10. whole \in Seq(Clean) /\ Len(whole) > 0 /\ whole[1] # "sp"
  <2> DEFINE first == Escape(c)
             last == Escaped(rest)
  <2>1. first \in Seq(Clean) /\ last \in Seq(Clean) /\ Len(first) > 0 /\ first[1] # "sp"
    BY <1>2, <1>9, EscapeSolid
  <2>2. Len(first) \in Nat /\ Len(last) \in Nat  BY <2>1, LenProperties
  <2> HIDE DEF first, last
  <2>3. /\ first \o last \in Seq(Clean) /\ Len(first \o last) = Len(first) + Len(last)
        /\ \A i \in 1..(Len(first) + Len(last)) :
              (first \o last)[i] = IF i <= Len(first) THEN first[i] ELSE last[i - Len(first)]
    BY <2>1, ConcatProperties
  <2>4. 1 \in 1..(Len(first) + Len(last)) /\ 1 <= Len(first)  BY <2>1, <2>2
  <2>5. (first \o last)[1] = first[1]  BY <2>3, <2>4
  <2>6. whole = first \o last  BY <1>9 DEF first, last
  <2> HIDE DEF whole
  <2> QED  BY <2>1, <2>2, <2>3, <2>5, <2>6
<1> HIDE DEF whole, c, one, rest
<1>11. 1 \in DOMAIN whole
  <2>1. DOMAIN whole = 1..Len(whole) /\ Len(whole) \in Nat  BY <1>10, LenProperties
  <2> QED  BY <1>10, <2>1
<1>12. Clean \in SUBSET Runes  BY DEF Clean
<1>13. Trimmed(whole) = <<>>  BY DEF whole
<1> QED  BY <1>10, <1>11, <1>12, <1>13, TrimmedText

\* What sanitizeLog makes of any text is one line that fits.
LEMMA SanitizedField ==
  ASSUME NEW s \in Seq(Runes)
  PROVE  LET field == sanitizeLog(s)
         IN  /\ field \in Seq(Clean) /\ Len(field) > 0
             /\ field[1] # "sp" /\ field[Len(field)] # "sp"
             /\ Bytes(field) <= MaxField
             /\ Shows(field, s)
<1> DEFINE sizes == {k \in 0..Len(s) : Bytes(Escaped(SubSeq(s, 1, k))) <= MaxField}
           m == Max(sizes)
           whole == Escaped(SubSeq(s, 1, m))
           out == Trimmed(whole)
           dots == <<".", ".", ".">>
           cut == trimLogField(out, MaxField - 3)
<1>1. Len(s) \in Nat /\ \A i \in 1..Len(s) : s[i] \in Runes
  BY LenProperties, ElementOfSeq
<1>2. Clean \in SUBSET Runes  BY DEF Clean
<1>3. 0 \in sizes
  <2>1. SubSeq(s, 1, 0) = <<>>  BY <1>1, SubSeqEmpty
  <2>2. Escaped(<<>>) = <<>>
    <3>1. [i \in DOMAIN <<>> |-> Escape(<<>>[i])] = <<>>  OBVIOUS
    <3> QED  BY <3>1, FlattenEmpty DEF Escaped
  <2>3. Bytes(Escaped(SubSeq(s, 1, 0))) = 0  BY <2>1, <2>2, BytesEmpty
  <2> QED  BY <1>1, <2>3, LoggerAssumption
<1>4. m \in sizes /\ \A k \in sizes : k <= m
  <2>1. sizes \in SUBSET (0..Len(s)) /\ sizes # {}  BY <1>3
  <2> HIDE DEF sizes
  <2> QED  BY <1>1, <2>1, MaxOf
<1>5. /\ m \in 0..Len(s) /\ Bytes(whole) <= MaxField
      /\ \A k \in 0..Len(s) : Bytes(Escaped(SubSeq(s, 1, k))) <= MaxField => k <= m
  BY <1>4
<1>13. SubSeq(s, 1, Len(s)) = s  BY SubSeqFull
<1>14. Len(s) \in sizes <=> Bytes(Escaped(s)) <= MaxField
  <2>1. Len(s) \in 0..Len(s)  BY <1>1
  <2>2. Len(s) \in sizes <=> Bytes(Escaped(SubSeq(s, 1, Len(s)))) <= MaxField
    BY <2>1, Zenon
  <2> QED  BY <1>13, <2>2, Zenon
<1>15. Len(s) \in sizes => m = Len(s)  BY <1>1, <1>4
<1> HIDE DEF m
<1>6. SubSeq(s, 1, m) \in Seq(Runes)
  <2>1. \A i \in 1..m : s[i] \in Runes  BY <1>1, <1>5
  <2> QED  BY <1>1, <1>5, <2>1, SubSeqProperties
<1>7. whole \in Seq(Clean)  BY <1>6, EscapedText
<1> HIDE DEF whole
<1>8. /\ out \in Seq(Clean) /\ Bytes(out) <= Bytes(whole)
      /\ out # <<>> => out[1] # "sp" /\ out[Len(out)] # "sp"
  BY <1>2, <1>7, TrimmedText
<1> HIDE DEF out
<1>9. Bytes(out) <= MaxField
  <2>1. Bytes(out) \in Nat /\ Bytes(whole) \in Nat
    BY <1>2, <1>7, <1>8, BytesNumber, SeqMonotonic
  <2> QED  BY <1>5, <1>8, <2>1, LoggerAssumption
<1>10. CASE out = <<>>
  <2>1. sanitizeLog(s) = <<"a">>  BY <1>10 DEF sanitizeLog, out, whole, m
  <2>2. <<"a">> \in Seq(Clean) /\ <<"a">> \in Seq(Runes) /\ Len(<<"a">>) = 1
        /\ <<"a">>[1] = "a"
    BY DEF Clean, Runes
  <2>3. NumberOf(<<"a">>, {"wide"}) = 0
    <3>1. {i \in DOMAIN <<"a">> : <<"a">>[i] \in {"wide"}} = {}  OBVIOUS
    <3> QED  BY <3>1, FS_EmptySet DEF NumberOf
  <2>4. Bytes(<<"a">>) = 1
    <3> DEFINE a == <<"a">>
    <3>1. a \in Seq(Runes) /\ Len(a) = 1 /\ NumberOf(a, {"wide"}) = 0  BY <2>2, <2>3
    <3> HIDE DEF a
    <3>2. Bytes(a) = Len(a) + 2 * NumberOf(a, {"wide"})  BY <3>1, BytesNumber, Zenon
    <3> QED  BY <3>1, <3>2 DEF a
  <2>5. s = <<>> \/ s[1] \in {"sp", "lf"}
    BY <1>5, <1>10, BlankStart DEF out, whole
  <2>6. Shows(sanitizeLog(s), s)  BY <2>1, <2>5 DEF Shows
  <2> QED  BY <2>1, <2>2, <2>4, <2>6, LoggerAssumption
<1>11. CASE out # <<>> /\ Len(s) \in sizes
  <2>1. sanitizeLog(s) = out  BY <1>11 DEF sanitizeLog, out, whole, m
  <2>2. Len(out) > 0  BY <1>8, <1>11, EmptySeq
  <2>3. out = Trimmed(Escaped(s))  BY <1>11, <1>13, <1>15 DEF out, whole
  <2>4. Shows(sanitizeLog(s), s)  BY <2>1, <2>3 DEF Shows
  <2> QED  BY <1>8, <1>9, <1>11, <2>1, <2>2, <2>4
<1>12. CASE out # <<>> /\ Len(s) \notin sizes
  <2>1. sanitizeLog(s) = cut \o dots  BY <1>12 DEF sanitizeLog, out, whole, m
  <2> DEFINE fit == Fitting(out, MaxField - 3)
  <2>2. MaxField - 3 \in Nat  BY LoggerAssumption
  <2>3. fit \in Seq(Clean) /\ Bytes(fit) <= MaxField - 3
    BY <1>8, <2>2, FittingText
  <2>4. cut = Trimmed(fit)  BY DEF trimLogField
  <2> HIDE DEF fit, cut
  <2>5. /\ cut \in Seq(Clean) /\ Bytes(cut) <= Bytes(fit)
        /\ cut # <<>> => cut[1] # "sp"
    BY <1>2, <2>3, <2>4, TrimmedText
  <2>6. /\ dots \in Seq(Clean) /\ Len(dots) = 3
        /\ dots[1] = "." /\ dots[2] = "." /\ dots[3] = "."
    BY DEF Clean, Runes
  <2>7. NumberOf(dots, {"wide"}) = 0
    <3>1. {i \in DOMAIN dots : dots[i] \in {"wide"}} = {}  OBVIOUS
    <3> QED  BY <3>1, FS_EmptySet DEF NumberOf
  <2> HIDE DEF dots
  <2>8. cut \in Seq(Runes) /\ dots \in Seq(Runes) /\ fit \in Seq(Runes)
    BY <1>2, <2>3, <2>5, <2>6, SeqMonotonic
  <2>9. Bytes(dots) = 3
    <3>1. Bytes(dots) = Len(dots) + 2 * NumberOf(dots, {"wide"})
      BY <2>8, BytesNumber, Zenon
    <3> QED  BY <2>6, <2>7, <3>1
  <2>10. Bytes(cut \o dots) <= MaxField
    <3>1. Bytes(cut \o dots) = Bytes(cut) + 3  BY <2>8, <2>9, BytesConcat
    <3>2. Bytes(cut) \in Nat /\ Bytes(fit) \in Nat  BY <2>8, BytesNumber
    <3> QED  BY <2>3, <2>5, <3>1, <3>2, LoggerAssumption
  <2>14. Len(cut) \in Nat  BY <2>5, LenProperties
  <2>11. /\ cut \o dots \in Seq(Clean)
         /\ Len(cut \o dots) = Len(cut) + 3
         /\ \A i \in 1..(Len(cut) + 3) : (cut \o dots)[i] =
               IF i <= Len(cut) THEN cut[i] ELSE dots[i - Len(cut)]
    <3>1. /\ cut \o dots \in Seq(Clean)
          /\ Len(cut \o dots) = Len(cut) + Len(dots)
          /\ \A i \in 1..(Len(cut) + Len(dots)) : (cut \o dots)[i] =
                IF i <= Len(cut) THEN cut[i] ELSE dots[i - Len(cut)]
      BY <2>5, <2>6, ConcatProperties
    <3> QED  BY <2>6, <3>1
  <2>12. (cut \o dots)[1] # "sp"
    <3>1. CASE cut = <<>>
      <4>1. Len(cut) = 0  BY <3>1
      <4>2. (cut \o dots)[1] = dots[1]  BY <2>11, <4>1
      <4> QED  BY <2>6, <4>2
    <3>2. CASE cut # <<>>
      <4>1. Len(cut) >= 1  BY <2>5, <3>2, EmptySeq
      <4> QED  BY <2>5, <2>11, <2>14, <3>2, <4>1
    <3> QED  BY <3>1, <3>2
  <2>13. (cut \o dots)[Len(cut) + 3] # "sp"  BY <2>6, <2>11, <2>14
  <2>15. Bytes(Escaped(s)) > MaxField
    <3>1. Escaped(s) \in Seq(Runes)  BY <1>2, EscapedText, SeqMonotonic
    <3> QED  BY <1>12, <1>14, <3>1, BytesNumber, LoggerAssumption
  <2>16. \A i \in ((Len(cut) + 3) - 2)..(Len(cut) + 3) : (cut \o dots)[i] = "."
    <3> SUFFICES ASSUME NEW i \in ((Len(cut) + 3) - 2)..(Len(cut) + 3)
                 PROVE  (cut \o dots)[i] = "."
      OBVIOUS
    <3>1. /\ i \in 1..(Len(cut) + 3) /\ ~(i <= Len(cut))
          /\ i - Len(cut) = 1 \/ i - Len(cut) = 2 \/ i - Len(cut) = 3
      BY <2>14
    <3> QED  BY <2>6, <2>11, <3>1
  <2>17. Shows(sanitizeLog(s), s)
    <3>1. Len(cut \o dots) >= 3  BY <2>11, <2>14
    <3>2. \A i \in (Len(cut \o dots) - 2)..Len(cut \o dots) : (cut \o dots)[i] = "."
      BY <2>11, <2>16
    <3> QED  BY <2>1, <2>15, <3>1, <3>2 DEF Shows
  <2> QED  BY <2>1, <2>10, <2>11, <2>12, <2>13, <2>14, <2>17
<1> QED  BY <1>10, <1>11, <1>12

OneLine(e) == LET n == Len(e) - 1
                  field == SubSeq(e, 1, n)
              IN  /\ n > 0 /\ e[n + 1] = "lf"
                  /\ \A i \in 1..n : field[i] \notin {"lf", "ctl"}
                  /\ field[1] # "sp" /\ field[n] # "sp"
                  /\ Bytes(field) <= MaxField
                  /\ \E s \in Texts : Shows(field, s)

\* The line of any text is a text of one line.
LEMMA LineText ==
  ASSUME NEW s \in Texts
  PROVE  Line(s) \in Seq(Written) /\ OneLine(Line(s))
<1> DEFINE field == sanitizeLog(s)
           n == Len(field)
           lf == <<"lf">>
<1>1. s \in Seq(Runes)  BY LoggerAssumption
<1>2. /\ field \in Seq(Clean) /\ n > 0
      /\ field[1] # "sp" /\ field[n] # "sp" /\ Bytes(field) <= MaxField
      /\ Shows(field, s)
  BY <1>1, SanitizedField
<1>3. Line(s) = field \o lf  BY DEF Line
<1> HIDE DEF field
<1>4. n \in Nat /\ \A i \in 1..n : field[i] \in Clean
  BY <1>2, LenProperties, ElementOfSeq
<1>5. field \in Seq(Written) /\ lf \in Seq(Written)
  <2>1. Clean \subseteq Written  BY DEF Clean, Written
  <2>2. lf \in Seq(Written)  BY DEF Runes, Written
  <2> QED  BY <1>2, <2>1, <2>2, SeqMonotonic
<1>6. /\ Line(s) \in Seq(Written) /\ Len(Line(s)) = n + 1 /\ Line(s)[n + 1] = "lf"
  <2>1. Len(lf) = 1 /\ lf[1] = "lf"  OBVIOUS
  <2> HIDE DEF lf
  <2>2. /\ field \o lf \in Seq(Written) /\ Len(field \o lf) = n + 1
        /\ \A i \in 1..(n + 1) : (field \o lf)[i] = IF i <= n THEN field[i] ELSE lf[i - n]
    <3>1. /\ field \o lf \in Seq(Written)
          /\ Len(field \o lf) = Len(field) + Len(lf)
          /\ \A i \in 1..(Len(field) + Len(lf)) :
               (field \o lf)[i] = IF i <= Len(field) THEN field[i] ELSE lf[i - Len(field)]
      BY <1>5, ConcatProperties
    <3> QED  BY <2>1, <3>1
  <2>3. n + 1 \in 1..(n + 1) /\ ~(n + 1 <= n) /\ (n + 1) - n = 1  BY <1>4
  <2> HIDE DEF n
  <2> QED  BY <1>3, <2>1, <2>2, <2>3
<1>7. SubSeq(Line(s), 1, n) = field
  <2>1. 1 \in 1..n /\ n \in 1..n  BY <1>2, <1>4
  <2> HIDE DEF lf
  <2>2. SubSeq(field \o lf, 1, n) = SubSeq(field, 1, n)
    BY <1>5, <2>1, SubSeqOfConcat1
  <2>3. SubSeq(field, 1, n) = field  BY <1>5, SubSeqFull
  <2> QED  BY <1>3, <2>2, <2>3
<1>8. (n + 1) - 1 = n  BY <1>4
<1>9. \A i \in 1..n : field[i] \notin {"lf", "ctl"}  BY <1>4 DEF Clean
<1> HIDE DEF n
<1> QED  BY <1>2, <1>4, <1>6, <1>7, <1>8, <1>9 DEF OneLine
-----------------------------------------------------------------------------
(* The logger implements LogFile.                                          *)

\* Each goroutine is where its mutex allows.
WriterInv ==
    /\ mutex \in Writers \cup {Nobody}
    /\ at \in [Writers -> {"idle", "lock", "write", "unlock"}]
    /\ target \in [Writers -> Files]
    /\ entry \in [Writers -> Entries \cup {<<>>}]
    /\ done \in [Writers -> Nat]
    /\ \A w \in Writers : mutex = w => at[w] \in {"write", "unlock"}
    /\ \A w \in Writers : at[w] \in {"write", "unlock"} => mutex = w
    /\ \A w \in Writers : at[w] # "idle" => entry[w] \in Entries
    /\ \A w \in Writers : at[w] = "lock" => done[w] = 0
    /\ \A w \in Writers : done[w] <= Len(entry[w])

\* What a file holds besides its content is a beginning of the entry that
\* the holder of the mutex writes, to a file that is open.
Begun(w) == SubSeq(entry[w], 1, done[w])
FileInv ==
    /\ file \in [Files -> Seq(Written)] /\ content \in [Files -> Seq(Written)]
    /\ mutex = Nobody => file = content
    /\ \A w \in Writers : mutex = w =>
          /\ file = [content EXCEPT ![target[w]] = @ \o Begun(w)]
          /\ done[w] > 0 => handle[target[w]] = "open"

LogInv == /\ stage \notin Started => mutex = Nobody
          /\ WriterInv /\ FileInv

\* The entry of a writer is a text.
LEMMA EntryText ==
  ASSUME WriterInv, NEW w \in Writers
  PROVE  entry[w] \in Seq(Written) /\ Len(entry[w]) \in Nat
<1>1. entry[w] \in Seq(Written)
  <2>1. <<>> \in Seq(Written)  OBVIOUS
  <2>2. Entries \subseteq Seq(Written)  BY LineText DEF Entries
  <2> QED  BY <2>1, <2>2 DEF WriterInv
<1> QED  BY <1>1, LenProperties

\* So is what a file holds when it has grown by the beginning of one.
LEMMA BeginningText ==
  ASSUME NEW c \in Seq(Written), NEW e \in Seq(Written), NEW d \in Nat, d <= Len(e)
  PROVE  /\ SubSeq(e, 1, d) \in Seq(Written)
         /\ c \o SubSeq(e, 1, d) \in Seq(Written)
         /\ c \o SubSeq(e, 1, 0) = c
<1>1. Len(e) \in Nat /\ \A i \in 1..Len(e) : e[i] \in Written
  BY LenProperties, ElementOfSeq
<1>2. SubSeq(e, 1, d) \in Seq(Written)
  <2>1. \A i \in 1..d : e[i] \in Written  BY <1>1
  <2> QED  BY <2>1, SubSeqProperties
<1>3. c \o SubSeq(e, 1, d) \in Seq(Written)  BY <1>2, ConcatProperties
<1>4. SubSeq(e, 1, 0) = <<>>  BY SubSeqEmpty
<1>5. c \o <<>> = c  BY ConcatEmptySeq
<1> QED  BY <1>2, <1>3, <1>4, <1>5

\* What was begun goes on where it stopped.
LEMMA Continued ==
  ASSUME NEW c \in Seq(Written), NEW e \in Seq(Written), NEW d \in Nat, NEW k \in Nat,
         d <= k, k <= Len(e)
  PROVE  (c \o SubSeq(e, 1, d)) \o SubSeq(e, d + 1, k) = c \o SubSeq(e, 1, k)
<1> DEFINE a == SubSeq(e, 1, d)
           b == SubSeq(e, d + 1, k)
<1>1. Len(e) \in Nat /\ \A i \in 1..Len(e) : e[i] \in Written
  BY LenProperties, ElementOfSeq
<1>2. a \in Seq(Written)
  <2>1. \A i \in 1..d : e[i] \in Written  BY <1>1
  <2> QED  BY <2>1, SubSeqProperties
<1>3. b \in Seq(Written)
  <2>1. \A i \in (d + 1)..k : e[i] \in Written  BY <1>1
  <2> QED  BY <2>1, SubSeqProperties
<1>4. a \o b = SubSeq(e, 1, k)
  <2>1. 1 \in 1..(Len(e) + 1) /\ d \in (1 - 1)..Len(e) /\ k \in d..Len(e)
    BY <1>1
  <2> QED  BY <2>1, ConcatAdjacentSubSeq
<1> HIDE DEF a, b
<1>5. (c \o a) \o b = c \o (a \o b)  BY <1>2, <1>3, ConcatAssociative
<1> QED  BY <1>4, <1>5 DEF a, b

\* LogInv holds at the start.
LEMMA LogInit == Init => LogInv
<1> SUFFICES ASSUME Init PROVE LogInv
  OBVIOUS
<1>1. <<>> \in Seq(Written) /\ Len(<<>>) = 0  BY EmptySeq
<1>2. WriterInv
  BY <1>1, LoggerAssumption DEF Init, LoggerInit, WriterInv, Files
<1>3. FileInv
  BY <1>1, LoggerAssumption DEF Init, LoggerInit, FileInv, Files
<1> QED  BY <1>2, <1>3 DEF Init, LoggerInit, LogInv

\* What LogInv says of one writer.
LEMMA WriterFacts ==
  ASSUME LogInv, NEW w \in Writers
  PROVE  /\ w # Nobody /\ target[w] \in Files /\ done[w] \in Nat
         /\ mutex = w => at[w] \in {"write", "unlock"}
         /\ at[w] \in {"write", "unlock"} => mutex = w
         /\ at[w] = "lock" => done[w] = 0
         /\ entry[w] \in Seq(Written) /\ Len(entry[w]) \in Nat
<1>1. WriterInv  BY DEF LogInv
<1>2. /\ w # Nobody /\ target[w] \in Files /\ done[w] \in Nat
      /\ at[w] = "lock" => done[w] = 0
  BY <1>1, LoggerAssumption DEF WriterInv
<1>3. /\ mutex = w => at[w] \in {"write", "unlock"}
      /\ at[w] \in {"write", "unlock"} => mutex = w
  BY <1>1 DEF WriterInv
<1> QED  BY <1>1, <1>2, <1>3, EntryText

\* What LogInv says of the files.
LEMMA FileFacts ==
  ASSUME LogInv
  PROVE  /\ file \in [Files -> Seq(Written)] /\ content \in [Files -> Seq(Written)]
         /\ mutex = Nobody => file = content
         /\ \A w \in Writers : mutex = w => file = [content EXCEPT ![target[w]] = @ \o Begun(w)]
<1>1. FileInv  BY DEF LogInv
<1> QED  BY <1>1 DEF FileInv

\* The steps of the goroutines, one by one.
LEMMA WriterCalls ==
  ASSUME LogInv, NEW w \in Writers, NEW f \in Files, NEW s \in Texts, Call(w, f, s)
  PROVE  WriterInv' /\ FileInv'
<1>1. /\ at[w] = "idle" /\ at' = [at EXCEPT ![w] = "lock"]
      /\ target' = [target EXCEPT ![w] = f] /\ entry' = [entry EXCEPT ![w] = Line(s)]
      /\ done' = [done EXCEPT ![w] = 0]
      /\ UNCHANGED <<handle, file, mutex, content>>
  BY DEF Call
<1>2. Line(s) \in Entries /\ Len(Line(s)) \in Nat
  <2>1. Line(s) \in Entries  BY DEF Entries
  <2>2. Line(s) \in Seq(Written)  BY LineText
  <2> HIDE DEF Line
  <2> QED  BY <2>1, <2>2, LenProperties
<1>3. mutex # w  BY <1>1, WriterFacts
<1>4. WriterInv'  BY <1>1, <1>2 DEF LogInv, WriterInv
<1>5. FileInv'  BY <1>1, <1>3 DEF LogInv, WriterInv, FileInv, Begun
<1> QED  BY <1>4, <1>5

\* Taking the mutex preserves both parts of LogInv.
LEMMA WriterLocks ==
  ASSUME LogInv, NEW w \in Writers, Lock(w)
  PROVE  WriterInv' /\ FileInv'
<1>1. /\ at[w] = "lock" /\ mutex = Nobody /\ mutex' = w
      /\ at' = [at EXCEPT ![w] = "write"]
      /\ UNCHANGED <<handle, file, target, entry, done, content>>
  BY DEF Lock
<1>2. WriterInv'  BY <1>1, LoggerAssumption DEF LogInv, WriterInv
<1>3. /\ file = content /\ done[w] = 0 /\ target[w] \in Files
      /\ content \in [Files -> Seq(Written)]
  BY <1>1, WriterFacts, FileFacts
<1>4. content[target[w]] \o Begun(w) = content[target[w]]
  <2>1. content[target[w]] \in Seq(Written) /\ entry[w] \in Seq(Written) /\ Len(entry[w]) \in Nat
    BY <1>3, WriterFacts
  <2>2. 0 <= Len(entry[w])  BY <2>1
  <2> QED  BY <1>3, <2>1, <2>2, BeginningText DEF Begun
<1>5. file = [content EXCEPT ![target[w]] = @ \o Begun(w)]  BY <1>3, <1>4
<1>6. FileInv'
  <2>1. w # Nobody  BY LoggerAssumption
  <2>2. file' = [content' EXCEPT ![target'[w]] = @ \o Begun(w)'] /\ done'[w] = 0
    BY <1>1, <1>3, <1>5 DEF Begun
  <2>3. file' \in [Files -> Seq(Written)] /\ content' \in [Files -> Seq(Written)]
    BY <1>1, <1>3
  <2>4. \A x \in Writers : mutex' = x => x = w  BY <1>1
  <2>5. mutex' # Nobody  BY <1>1, <2>1
  <2>6. ASSUME NEW x \in Writers, mutex' = x
        PROVE  /\ file' = [content' EXCEPT ![target'[x]] = @ \o Begun(x)']
               /\ ~(done'[x] > 0)
    <3>1. x = w  BY <2>4, <2>6
    <3>2. ~(done'[w] > 0)  BY <2>2
    <3> QED  BY <2>2, <3>1, <3>2
  <2> QED  BY <2>3, <2>5, <2>6 DEF FileInv
<1> QED  BY <1>2, <1>6

\* So does a write, whole or short.
LEMMA WriterWrites ==
  ASSUME LogInv, NEW w \in Writers, NEW n \in Nat, Write(w, n)
  PROVE  WriterInv' /\ FileInv'
<1> DEFINE f == target[w]
<1>1. /\ at[w] = "write" /\ handle[f] = "open" /\ done[w] + n <= Len(entry[w])
      /\ file' = [file EXCEPT ![f] = @ \o SubSeq(entry[w], done[w] + 1, done[w] + n)]
      /\ done' = [done EXCEPT ![w] = @ + n]
      /\ at' = [at EXCEPT ![w] = IF done[w] + n = Len(entry[w]) THEN "unlock" ELSE @]
      /\ UNCHANGED <<handle, mutex, target, entry, content>>
  BY DEF Write
<1>2. /\ mutex = w /\ f \in Files /\ done[w] \in Nat
      /\ file = [content EXCEPT ![f] = @ \o Begun(w)]
      /\ content \in [Files -> Seq(Written)] /\ w # Nobody
  BY <1>1, WriterFacts, FileFacts
<1>3. entry[w] \in Seq(Written) /\ Len(entry[w]) \in Nat  BY WriterFacts
<1>4. at' \in [Writers -> {"idle", "lock", "write", "unlock"}] /\ at'[w] \in {"write", "unlock"}
      /\ \A x \in Writers : x # w => at'[x] = at[x]
  BY <1>1 DEF LogInv, WriterInv
<1>5. done' \in [Writers -> Nat] /\ done'[w] = done[w] + n
      /\ \A x \in Writers : x # w => done'[x] = done[x]
  BY <1>1 DEF LogInv, WriterInv
<1>6. WriterInv'
  BY <1>1, <1>2, <1>4, <1>5 DEF LogInv, WriterInv
<1>7. /\ (content[f] \o Begun(w)) \o SubSeq(entry[w], done[w] + 1, done[w] + n)
           = content[f] \o SubSeq(entry[w], 1, done[w] + n)
      /\ content[f] \o SubSeq(entry[w], 1, done[w] + n) \in Seq(Written)
  <2> DEFINE c == content[f]
             e == entry[w]
             d == done[w]
  <2>1. /\ c \in Seq(Written) /\ e \in Seq(Written) /\ d \in Nat /\ Len(e) \in Nat
        /\ d + n <= Len(e)
    BY <1>1, <1>2, <1>3
  <2> DEFINE k == d + n
  <2>2. k \in Nat /\ d <= k /\ k <= Len(e)  BY <2>1
  <2> HIDE DEF c, e, d, k
  <2>3. (c \o SubSeq(e, 1, d)) \o SubSeq(e, d + 1, k) = c \o SubSeq(e, 1, k)
    BY <2>1, <2>2, Continued
  <2>4. c \o SubSeq(e, 1, k) \in Seq(Written)  BY <2>1, <2>2, BeginningText
  <2> QED  BY <2>3, <2>4, Zenon DEF c, e, d, k, Begun
<1>8. file' = [content EXCEPT ![f] = @ \o SubSeq(entry[w], 1, done[w] + n)]
  <2>1. file[f] = content[f] \o Begun(w)  BY <1>2
  <2>2. file' = [file EXCEPT ![f] = content[f] \o SubSeq(entry[w], 1, done[w] + n)]
    BY <1>1, <1>7, <2>1
  <2> QED  BY <1>2, <2>2
<1>9. FileInv'
  <2>1. file' \in [Files -> Seq(Written)] /\ content' \in [Files -> Seq(Written)]
    <3> DEFINE new == content[f] \o SubSeq(entry[w], 1, done[w] + n)
    <3>1. new \in Seq(Written) /\ file' = [content EXCEPT ![f] = new]  BY <1>7, <1>8
    <3>2. f \in Files /\ content \in [Files -> Seq(Written)] /\ content' = content
      BY <1>1, <1>2
    <3> HIDE DEF new, f
    <3> QED  BY <3>1, <3>2
  <2>2. file' = [content' EXCEPT ![target'[w]] = @ \o Begun(w)']
    BY <1>1, <1>5, <1>8 DEF Begun
  <2> QED  BY <1>1, <1>2, <2>1, <2>2 DEF FileInv
<1> QED  BY <1>6, <1>9

\* So does a write that fails.
LEMMA WriterFails ==
  ASSUME LogInv, NEW w \in Writers, WriteFails(w)
  PROVE  WriterInv' /\ FileInv'
<1>1. /\ at[w] = "write" /\ at' = [at EXCEPT ![w] = "unlock"]
      /\ UNCHANGED <<handle, file, mutex, target, entry, done, content>>
  BY DEF WriteFails
<1>2. WriterInv'  BY <1>1 DEF LogInv, WriterInv
<1>3. FileInv'  BY <1>1 DEF LogInv, FileInv, Begun
<1> QED  BY <1>2, <1>3

\* So does the unlock, which is where a file grows for its readers.
LEMMA WriterUnlocks ==
  ASSUME LogInv, NEW w \in Writers, Unlock(w)
  PROVE  WriterInv' /\ FileInv'
<1>1. /\ at[w] = "unlock" /\ mutex' = Nobody /\ content' = file
      /\ at' = [at EXCEPT ![w] = "idle"]
      /\ UNCHANGED <<handle, file, target, entry, done>>
  BY DEF Unlock
<1>2. WriterInv'
  <2>1. mutex = w /\ WriterInv  BY <1>1, WriterFacts DEF LogInv
  <2>2. \A x \in Writers : at'[x] \in {"write", "unlock"} => FALSE
    BY <1>1, <2>1 DEF WriterInv
  <2> QED  BY <1>1, <2>1, <2>2, LoggerAssumption DEF WriterInv
<1>3. FileInv'  BY <1>1, FileFacts, LoggerAssumption DEF FileInv
<1> QED  BY <1>2, <1>3

\* Steps of main leave the goroutines and the files alone; they change the
\* state of files only while nobody holds the mutex.
LEMMA MainLogs ==
  ASSUME LogInv, UNCHANGED <<file, mutex, callVars, content>>,
         handle' = handle \/ mutex = Nobody
  PROVE  WriterInv' /\ FileInv'
<1>1. /\ UNCHANGED <<file, mutex, at, target, entry, done, content>>
      /\ WriterInv /\ FileInv
  BY DEF LogInv, callVars
<1>2. WriterInv'  BY <1>1 DEF WriterInv
<1>3. CASE handle' = handle
  <2>1. \A w \in Writers : Begun(w)' = Begun(w)  BY <1>1 DEF Begun
  <2>2. \A w \in Writers : mutex' = w =>
           /\ file' = [content' EXCEPT ![target'[w]] = @ \o Begun(w)']
           /\ done'[w] > 0 => handle'[target'[w]] = "open"
    <3>1. ASSUME NEW w \in Writers, mutex' = w
          PROVE  /\ file' = [content' EXCEPT ![target'[w]] = @ \o Begun(w)']
                 /\ done'[w] > 0 => handle'[target'[w]] = "open"
      <4>1. mutex = w  BY <1>1, <3>1
      <4>2. file = [content EXCEPT ![target[w]] = @ \o Begun(w)]  BY <4>1, FileFacts
      <4>3. done[w] > 0 => handle[target[w]] = "open"  BY <1>1, <4>1 DEF FileInv
      <4> QED  BY <1>1, <1>3, <2>1, <4>2, <4>3
    <3> QED  BY <3>1
  <2>3. /\ file' \in [Files -> Seq(Written)] /\ content' \in [Files -> Seq(Written)]
        /\ mutex' = Nobody => file' = content'
    BY <1>1, FileFacts
  <2> QED  BY <1>2, <2>2, <2>3 DEF FileInv
<1>4. CASE mutex = Nobody
  <2>1. /\ file' \in [Files -> Seq(Written)] /\ content' \in [Files -> Seq(Written)]
        /\ file' = content'
    BY <1>1, <1>4, FileFacts
  <2>2. \A w \in Writers : mutex' # w  BY <1>1, <1>4, LoggerAssumption
  <2> QED  BY <1>2, <2>1, <2>2 DEF FileInv
<1> QED  BY <1>2, <1>3, <1>4

\* LogInv is preserved by every step.
LEMMA LogStepInv == LogInv /\ [Next]_vars => LogInv'
<1> SUFFICES ASSUME LogInv, [Next]_vars PROVE LogInv'
  OBVIOUS
<1>1. ASSUME UNCHANGED <<file, mutex, callVars, content>>,
             handle' = handle \/ mutex = Nobody,
             stage' \notin Started => stage \notin Started
      PROVE  LogInv'
  <2>1. WriterInv' /\ FileInv'  BY <1>1, MainLogs
  <2> QED  BY <1>1, <2>1 DEF LogInv
<1>2. CASE OpenConfig       BY <1>1, <1>2 DEF OpenConfig, loggerVars, Started
<1>3. CASE ReadLine         BY <1>1, <1>3 DEF ReadLine, loggerVars, Started
<1>4. CASE FinishLoad       BY <1>1, <1>4 DEF FinishLoad, loggerVars, Started
<1>5. CASE OpenErrorLog
  <2>1. mutex = Nobody /\ stage \notin Started  BY <1>5 DEF OpenErrorLog, LogInv, Started
  <2> QED  BY <1>1, <1>5, <2>1 DEF OpenErrorLog, OpenLog, loggerVars
<1>6. CASE OpenAccessLog
  <2>1. mutex = Nobody /\ stage \notin Started  BY <1>6 DEF OpenAccessLog, LogInv, Started
  <2> QED  BY <1>1, <1>6, <2>1 DEF OpenAccessLog, OpenLog, CloseLogs, loggerVars
<1>7. CASE LoadKeyPair
  <2>1. mutex = Nobody /\ stage \notin Started  BY <1>7 DEF LoadKeyPair, LogInv, Started
  <2> QED  BY <1>1, <1>7, <2>1 DEF LoadKeyPair, Close, loggerVars
<1>8. CASE RunReturns       BY <1>1, <1>8 DEF RunReturns, loggerVars, Started
<1>9. CASE CloseServer      BY <1>1, <1>9 DEF CloseServer, Close, Started
<1>10. ASSUME NEW w \in Writers, LogCall(w) PROVE LogInv'
  <2>1. PICK f \in Files, s \in Texts : Call(w, f, s)  BY <1>10 DEF LogCall
  <2>2. WriterInv' /\ FileInv'  BY <2>1, WriterCalls
  <2> QED  BY <1>10, <2>2 DEF LogCall, Running, Started, LogInv
<1>11. ASSUME NEW w \in Writers, LogStep(w) PROVE LogInv'
  <2>1. stage' \in Started  BY <1>11 DEF LogStep, Running, Started
  <2>2. CASE Lock(w)        BY <2>1, <2>2, WriterLocks DEF LogInv
  <2>3. CASE WriteFails(w)  BY <2>1, <2>3, WriterFails DEF LogInv
  <2>4. CASE Unlock(w)      BY <2>1, <2>4, WriterUnlocks DEF LogInv
  <2>5. ASSUME NEW n \in Nat, Write(w, n) PROVE LogInv'
    BY <2>1, <2>5, WriterWrites DEF LogInv
  <2>6. Len(entry[w]) - done[w] \in Nat
    <3>1. done[w] \in Nat /\ Len(entry[w]) \in Nat  BY WriterFacts
    <3>2. done[w] <= Len(entry[w])  BY DEF LogInv, WriterInv
    <3> QED  BY <3>1, <3>2
  <2>7. Pieces \subseteq Nat  BY LoggerAssumption
  <2> QED  BY <1>11, <2>2, <2>3, <2>4, <2>5, <2>6, <2>7 DEF LogStep, WriterStep
<1>12. CASE UNCHANGED vars  BY <1>1, <1>12 DEF vars, loggerVars
<1> QED  BY <1>2, <1>3, <1>4, <1>5, <1>6, <1>7, <1>8, <1>9, <1>10, <1>11, <1>12
         DEF Next, MainStep, Terminated

\* LogInv holds in every reachable state.
LEMMA LogInductive == Spec => []LogInv
  BY LogInit, LogStepInv, PTL DEF Spec

\* Whatever a client puts into a field that is logged, for every text and
\* every limit of the field, the entry is one line: its only line feed ends
\* it, it fits the limit, neither a control byte nor an empty field is left
\* in it, and what it does not show in full ends in three dots.
THEOREM EntriesAreLines == Spec => []EntryIsOneLine
<1>1. LogInv => EntryIsOneLine
  <2> SUFFICES ASSUME LogInv, NEW w \in Writers, at[w] # "idle" PROVE OneLine(entry[w])
    BY DEF EntryIsOneLine, OneLine
  <2>1. entry[w] \in Entries  BY DEF LogInv, WriterInv
  <2>2. PICK s \in Texts : entry[w] = Line(s)  BY <2>1 DEF Entries
  <2> QED  BY <2>2, LineText
<1> QED  BY <1>1, LogInductive, PTL

\* Entries of all goroutines reach the files one after another, whole or cut
\* short, and none after the close: the logger implements LogFile.
THEOREM LogsImplement == Spec => ImplementsLogFile
<1>1. Init => Promise!Init
  BY DEF Init, LoggerInit, Promise!Init
<1>2. LogInv /\ ServeInv /\ [Next]_vars => [Promise!Next]_Promise!logVars
  <2> SUFFICES ASSUME LogInv, ServeInv, [Next]_vars
               PROVE  [Promise!Next]_Promise!logVars
    OBVIOUS
  <2>0. ASSUME UNCHANGED <<handle, content>> PROVE UNCHANGED Promise!logVars
    BY <2>0 DEF Promise!logVars
  <2>1. CASE OpenConfig \/ ReadLine \/ FinishLoad \/ RunReturns \/ UNCHANGED vars
    BY <2>0, <2>1 DEF OpenConfig, ReadLine, FinishLoad, RunReturns, vars, loggerVars
  <2>2. ASSUME NEW f \in Files, OpenLog(f), handle[f] = "none" PROVE Promise!Next
    BY <2>2 DEF OpenLog, Promise!Next, Promise!Open
  <2>3. ASSUME handle' = CloseAll, UNCHANGED content PROVE Promise!Next
    BY <2>3 DEF CloseAll, Promise!Next, Promise!Close
  <2>4. CASE OpenErrorLog
    BY <2>0, <2>2, <2>4 DEF OpenErrorLog, ServeInv, Files, loggerVars
  <2>5. CASE OpenAccessLog
    BY <2>0, <2>2, <2>3, <2>5 DEF OpenAccessLog, CloseLogs, ServeInv, Files, loggerVars
  <2>6. CASE LoadKeyPair
    BY <2>0, <2>3, <2>6 DEF LoadKeyPair, Close, loggerVars
  <2>7. CASE CloseServer    BY <2>3, <2>7 DEF CloseServer, Close
  <2>8. ASSUME NEW w \in Writers, LogCall(w) PROVE UNCHANGED Promise!logVars
    BY <2>0, <2>8 DEF LogCall, Call
  <2>9. ASSUME NEW w \in Writers, WriterStep(w), ~Unlock(w)
        PROVE  UNCHANGED Promise!logVars
    BY <2>0, <2>9 DEF WriterStep, Lock, Write, WriteFails
  <2>10. ASSUME NEW w \in Writers, Unlock(w) PROVE [Promise!Next]_Promise!logVars
    <3> DEFINE f == target[w]
    <3>1. /\ at[w] = "unlock" /\ content' = file /\ handle' = handle
      BY <2>10 DEF Unlock
    <3>2. /\ mutex = w /\ f \in Files /\ done[w] \in Nat /\ entry[w] \in Seq(Written)
          /\ Len(entry[w]) \in Nat /\ content \in [Files -> Seq(Written)]
      BY <3>1, WriterFacts, FileFacts
    <3>3. /\ file = [content EXCEPT ![f] = @ \o SubSeq(entry[w], 1, done[w])]
          /\ done[w] > 0 => handle[f] = "open"
      BY <3>2 DEF LogInv, FileInv, Begun
    <3>4. entry[w] \in Entries /\ done[w] <= Len(entry[w])
      BY <3>1 DEF LogInv, WriterInv
    <3>5. CASE done[w] = 0
      <4>1. content[f] \in Seq(Written) /\ 0 <= Len(entry[w])  BY <3>2
      <4>2. content[f] \o SubSeq(entry[w], 1, done[w]) = content[f]
        BY <3>2, <3>5, <4>1, BeginningText
      <4>3. file = content  BY <3>2, <3>3, <4>2
      <4> QED  BY <2>0, <3>1, <4>3
    <3>6. CASE done[w] # 0
      <4>1. done[w] \in 1..Len(entry[w])  BY <3>2, <3>4, <3>6
      <4>2. handle[f] = "open"  BY <3>2, <3>3, <3>6
      <4>3. Promise!Extend(f)
        BY <3>1, <3>3, <3>4, <4>1, <4>2 DEF Promise!Extend
      <4> QED  BY <3>2, <4>3 DEF Promise!Next
    <3> QED  BY <3>5, <3>6
  <2> QED  BY <2>1, <2>4, <2>5, <2>6, <2>7, <2>8, <2>9, <2>10
           DEF Next, MainStep, Terminated, LogStep
<1> QED  BY <1>1, <1>2, LogInductive, ServeInductive, PTL DEF Spec, ImplementsLogFile, Promise!Spec
-----------------------------------------------------------------------------
(* Types.                                                                  *)

\* What the invariants above do not say.
OtherTypes ==
    /\ stage \in Loading \cup Opening \cup Started \cup Ended
    /\ DOMAIN cfg = DOMAIN Default /\ seen \subseteq Required
    /\ handle \in [Files -> {"none", "open", "closed"}]
    /\ calls \in [Writers -> Nat]

\* The types of what the logger does not own are preserved by every step.
LEMMA OtherTypesStep == OtherTypes /\ [Next]_vars => OtherTypes'
<1> SUFFICES ASSUME OtherTypes, [Next]_vars PROVE OtherTypes'
  OBVIOUS
<1> USE DEF OtherTypes
<1>1. ASSUME UNCHANGED <<cfg, seen, calls>>, handle' \in {handle, CloseAll},
             stage' \in Loading \cup Opening \cup Started \cup Ended
      PROVE  OtherTypes'
  BY <1>1 DEF CloseAll
<1>2. CASE OpenConfig
  BY <1>1, <1>2 DEF OpenConfig, configVars, loggerVars, callVars, Loading, Ended
<1>3. CASE ReadLine
  <2>1. UNCHANGED <<handle, calls>>  BY <1>3 DEF ReadLine, loggerVars, callVars
  <2>2. stage' \in Loading \cup Opening \cup Started \cup Ended
    BY <1>3 DEF ReadLine, Loading, Ended
  <2>3. seen' \subseteq Required  BY <1>3 DEF ReadLine
  <2>4. DOMAIN cfg' = DOMAIN Default  BY <1>3 DEF ReadLine, ApplyLine, Store
  <2> QED  BY <2>1, <2>2, <2>3, <2>4
<1>4. CASE FinishLoad
  BY <1>1, <1>4 DEF FinishLoad, configVars, loggerVars, callVars, Opening, Ended
<1>5. ASSUME NEW f \in Files, OpenLog(f), UNCHANGED configVars,
             stage' \in {"accessLog", "keys"}
      PROVE  OtherTypes'
  BY <1>5 DEF OpenLog, configVars, callVars, Opening
<1>6. CASE OpenErrorLog
  BY <1>1, <1>5, <1>6 DEF OpenErrorLog, configVars, loggerVars, callVars, Opening, Ended, Files
<1>7. CASE OpenAccessLog
  BY <1>1, <1>5, <1>7
  DEF OpenAccessLog, CloseLogs, configVars, loggerVars, callVars, Opening, Ended, Files
<1>8. CASE LoadKeyPair
  BY <1>1, <1>8 DEF LoadKeyPair, Close, configVars, loggerVars, callVars, Started, Ended
<1>9. CASE RunReturns
  BY <1>1, <1>9 DEF RunReturns, configVars, loggerVars, callVars, Started
<1>10. CASE CloseServer
  BY <1>1, <1>10 DEF CloseServer, Close, configVars, loggerVars, callVars, Started
<1>11. ASSUME NEW w \in Writers, LogCall(w) PROVE OtherTypes'
  BY <1>11 DEF LogCall, Call, configVars
<1>12. ASSUME NEW w \in Writers, LogStep(w) PROVE OtherTypes'
  BY <1>1, <1>12 DEF LogStep, WriterStep, Lock, Write, WriteFails, Unlock, configVars
<1>13. CASE UNCHANGED vars
  BY <1>1, <1>13 DEF vars, configVars, loggerVars, callVars
<1> QED  BY <1>2, <1>3, <1>4, <1>6, <1>7, <1>8, <1>9, <1>10, <1>11, <1>12, <1>13
         DEF Next, MainStep, Terminated

\* Every variable keeps its type; in particular no byte that sanitizeLog
\* removes ever stands in a log file.
THEOREM Typing == Spec => []TypeOK
<1>1. Init => OtherTypes
  BY DEF Init, LoggerInit, OtherTypes, Loading
<1>2. LoadInv /\ LogInv /\ OtherTypes => TypeOK
  <2> SUFFICES ASSUME LoadInv, LogInv, OtherTypes PROVE TypeOK
    OBVIOUS
  <2>1. \A w \in Writers : done[w] \in 0..Len(entry[w])
    <3> TAKE w \in Writers
    <3>1. done[w] \in Nat /\ Len(entry[w]) \in Nat  BY WriterFacts
    <3>2. done[w] <= Len(entry[w])  BY DEF LogInv, WriterInv
    <3> QED  BY <3>1, <3>2
  <2>2. LoggerTypeOK
    BY <2>1 DEF LogInv, WriterInv, FileInv, OtherTypes, LoggerTypeOK, Written
  <2> QED  BY <2>2 DEF LoadInv, OtherTypes, TypeOK
<1> QED  BY <1>1, <1>2, OtherTypesStep, LoadInductive, LogInductive, PTL DEF Spec
-----------------------------------------------------------------------------
(* How long a call of the logger can take.                                 *)

\* The steps a goroutine has before it until its call returns, at the most: it
\* waits for the mutex, writes rune by rune, and unlocks.
Ahead(w) == CASE at[w] = "lock"   -> Len(entry[w]) + 2
              [] at[w] = "write"  -> Len(entry[w]) - done[w] + 1
              [] at[w] = "unlock" -> 1
              [] OTHER            -> 0

\* A writer that writes has something left to write.
Pending == \A w \in Writers : at[w] = "write" => done[w] < Len(entry[w])

\* An entry is not empty.
LEMMA EntryLength == \A e \in Entries : Len(e) \in Nat /\ 0 < Len(e)
<1> SUFFICES ASSUME NEW s \in Texts PROVE Len(Line(s)) \in Nat /\ 0 < Len(Line(s))
  BY DEF Entries
<1>1. Line(s) \in Seq(Written) /\ OneLine(Line(s))  BY LineText
<1>2. Len(Line(s)) \in Nat  BY <1>1, LenProperties
<1>3. Len(Line(s)) - 1 > 0  BY <1>1 DEF OneLine
<1> QED  BY <1>2, <1>3

\* Pending is preserved by every step.
LEMMA PendingStep == LogInv /\ Pending /\ [Next]_vars => Pending'
<1> SUFFICES ASSUME LogInv, Pending, [Next]_vars PROVE Pending'
  OBVIOUS
<1> SUFFICES ASSUME NEW w \in Writers, at'[w] = "write" PROVE done'[w] < Len(entry'[w])
  BY DEF Pending
<1>1. WriterInv  BY DEF LogInv
<1>2. UNCHANGED <<at, entry, done>> => done'[w] < Len(entry'[w])
  BY DEF Pending
<1>3. ASSUME NEW v \in Writers, LogCall(v) PROVE done'[w] < Len(entry'[w])
  <2>1. v # w  BY <1>1, <1>3 DEF LogCall, Call, WriterInv
  <2>2. at'[w] = at[w] /\ done'[w] = done[w] /\ entry'[w] = entry[w]
    BY <1>1, <1>3, <2>1 DEF LogCall, Call, WriterInv
  <2> QED  BY <2>2 DEF Pending
<1>4. ASSUME NEW v \in Writers, LogStep(v) PROVE done'[w] < Len(entry'[w])
  <2>1. CASE v # w
    <3>1. at'[w] = at[w] /\ done'[w] = done[w] /\ entry'[w] = entry[w]
      BY <1>1, <1>4, <2>1 DEF LogStep, WriterStep, Lock, Write, WriteFails, Unlock, WriterInv
    <3> QED  BY <3>1 DEF Pending
  <2>2. CASE v = w
    <3>1. CASE Lock(w)
      <4>1. done'[w] = 0 /\ entry'[w] = entry[w] /\ entry[w] \in Entries
        BY <1>1, <3>1 DEF Lock, WriterInv
      <4> QED  BY <4>1, EntryLength
    <3>2. ASSUME NEW n \in Nat, Write(w, n) PROVE done'[w] < Len(entry'[w])
      <4>1. /\ done'[w] = done[w] + n /\ entry'[w] = entry[w]
            /\ done[w] + n <= Len(entry[w]) /\ done[w] + n # Len(entry[w])
        BY <1>1, <3>2 DEF Write, WriterInv
      <4>2. done[w] \in Nat /\ Len(entry[w]) \in Nat  BY WriterFacts
      <4> QED  BY <4>1, <4>2
    <3>3. ~WriteFails(w) /\ ~Unlock(w)
      BY <1>1 DEF WriteFails, Unlock, WriterInv
    <3>4. \A n : Write(w, n) => at[w] = "write"  BY DEF Write
    <3>5. at[w] = "write" => Len(entry[w]) - done[w] \in Nat
      <4>1. done[w] \in Nat /\ Len(entry[w]) \in Nat  BY WriterFacts
      <4> QED  BY <4>1 DEF Pending
    <3>6. \A n \in Pieces : n \in Nat  BY LoggerAssumption
    <3> QED  BY <1>4, <2>2, <3>1, <3>2, <3>3, <3>4, <3>5, <3>6 DEF LogStep, WriterStep
  <2> QED  BY <2>1, <2>2
<1>5. CASE MainStep \/ RunReturns \/ CloseServer \/ Terminated \/ UNCHANGED vars
  BY <1>2, <1>5 DEF MainStep, OpenConfig, ReadLine, FinishLoad, OpenErrorLog, OpenAccessLog,
       LoadKeyPair, OpenLog, CloseLogs, Close, RunReturns, CloseServer, Terminated, vars,
       loggerVars, callVars
<1> QED  BY <1>3, <1>4, <1>5 DEF Next

\* A call of the logger returns after at most as many steps of its own as its
\* entry has runes and two more, and nobody else makes it longer: writes that
\* are short or fail, a file that is closed meanwhile, included (logger.go).
THEOREM CallsAreBounded ==
    Spec => [][\A w \in Writers : /\ LogStep(w) => Ahead(w)' < Ahead(w)
                                  /\ ~LogStep(w) /\ at[w] # "idle" => Ahead(w)' = Ahead(w)]_vars
<1> DEFINE Shorter == \A w \in Writers :
                         /\ LogStep(w) => Ahead(w)' < Ahead(w)
                         /\ ~LogStep(w) /\ at[w] # "idle" => Ahead(w)' = Ahead(w)
<1>1. Init => Pending  BY DEF Init, LoggerInit, Pending
<1>2. LogInv /\ Pending /\ [Next]_vars => Shorter \/ UNCHANGED vars
  <2> SUFFICES ASSUME LogInv, Pending, [Next]_vars, NEW w \in Writers
               PROVE  /\ LogStep(w) => Ahead(w)' < Ahead(w)
                      /\ ~LogStep(w) /\ at[w] # "idle" => Ahead(w)' = Ahead(w)
    OBVIOUS
  <2>1. WriterInv  BY DEF LogInv
  <2>2. /\ done[w] \in Nat /\ Len(entry[w]) \in Nat
        /\ at[w] = "lock" => done[w] = 0
    BY WriterFacts
  <2>3. ASSUME Lock(w) PROVE Ahead(w)' < Ahead(w)
    <3>1. /\ at[w] = "lock" /\ at'[w] = "write"
          /\ done'[w] = done[w] /\ entry'[w] = entry[w]
      BY <2>1, <2>3 DEF Lock, WriterInv
    <3> QED  BY <2>2, <3>1 DEF Ahead
  <2>4. ASSUME NEW n \in Nat \ {0}, Write(w, n) PROVE Ahead(w)' < Ahead(w)
    <3>1. /\ at[w] = "write" /\ at'[w] \in {"write", "unlock"}
          /\ done'[w] = done[w] + n /\ entry'[w] = entry[w]
      BY <2>1, <2>4 DEF Write, WriterInv
    <3>2. done[w] < Len(entry[w])  BY <3>1 DEF Pending
    <3> QED  BY <2>2, <3>1, <3>2 DEF Ahead
  <2>5. ASSUME WriteFails(w) PROVE Ahead(w)' < Ahead(w)
    <3>1. at[w] = "write" /\ at'[w] = "unlock"
      BY <2>1, <2>5 DEF WriteFails, WriterInv
    <3>2. done[w] < Len(entry[w])  BY <3>1 DEF Pending
    <3> QED  BY <2>2, <3>1, <3>2 DEF Ahead
  <2>6. ASSUME Unlock(w) PROVE Ahead(w)' < Ahead(w)
    <3>1. at[w] = "unlock" /\ at'[w] = "idle"
      BY <2>1, <2>6 DEF Unlock, WriterInv
    <3> QED  BY <3>1 DEF Ahead
  <2>7. LogStep(w) => Ahead(w)' < Ahead(w)
    <3>1. at[w] = "write" => Len(entry[w]) - done[w] \in Nat \ {0}
      BY <2>2 DEF Pending
    <3>2. \A n \in Pieces : n \in Nat \ {0}  BY LoggerAssumption
    <3>3. \A n : Write(w, n) => at[w] = "write"  BY DEF Write
    <3> QED  BY <2>3, <2>4, <2>5, <2>6, <3>1, <3>2, <3>3 DEF LogStep, WriterStep
  <2>8. at'[w] = at[w] /\ done'[w] = done[w] /\ entry'[w] = entry[w] => Ahead(w)' = Ahead(w)
    BY DEF Ahead
  <2>9. ASSUME NEW v \in Writers, v # w, LogCall(v) \/ LogStep(v) PROVE Ahead(w)' = Ahead(w)
    <3>1. at'[w] = at[w] /\ done'[w] = done[w] /\ entry'[w] = entry[w]
      BY <2>1, <2>9 DEF LogCall, Call, LogStep, WriterStep, Lock, Write, WriteFails, Unlock,
           WriterInv
    <3> QED  BY <2>8, <3>1
  <2>10. LogCall(w) => at[w] = "idle"  BY DEF LogCall, Call
  <2>11. CASE MainStep \/ RunReturns \/ CloseServer \/ Terminated \/ UNCHANGED vars
    <3>1. UNCHANGED <<at, entry, done>>
      BY <2>11 DEF MainStep, OpenConfig, ReadLine, FinishLoad, OpenErrorLog, OpenAccessLog,
           LoadKeyPair, OpenLog, CloseLogs, Close, RunReturns, CloseServer, Terminated, vars,
           loggerVars, callVars
    <3> QED  BY <2>7, <2>8, <3>1
  <2> QED  BY <2>7, <2>9, <2>10, <2>11 DEF Next
<1> HIDE DEF Shorter
<1>3. Spec => [][Shorter]_vars
  BY <1>1, <1>2, PendingStep, LogInductive, PTL DEF Spec
<1> QED  BY <1>3 DEF Shorter
=============================================================================
