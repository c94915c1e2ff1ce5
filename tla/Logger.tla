------------------------------- MODULE Logger -------------------------------
(***************************************************************************)
(* internal/server/logger.go: connections and listeners that log at the    *)
(* same time to two files under one mutex, and the Close that main calls.  *)
(*                                                                         *)
(* A text is a sequence of runes of the classes sanitizeLog tells apart:   *)
(* "a" and "." (one byte, kept), "wide" (a rune of three bytes), "sp",     *)
(* "lf" (CR, LF or TAB) and "ctl" (any other control byte).  An entry is   *)
(* one such field and the line feed that write adds; the rest of its       *)
(* format is fixed text.  WriteString is a series of system calls, each    *)
(* of which may be short or fail; that os.File has a lock of its own is    *)
(* not relied on.                                                          *)
(*                                                                         *)
(* A definition that ends in "_" is a faulty variant of the one after it,  *)
(* kept to show that a property would notice the fault.                    *)
(***************************************************************************)
EXTENDS Naturals, Sequences, SequencesExt

CONSTANTS Writers,    \* the goroutines that log
          Nobody,     \* the holder of a free mutex
          Texts,      \* the texts that are logged
          MaxField,   \* maxLogFieldBytes
          Pieces,     \* bound: the sizes of a short write
          MaxCalls    \* bound: the calls of one goroutine

Runes == {"a", ".", "wide", "sp", "lf", "ctl"}

ASSUME LoggerAssumption == /\ Nobody \notin Writers
                           /\ Texts \subseteq Seq(Runes)
                           /\ MaxField \in Nat /\ MaxField > 3
                           /\ Pieces \subseteq Nat \ {0}

VARIABLES
    handle,    \* handle[f]: "none", "open" or "closed"
    file,      \* file[f]: what the file holds
    mutex,     \* the writer that holds Logger.mu
    at,        \* at[w]: "idle", "lock", "write" or "unlock"
    target,    \* target[w]: the file of its entry
    entry,     \* entry[w]: the line that is or was written
    done,      \* done[w]: how much of it the system has taken
    calls,     \* calls[w]: how often w has logged
    content    \* history: what each file held when the mutex was last free

Files == {"error.log", "access.log"}

callVars  == <<at, target, entry, done, calls>>
loggerVars == <<handle, file, mutex, callVars, content>>

LoggerInit ==
    /\ handle = [f \in Files |-> "none"]
    /\ file = [f \in Files |-> <<>>] /\ content = file
    /\ mutex = Nobody
    /\ at = [w \in Writers |-> "idle"]
    /\ target = [w \in Writers |-> "error.log"]
    /\ entry = [w \in Writers |-> <<>>]
    /\ done = [w \in Writers |-> 0]
    /\ calls = [w \in Writers |-> 0]
-----------------------------------------------------------------------------
(* sanitizeLog.                                                            *)

Bytes(s)  == Len(s) + 2 * Cardinality({i \in DOMAIN s : s[i] = "wide"})
Escape_(r) == <<r>>
Escape(r) == CASE r = "lf"  -> <<"sp">>
               [] r = "ctl" -> <<"a", "a", "a", "a">>
               [] OTHER     -> <<r>>
Escaped(s) == FlattenSeq([i \in DOMAIN s |-> Escape(s[i])])

\* strings.TrimSpace.
Trimmed(s) == LET solid == {i \in DOMAIN s : s[i] # "sp"}
              IN  IF solid = {} THEN <<>> ELSE SubSeq(s, Min(solid), Max(solid))

\* The longest beginning of s that takes n bytes.
Fitting(s, n) == SubSeq(s, 1, Max({k \in 0..Len(s) : Bytes(SubSeq(s, 1, k)) <= n}))

trimLogField(s, n) == Trimmed(Fitting(s, n))

sanitizeLog_(s) ==
    LET sizes == {k \in 0..Len(s) : Bytes(Escaped(SubSeq(s, 1, k))) <= MaxField}
        out == Trimmed(Escaped(SubSeq(s, 1, Max(sizes))))
    IN  IF out = <<>> THEN <<"a">>
        ELSE IF Len(s) \in sizes THEN out ELSE out \o <<".", ".", ".">>

\* The runes are escaped one by one until one does not fit; a field that was
\* cut ends in three dots, for which it is cut again.
sanitizeLog(s) ==
    LET sizes == {k \in 0..Len(s) : Bytes(Escaped(SubSeq(s, 1, k))) <= MaxField}
        out == Trimmed(Escaped(SubSeq(s, 1, Max(sizes))))
    IN  IF out = <<>> THEN <<"a">>
        ELSE IF Len(s) \in sizes THEN out
        ELSE trimLogField(out, MaxField - 3) \o <<".", ".", ".">>

Line(s) == sanitizeLog(s) \o <<"lf">>
Entries == {Line(s) : s \in Texts}
-----------------------------------------------------------------------------
(* Error and Access, which end in write.                                   *)

\* The nil checks, and the line up to the mutex.  A nil file logs nothing.
Call(w, f, s) == /\ at[w] = "idle" /\ handle[f] # "none" /\ calls[w] < MaxCalls
                 /\ at' = [at EXCEPT ![w] = "lock"]
                 /\ target' = [target EXCEPT ![w] = f]
                 /\ entry' = [entry EXCEPT ![w] = Line(s)]
                 /\ done' = [done EXCEPT ![w] = 0]
                 /\ calls' = [calls EXCEPT ![w] = @ + 1]
                 /\ UNCHANGED <<handle, file, mutex, content>>

Lock_(w) == /\ at[w] = "lock"      \* no mutex
            /\ mutex' = w
            /\ at' = [at EXCEPT ![w] = "write"]
            /\ UNCHANGED <<handle, file, target, entry, done, calls, content>>

Lock(w) == /\ at[w] = "lock" /\ mutex = Nobody
           /\ mutex' = w
           /\ at' = [at EXCEPT ![w] = "write"]
           /\ UNCHANGED <<handle, file, target, entry, done, calls, content>>

\* One write system call of WriteString takes n more runes, or all.
Write(w, n) ==
    LET f == target[w]
    IN  /\ at[w] = "write" /\ handle[f] = "open"
        /\ done[w] + n <= Len(entry[w])
        /\ file' = [file EXCEPT ![f] = @ \o SubSeq(entry[w], done[w] + 1, done[w] + n)]
        /\ done' = [done EXCEPT ![w] = @ + n]
        /\ at' = [at EXCEPT ![w] = IF done[w] + n = Len(entry[w]) THEN "unlock" ELSE @]
        /\ UNCHANGED <<handle, mutex, target, entry, calls, content>>

\* A file that is closed, or a disk that is full: the error is dropped.
WriteFails(w) == /\ at[w] = "write"
                 /\ at' = [at EXCEPT ![w] = "unlock"]
                 /\ UNCHANGED <<handle, file, mutex, target, entry, done, calls, content>>

Unlock_(w) == /\ at[w] = "unlock"
              /\ at' = [at EXCEPT ![w] = "idle"]
              /\ content' = file
              /\ UNCHANGED <<handle, file, mutex, target, entry, done, calls>>

\* The deferred Unlock.
Unlock(w) == /\ at[w] = "unlock"
             /\ mutex' = Nobody
             /\ at' = [at EXCEPT ![w] = "idle"]
             /\ content' = file
             /\ UNCHANGED <<handle, file, target, entry, done, calls>>

\* openLog: the descriptor is of a regular file, or there is none.
OpenLog(f) == /\ handle' = [handle EXCEPT ![f] = "open"]
              /\ UNCHANGED <<file, mutex, callVars, content>>

\* Logger.Close, under the mutex and past its errors.
CloseAll == [f \in Files |-> IF handle[f] = "open" THEN "closed" ELSE handle[f]]
Close == /\ mutex = Nobody
         /\ handle' = CloseAll
         /\ UNCHANGED <<file, mutex, callVars, content>>

WriterStep(w) == \/ Lock(w) \/ WriteFails(w) \/ Unlock(w)
                 \/ Write(w, Len(entry[w]) - done[w])
                 \/ \E n \in Pieces : Write(w, n)
-----------------------------------------------------------------------------
LoggerTypeOK ==
    /\ handle \in [Files -> {"none", "open", "closed"}]
    /\ file \in [Files -> Seq(Runes \ {"ctl"})]
    /\ content \in [Files -> Seq(Runes \ {"ctl"})]
    /\ mutex \in Writers \cup {Nobody}
    /\ at \in [Writers -> {"idle", "lock", "write", "unlock"}]
    /\ target \in [Writers -> Files]
    /\ entry \in [Writers -> Entries \cup {<<>>}]
    /\ \A w \in Writers : done[w] \in 0..Len(entry[w])
    /\ calls \in [Writers -> Nat]

\* What a field may make of a text: all of it, escaped; less than all of one
\* too large, and then three dots at its end; or the placeholder, for a text
\* that is empty or begins with a blank.
Shows(field, s) ==
    \/ field = Trimmed(Escaped(s))
    \/ /\ Bytes(Escaped(s)) > MaxField /\ Len(field) >= 3
       /\ \A i \in (Len(field) - 2)..Len(field) : field[i] = "."
    \/ field = <<"a">> /\ (s = <<>> \/ s[1] \in {"sp", "lf"})

\* An entry is one line, whatever the client put into the field that is
\* logged: its only line feed ends it, it fits the field limit, and it shows
\* a text in full or ends in the three dots that mark a cut.  Otherwise one
\* request could look like several in the log, or like a shorter one.
EntryIsOneLine ==
    \A w \in Writers : at[w] # "idle" =>
        LET n == Len(entry[w]) - 1
            field == SubSeq(entry[w], 1, n)
        IN  /\ n > 0 /\ entry[w][n + 1] = "lf"
            /\ \A i \in 1..n : field[i] \notin {"lf", "ctl"}
            /\ field[1] # "sp" /\ field[n] # "sp"
            /\ Bytes(field) <= MaxField
            /\ \E s \in Texts : Shows(field, s)

\* The file as its readers see it is what it held whenever the mutex was free.
Promise == INSTANCE LogFile WITH Entries <- Entries
=============================================================================
