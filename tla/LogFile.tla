------------------------------ MODULE LogFile ------------------------------
(***************************************************************************)
(* What the logger promises to whoever reads its files: a file only grows, *)
(* while it is open, by one entry at a time; an entry is never interleaved *)
(* with another, and if the system refuses a part of it, it is a beginning *)
(* of it that is there.                                                    *)
(***************************************************************************)
EXTENDS Naturals, Sequences

CONSTANTS Files,    \* the log files
          Entries   \* the lines that may be logged

VARIABLES handle,   \* handle[f]: "none", "open" or "closed"
          content   \* content[f]: what the file holds

logVars == <<handle, content>>

Init == /\ handle = [f \in Files |-> "none"]
        /\ content = [f \in Files |-> <<>>]

\* The daemon opens the files it is configured to write, one at a time.
Open(f) == /\ handle[f] = "none"
           /\ handle' = [handle EXCEPT ![f] = "open"]
           /\ UNCHANGED content

Extend(f) == /\ handle[f] = "open"
             /\ \E e \in Entries : \E n \in 1..Len(e) :
                   content' = [content EXCEPT ![f] = @ \o SubSeq(e, 1, n)]
             /\ UNCHANGED handle

\* What is open is closed together, for good.
Close == /\ handle' = [f \in Files |-> IF handle[f] = "open" THEN "closed"
                                       ELSE handle[f]]
         /\ UNCHANGED content

Next == Close \/ \E f \in Files : Open(f) \/ Extend(f)

Spec == Init /\ [][Next]_logVars
=============================================================================
