---------------------------- MODULE DaemonOutput ----------------------------
(***************************************************************************)
(* What may leave the desktop process of the text its daemon prints, and   *)
(* the boot URL it looks for in the same text: CredentialSafeLineStream    *)
(* and appendStderr() of daemon-output.js, and the "data" and "end"        *)
(* listeners of Daemon.start().  A stream comes in pieces cut anywhere.    *)
(*                                                                         *)
(* The text is a sequence of five symbols: the two halves "u1", "u2" of    *)
(* what introduces the token (http://127.0.0.1:PORT/?token=), which stands *)
(* for the three credentials, a character "c", a space and the newline.    *)
(***************************************************************************)
EXTENDS Integers, Sequences, SequencesExt, FiniteSets

CONSTANTS LineChars,     \* OUTPUT_LINE_CHARS
          TailChars,     \* the tail in which the URL is looked for
          KeptLines,     \* STDERR_LINES
          KeptChars,     \* STDERR_LINE_CHARS
          MaxHeard,      \* bound: symbols in a stream
          None

Symbols == {"u1", "u2", "c", "sp", "nl"}

\* Lengths are numbers, a kept line has room for a character, None is no text.
ASSUME OutputConstants ==
    /\ {LineChars, TailChars, KeptLines, MaxHeard} \subseteq Nat
    /\ KeptChars \in Nat \ {0}
    /\ None \notin Seq(Symbols)

Blank == {"sp", "nl"}
Elided == <<"elided">>

VARIABLES
    heard,      \* everything the stream has brought
    pending,    \* #pending: the line that has not ended
    dropping,   \* #dropping: that line is too long already
    ended,      \* #ended
    said,       \* the lines that left the process
    kept,       \* the last lines of them, for the crash dialog
    tail, found \* the tail of the private text, and the URL found in it

streamVars == <<heard, pending, dropping, ended, said, kept, tail, found>>

----------------------------------------------------------------------------
(* redactCredentials() *)

\* Position i is in a credential: everything from its introduction to a space.
Secret(text, i) ==
    \E j \in 2..(i - 1) :
        /\ text[j - 1] = "u1" /\ text[j] = "u2"
        /\ \A k \in (j + 1)..i : text[k] \notin Blank

\* The numbers of S, smallest first.
Ascending(S) ==
    [n \in 1..Cardinality(S) |-> CHOOSE i \in S : Cardinality({j \in S : j <= i}) = n]

\* Each credential becomes one mark.
Redact(text) ==
    LET left == Ascending({i \in DOMAIN text : ~(Secret(text, i) /\ Secret(text, i - 1))})
    IN [n \in DOMAIN left |-> IF Secret(text, left[n]) THEN "redacted" ELSE text[left[n]]]

----------------------------------------------------------------------------
(* CredentialSafeLineStream: a chunk is cut at its newlines, and every part *)
(* is added to the line it belongs to.                                     *)

\* Mutant: the part that does not fit is dropped, and the line goes on.
AddPart(line, part) ==
    IF Len(line.pending) + Len(part) > LineChars
    THEN line
    ELSE [pending |-> line.pending \o part, dropping |-> line.dropping]

Add(line, part) ==
    IF line.dropping THEN line
    ELSE IF Len(line.pending) + Len(part) > LineChars
         THEN [pending |-> <<>>, dropping |-> TRUE]
         ELSE [pending |-> line.pending \o part, dropping |-> FALSE]

FreshLine == [pending |-> <<>>, dropping |-> FALSE]

\* What is said of a line that ends.
Ended(line) == IF line.dropping THEN Elided ELSE Redact(line.pending)

\* The text between two newlines, or before the first or after the last.
Newlines(text) == {i \in DOMAIN text : text[i] = "nl"}
Parts(text) ==
    LET cuts == Ascending(Newlines(text) \cup {0, Len(text) + 1})
    IN [n \in 1..(Len(cuts) - 1) |-> SubSeq(text, cuts[n] + 1, cuts[n + 1] - 1)]

\* The first part goes on with the line under way, each other one begins a
\* line, and the last of them has not ended.
Push(text) ==
    LET parts == Parts(text)
        lines == [n \in DOMAIN parts |->
                    Add(IF n = 1 THEN [pending |-> pending, dropping |-> dropping] ELSE FreshLine,
                        parts[n])]
    IN [pending |-> Last(lines).pending, dropping |-> Last(lines).dropping,
        safe |-> [n \in 1..(Len(lines) - 1) |-> Ended(lines[n])]]

\* appendStderr(): blank lines are left out, long ones cut, old ones forgotten.
Keep(lines, safe) ==
    LET told == Ascending({i \in DOMAIN safe : \E n \in DOMAIN safe[i] : safe[i][n] # "sp"})
        cut(line) == SubSeq(line, 1, IF Len(line) < KeptChars THEN Len(line) ELSE KeptChars)
        next == lines \o [n \in DOMAIN told |-> cut(safe[told[n]])]
    IN SubSeq(next, IF Len(next) > KeptLines THEN Len(next) - KeptLines + 1 ELSE 1, Len(next))

----------------------------------------------------------------------------
(* findStartupUrl(): an introduction with all that follows it up to a      *)
(* blank, which must have come.                                            *)

Blanks(text) == {i \in DOMAIN text : text[i] \in Blank}
Urls(text) == {u \in (DOMAIN text) \X Blanks(text) :
    /\ u[1] + 1 < u[2] /\ text[u[1]] = "u1" /\ text[u[1] + 1] = "u2"
    /\ \A k \in u[1]..(u[2] - 1) : text[k] \notin Blank}

UrlOf(text, u) == SubSeq(text, u[1], u[2] - 1)

First(urls) == CHOOSE u \in urls : \A v \in urls : u[1] <= v[1]

LastChars(text) == SubSeq(text, IF Len(text) > TailChars THEN Len(text) - TailChars + 1 ELSE 1, Len(text))

\* Mutant: each chunk is searched by itself.
TailAlone(text) == LastChars(text)

TailWith(text) == LastChars(tail \o text)

LooksForUrl(text, settled) ==
    \/ settled /\ UNCHANGED <<tail, found>>
    \/ /\ ~settled
       /\ LET seen == TailWith(text) IN
            \/ /\ Urls(seen) = {} /\ tail' = seen /\ UNCHANGED found
            \/ /\ Urls(seen) # {} /\ tail' = <<>>
               /\ found' = UrlOf(seen, First(Urls(seen)))

----------------------------------------------------------------------------
StreamInit ==
    /\ heard = <<>> /\ pending = <<>> /\ dropping = FALSE /\ ended = FALSE
    /\ said = <<>> /\ kept = <<>> /\ tail = <<>> /\ found = None

\* "data": once the URL is settled, nobody looks for it.
Data(text, settled) ==
    /\ ~ended /\ heard' = heard \o text
    /\ LET line == Push(text) IN
         /\ pending' = line.pending /\ dropping' = line.dropping
         /\ said' = said \o line.safe
         /\ kept' = Keep(kept, line.safe)
    /\ LooksForUrl(text, settled)
    /\ UNCHANGED ended

\* "end" and "close" both come; the second finds the stream ended.
End ==
    /\ ~ended /\ ended' = TRUE
    /\ LET rest == Ended([pending |-> pending, dropping |-> dropping])
           safe == IF rest = <<>> THEN <<>> ELSE <<rest>>
       IN said' = said \o safe /\ kept' = Keep(kept, safe)
    /\ pending' = <<>> /\ dropping' = FALSE
    /\ UNCHANGED <<heard, tail, found>>

----------------------------------------------------------------------------
StreamTypeOK ==
    /\ heard \in Seq(Symbols) /\ Len(heard) <= MaxHeard
    /\ pending \in Seq(Symbols \ {"nl"}) /\ Len(pending) <= LineChars
    /\ {dropping, ended} \subseteq BOOLEAN
    /\ dropping => pending = <<>>
    /\ Len(kept) <= KeptLines /\ \A n \in DOMAIN kept : Len(kept[n]) \in 1..KeptChars
    /\ Len(tail) <= TailChars

\* What a line of the whole text says, whatever pieces it came in.
Says(line) == IF Len(line) > LineChars THEN Elided ELSE Redact(line)

\* However the stream is cut, what leaves the process is each logical line with
\* its credentials struck out, or its elision, and the rest of the last line
\* only at the end; the buffers stay within their bounds
\* (CredentialSafeLineStream.push() and end(), appendStderr()).
SaysLines ==
    /\ StreamTypeOK
    /\ LET lines == Parts(heard)
           told == [n \in 1..(Len(lines) - 1) |-> Says(lines[n])]
       IN said = IF ended /\ Last(lines) # <<>>
                 THEN Append(told, Says(Last(lines))) ELSE told
=============================================================================
