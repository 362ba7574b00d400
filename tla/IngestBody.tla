----------------------------- MODULE IngestBody -----------------------------
(***************************************************************************)
(* What the gateway makes of a request's body: the LimitReader of          *)
(* ServeHTTP and parseLogObjects of internal/ingest/handler.go.            *)
(*                                                                         *)
(* Of a line count its length, which of its bytes are not blank (`ink'),   *)
(* and the byte at which a JSON object (or null, which Unmarshal takes for *)
(* an empty one) that stands at its front is complete (`object', 0 if none *)
(* does): after that byte only blanks leave the line JSON, and what a cut  *)
(* leaves of a line may be JSON though the line is not.  A body is lines;  *)
(* its first `array' lines may be a JSON array, with an element in each of *)
(* them that is not blank.  Blanks are single bytes.                       *)
(***************************************************************************)
EXTENDS Integers, Sequences, FiniteSets

CONSTANTS
    MaxBody,  \* bytes of a body that are read (16 MiB)
    MaxLine,  \* the scanner's buffer, which holds a line and its end (8 MiB)
    Refused   \* a body answered with 400

ASSUME BodyConstants == MaxBody \in Nat /\ MaxLine \in Nat \ {0}

\* Where line i starts: after the lines before it and their line ends.
Offset(lines, i) ==
    LET At[j \in 1 .. Len(lines) + 1] == IF j = 1 THEN 0 ELSE At[j - 1] + lines[j - 1].len + 1
    IN  At[i]

\* io.LimitReader: of the lines, the bytes that lie within the limit.  (Of a
\* line beyond it none does: its length is not positive.)
ReadLimited(lines) ==
    LET room(i) == MaxBody - Offset(lines, i)
    IN  [i \in 1 .. Len(lines) |->
            IF lines[i].len <= room(i) THEN lines[i]
            ELSE [lines[i] EXCEPT !.len = room(i), !.ink = {p \in @ : p <= room(i)},
                                  !.whole = FALSE]]

\* json.Unmarshal accepts what the line holds.
IsObject(line) == line.object \in line.ink /\ \A p \in line.ink : p <= line.object

\* What becomes of one line, a cut-off one too: what is not JSON is taken as the
\* text of a message.
ObjectOf(line) ==
    [line |-> line.line, whole |-> line.whole, as |-> IF IsObject(line) THEN "object" ELSE "text"]

\* Mutant: a line that is not JSON is dropped.
ObjectsOnlyJSON(read) ==
    LET Out[i \in 0 .. Len(read)] ==
            IF i = 0 THEN <<>>
            ELSE IF IsObject(read[i]) THEN Append(Out[i - 1], ObjectOf(read[i])) ELSE Out[i - 1]
    IN  Out[Len(read)]

\* The lines in turn: blank ones are skipped.
Objects(read) ==
    LET Out[i \in 0 .. Len(read)] ==
            IF i = 0 THEN <<>>
            ELSE IF read[i].ink # {} THEN Append(Out[i - 1], ObjectOf(read[i])) ELSE Out[i - 1]
    IN  Out[Len(read)]

\* The bytes of line i that strings.TrimSpace leaves of the body: there is ink
\* not behind them, and ink not before them.
Trimmed(read, i) ==
    {p \in 1 .. read[i].len :
        /\ \E j \in 1 .. i : \E q \in read[j].ink : j < i \/ q <= p
        /\ \E j \in i .. Len(read) : \E q \in read[j].ink : j > i \/ q >= p}

\* An array is one JSON document: cut off before its end, with anything but
\* objects in it, or with anything after it, it is refused.  Of lines, one that
\* fills the scanner's buffer is.
ParseLogObjects(array, lines) ==
    LET read    == ReadLimited(lines)
        refused == IF array # 0
                   THEN \/ \E i \in 1 .. array : read[i].ink # lines[i].ink
                        \/ \E i \in 1 .. array : read[i].ink # {} /\ ~IsObject(read[i])
                        \/ \E i \in array + 1 .. Len(read) : read[i].ink # {}
                   ELSE \E i \in 1 .. Len(read) : Cardinality(Trimmed(read, i)) >= MaxLine
    IN  IF refused THEN Refused ELSE Objects(read)

-----------------------------------------------------------------------------
\* Line j lies within the limit.
Fits(lines, j) == Offset(lines, j + 1) - 1 <= MaxBody

\* What an accepted body became.  Every line within the limit that is not blank
\* is kept, in order, and as an object just if it is JSON.  Besides, there may be
\* what was read of the first line beyond the limit, as the last; it may be taken
\* for an object that was never sent (`{"a":1} text' cut behind the brace).  An
\* array is taken whole.
BodyKept(array, lines) ==
    LET got     == ParseLogObjects(array, lines)
        n       == Len(got)
        kept(I) == {got[i].line : i \in I}
    IN  got # Refused =>
            /\ \A i, j \in 1 .. n : i < j => got[i].line < got[j].line
            /\ kept({i \in 1 .. n : got[i].whole})
                  = {j \in 1 .. Len(lines) : Fits(lines, j) /\ lines[j].ink # {}}
            /\ \A i \in 1 .. n :
                  IF got[i].whole THEN got[i].as = "object" <=> IsObject(lines[got[i].line])
                  ELSE i = n /\ ~Fits(lines, got[i].line)
            /\ array # 0 => kept(1 .. n) = {j \in 1 .. array : lines[j].ink # {}}
=============================================================================
