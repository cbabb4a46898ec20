------------------------------ MODULE JsonLines ------------------------------
(***************************************************************************)
(* The .jsonl files of btcvm, of imgfs and of ott: a row is appended as one *)
(* line, and loaded line by line; imgfs and ott go on past what json.loads *)
(* refuses (Rows), btcvm's verify.py does not.  A line is what json.loads  *)
(* makes of it: <<row>>, or <<>> when it raises.                           *)
(***************************************************************************)
EXTENDS Naturals, Sequences, FiniteSets, SequencesExt

\* open: the last line has no newline yet, because its append was cut short
EmptyFile == [lines |-> <<>>, open |-> FALSE]

\* a row that is appended behind an open line becomes a part of it: neither the
\* two rows, nor a half of one and the other, are a JSON document
WithLine(file, line) ==
    IF file.open THEN [file.lines EXCEPT ![Len(file.lines)] = <<>>]
    ELSE Append(file.lines, line)

AppendLine(file, row) == [lines |-> WithLine(file, <<row>>), open |-> FALSE]

\* what an append that is cut short leaves: a part of the line, which is no JSON
\* document, or all of it but the newline
Tears == {"part", "line"}
TornLine(file, row, tear) ==
    [lines |-> WithLine(file, IF tear = "line" THEN <<row>> ELSE <<>>), open |-> TRUE]

\* the elements of s at the positions in I, in their order
Pick(s, I) ==
    [k \in 1 .. Cardinality(I) |-> s[CHOOSE i \in I : Cardinality({j \in I : j <= i}) = k]]

\* Mutant: the first line that does not parse ends the load.
Rows_UpToBad(file) ==
    LET good == Pick(file.lines, {i \in DOMAIN file.lines :
                                     \A j \in 1..i : file.lines[j] # <<>>})
    IN  [i \in DOMAIN good |-> good[i][1]]

Rows(file) ==
    LET good == Pick(file.lines, {i \in DOMAIN file.lines : file.lines[i] # <<>>})
    IN  [i \in DOMAIN good |-> good[i][1]]
=============================================================================
