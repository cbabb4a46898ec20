-------------------------------- MODULE ImgFs --------------------------------
(***************************************************************************)
(* imgfs, the archive before ott: a manifest and a ledger, both .jsonl      *)
(* files, that add and commit append to.  One command runs at a time; one   *)
(* that is cut short while it appends tears the line.                       *)
(***************************************************************************)
EXTENDS JsonLines, Integers, FiniteSets

CONSTANTS
    Digests,    \* of files
    FileNames,  \* of the .jsonl files, "images" and "anchors" among them
    Torn,       \* how a line may be torn
    MaxTime,    \* bound on the clock
    MaxRows,    \* bound on the rows a file has when a command begins that adds more
    MaxCrashes  \* bound on the commands that are cut short

ASSUME FileNamesAssumption == {"images", "anchors"} \subseteq FileNames
ASSUME TornAssumption == Torn \subseteq Tears

VARIABLES
    now,        \* time.gmtime() to the second
    files,      \* the .jsonl files
    acked,      \* per file, the rows whose append was not cut short
    crashes

storage == <<files, acked, crashes>>

ImgInit ==
    /\ now = 0
    /\ files = [n \in FileNames |-> EmptyFile]
    /\ acked = [n \in FileNames |-> {}]
    /\ crashes = 0

AppendRow(n, row) ==
    /\ files' = [files EXCEPT ![n] = AppendLine(@, row)]
    /\ acked' = [acked EXCEPT ![n] = @ \cup {row}]
    /\ UNCHANGED crashes

TearRow(n, row) ==
    /\ crashes < MaxCrashes
    /\ \E tear \in Torn : files' = [files EXCEPT ![n] = TornLine(@, row, tear)]
    /\ crashes' = crashes + 1
    /\ UNCHANGED acked

Load(n) == Rows(files[n])

----------------------------------------------------------------------------
\* an entry of a manifest, and a row of a ledger
Entry(d) == [digest |-> d, added |-> now, deleted |-> FALSE]
LedgerRow(leaves) == [ts |-> now, leaves |-> leaves]

DigestsOf(rows) == [i \in DOMAIN rows |-> rows[i].digest]

\* current_root: a root is the list of its leaves
ImgLeaves == DigestsOf(Load("images"))

ImgAdd(d) ==
    /\ d \notin ToSet(ImgLeaves)
    /\ AppendRow("images", Entry(d)) \/ TearRow("images", Entry(d))
    /\ UNCHANGED now

ImgCommit ==
    /\ ImgLeaves # <<>> /\ Len(files["anchors"].lines) < MaxRows
    /\ \/ AppendRow("anchors", LedgerRow(ImgLeaves))
       \/ TearRow("anchors", LedgerRow(ImgLeaves))
    /\ UNCHANGED now

\* cmd_status: what it says of a root and the rows of a ledger; imgfs parses the
\* last line of its own whatever it is
Status(rows, leaves) ==
    IF rows = <<>> THEN "never"
    ELSE IF Last(rows).leaves = leaves THEN "committed" ELSE "changed"

ImgStatus ==
    LET lines == files["anchors"].lines
    IN  IF lines # <<>> /\ Last(lines) = <<>> THEN "raises"
        ELSE Status(Load("anchors"), ImgLeaves)

ImgTick ==
    /\ now < MaxTime
    /\ now' = now + 1
    /\ UNCHANGED storage

----------------------------------------------------------------------------
\* A line that does not parse costs at most one row that was acknowledged: no
\* loader gives up at it, and an append behind a torn line spoils no other one.
LossBounded ==
    \A n \in FileNames :
        Cardinality(acked[n] \ ToSet(Load(n)))
            <= Cardinality({i \in DOMAIN files[n].lines : files[n].lines[i] = <<>>})
=============================================================================
