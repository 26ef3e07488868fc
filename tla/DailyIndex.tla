----------------------------- MODULE DailyIndex -----------------------------
(* get_daily_index() of src/idi_ftm2j_shared/sec.py: a generator that asks    *)
(* SEC for one crawler index per day and yields a filing per row, pulled by   *)
(* the pipeline while SEC goes on publishing.  A query and its retries are    *)
(* one step here (module ApiClient takes it apart), and what it returns is    *)
(* QueryResult's dict.                                                        *)
EXTENDS Integers, Sequences, QueryResult

CONSTANTS
    Days,       \* the calendar, as consecutive integers
    MaxLines,   \* bound: lines of an index file
    None

ASSUME CalendarAssumption ==
    /\ Days \subseteq Int
    /\ \A first, last \in Days : first .. last \subseteq Days
    /\ MaxLines \in Nat

VARIABLES
    index,      \* the file SEC has for each day, or None
    pc,         \* where the generator is
    from, to,   \* start_date, end_date
    current,    \* the day the generator is at
    body,       \* the lines being parsed, or None between two days
    line,       \* how many of them are parsed
    fetched,    \* history: what the query of each day brought, or None
    yielded     \* history: the rows handed out, as <<day, line>>

vars == <<index, pc, from, to, current, body, line, fetched, yielded>>

-----------------------------------------------------------------------------
\* "header" holds the words Form Type; "row" reaches past that column and
\* matches _FIELDS_RE there, and so does "undated", but the eight digits of its
\* date are no day of the calendar; any other line does neither.
Lines == {"header", "row", "undated", "other"}

Files == UNION {[1 .. n -> Lines] : n \in 0 .. MaxLines}

ASSUME NoneAssumption == None \notin Files

\* _find_form_type_col() finds a column.
HasColumn(text) == \E i \in DOMAIN text : text[i] = "header"

\* Which lines of a file are filings: the column is looked for in the whole
\* file, so a row above the header counts as well.
Filings(text) ==
    IF HasColumn(text) THEN {i \in DOMAIN text : text[i] = "row"} ELSE {}

\* A day without a file is a 404 (or worse) for the client.
RepliesFor(d) ==
    IF index[d] = None THEN Replies \ {"json", "other text"} ELSE Replies

-----------------------------------------------------------------------------
Init ==
    /\ index \in [Days -> Files \union {None}]
    /\ pc = "uncalled"
    /\ from \in Days /\ to \in Days /\ current = from
    /\ body = None /\ line = 0
    /\ fetched = [d \in Days |-> None]
    /\ yielded = <<>>

\* SEC publishes the index of a day.
Publish(d) ==
    /\ index[d] = None
    /\ index' \in {[index EXCEPT ![d] = f] : f \in Files}
    /\ UNCHANGED <<pc, from, to, current, body, line, fetched, yielded>>

\* get_daily_index() checks its arguments at the call: the range, and the
\* SEC_USER_AGENT of the client it creates when none is given.
Call(hasClient) ==
    /\ pc = "uncalled"
    /\ pc' = IF from > to \/ ~hasClient THEN "raised" ELSE "suspended"
    /\ UNCHANGED <<index, from, to, current, body, line, fetched, yielded>>

\* The pipeline asks for the next filing, or never again.
Pull ==
    /\ pc = "suspended"
    /\ pc' = "running"
    /\ UNCHANGED <<index, from, to, current, body, line, fetched, yielded>>

Abandon ==
    /\ pc = "suspended"
    /\ pc' = "abandoned"
    /\ UNCHANGED <<index, from, to, current, body, line, fetched, yielded>>

-----------------------------------------------------------------------------
\* Mutant: a day in error is left without moving on to the next one.
FetchStays ==
    /\ pc = "running" /\ body = None /\ current <= to
    /\ \E r \in RepliesFor(current) :
         LET text == IF "data" \in Outcome(r, FALSE) THEN index[current] ELSE <<>>
         IN  /\ fetched' = [fetched EXCEPT ![current] = text]
             /\ IF HasColumn(text)
                THEN body' = text /\ UNCHANGED current
                ELSE /\ current' = (IF "error" \in Outcome(r, FALSE)
                                    THEN current ELSE current + 1)
                     /\ UNCHANGED body
    /\ UNCHANGED <<index, pc, from, to, line, yielded>>

\* Mutant: a day in error ends the iteration.
FetchGivesUp ==
    /\ pc = "running" /\ body = None /\ current <= to
    /\ \E r \in RepliesFor(current) :
         LET text == IF "data" \in Outcome(r, FALSE) THEN index[current] ELSE <<>>
         IN  /\ fetched' = [fetched EXCEPT ![current] = text]
             /\ IF HasColumn(text)
                THEN body' = text /\ UNCHANGED current
                ELSE /\ current' = (IF "error" \in Outcome(r, FALSE)
                                    THEN to + 1 ELSE current + 1)
                     /\ UNCHANGED body
    /\ UNCHANGED <<index, pc, from, to, line, yielded>>

\* The next day is queried.  An error is logged and the day passed over; so
\* is an empty text, and one without the column.
Fetch ==
    /\ pc = "running" /\ body = None /\ current <= to
    /\ \E r \in RepliesFor(current) :
         LET text == IF "data" \in Outcome(r, FALSE) THEN index[current] ELSE <<>>
         IN  /\ fetched' = [fetched EXCEPT ![current] = text]
             /\ IF HasColumn(text)
                THEN body' = text /\ UNCHANGED current
                ELSE current' = current + 1 /\ UNCHANGED body
    /\ UNCHANGED <<index, pc, from, to, line, yielded>>

\* Mutant: lines above the header are not looked at.
ParseBelowHeader ==
    /\ pc = "running" /\ body # None /\ line < Len(body)
    /\ line' = line + 1
    /\ LET below == \E i \in 1 .. line : body[i] = "header"
       IN  pc' = CASE body[line + 1] = "row" /\ below     -> "suspended"
                   [] body[line + 1] = "undated" /\ below -> "raised"
                   [] OTHER                               -> pc
    /\ yielded' = IF pc' = "suspended" THEN Append(yielded, <<current, line + 1>>)
                  ELSE yielded
    /\ UNCHANGED <<index, from, to, current, body, fetched>>

\* One line is parsed.  The generator is suspended whenever it is a row; the
\* ValueError of a row without a date ends the iteration.
Parse ==
    /\ pc = "running" /\ body # None /\ line < Len(body)
    /\ line' = line + 1
    /\ pc' = CASE body[line + 1] = "row"     -> "suspended"
               [] body[line + 1] = "undated" -> "raised"
               [] OTHER                      -> pc
    /\ yielded' = IF body[line + 1] = "row" THEN Append(yielded, <<current, line + 1>>)
                  ELSE yielded
    /\ UNCHANGED <<index, from, to, current, body, fetched>>

\* Mutant: the count of parsed lines is carried over to the next day.
NextDayKeepsLine ==
    /\ pc = "running" /\ body # None /\ line >= Len(body)
    /\ body' = None /\ current' = current + 1
    /\ UNCHANGED <<index, pc, from, to, line, fetched, yielded>>

\* Mutant: the day is not moved on.
NextDayStays ==
    /\ pc = "running" /\ body # None /\ line >= Len(body)
    /\ body' = None /\ line' = 0
    /\ UNCHANGED <<index, pc, from, to, current, fetched, yielded>>

NextDay ==
    /\ pc = "running" /\ body # None /\ line >= Len(body)
    /\ body' = None /\ line' = 0 /\ current' = current + 1
    /\ UNCHANGED <<index, pc, from, to, fetched, yielded>>

\* The generator is exhausted.
Stop ==
    /\ pc = "running" /\ body = None /\ current > to
    /\ pc' = "done"
    /\ UNCHANGED <<index, from, to, current, body, line, fetched, yielded>>

-----------------------------------------------------------------------------
Run == Fetch \/ Parse \/ NextDay \/ Stop

Next ==
    \/ \E d \in Days : Publish(d)
    \/ \E hasClient \in BOOLEAN : Call(hasClient)
    \/ Pull \/ Abandon \/ Run

Spec == Init /\ [][Next]_vars

\* A generator that is running goes on: every query returns.
FairSpec == Spec /\ WF_vars(Run)

-----------------------------------------------------------------------------
PCs == {"uncalled", "raised", "suspended", "running", "done", "abandoned"}

TypeOK ==
    /\ index \in [Days -> Files \union {None}]
    /\ pc \in PCs
    /\ from \in Days /\ to \in Days /\ current \in Int
    /\ body \in Files \union {None}
    /\ line \in 0 .. IF body = None THEN 0 ELSE Len(body)
    /\ fetched \in [Days -> Files \union {None}]
    /\ yielded \in Seq(Days \X (1 .. MaxLines))

\* The filings of a day, once it has been fetched.
FilingsOf(d) == IF fetched[d] = None THEN {} ELSE {<<d, i>> : i \in Filings(fetched[d])}

\* "Yield ... for each day in [start_date, end_date]": an exhausted generator
\* has asked for every day of the range, both ends included, and has handed
\* out every row of what came back, whatever failed in between.
EveryDayWhole ==
    pc = "done" =>
      /\ \A d \in Days : d \in from .. to <=> fetched[d] # None
      /\ {yielded[i] : i \in DOMAIN yielded} = UNION {FilingsOf(d) : d \in from .. to}

\* Rows come out by day and then as the file has them, none twice, however
\* long the pipeline waits between two of them and whatever SEC publishes.
InOrder ==
    \A i, j \in DOMAIN yielded : i < j =>
      \/ yielded[i][1] < yielded[j][1]
      \/ yielded[i][1] = yielded[j][1] /\ yielded[i][2] < yielded[j][2]

\* Every pull is answered: by a row, by the end of the range, or by the
\* ValueError of a row without a date, never by going on for ever.
PullAnswered == pc = "running" ~> pc # "running"
=============================================================================
