------------------------------ MODULE SecQuery ------------------------------
(* The queries over scraped filings of src/idi_ftm2j_shared/sec.py:           *)
(* iter_filings_by_form_type() reads manifest.parquet once and then loads the *)
(* manifest.json of every filing it names; iter_filings_by_discovered() loads *)
(* those of a list of filings, get_filing() that of one.  The scraper writes  *)
(* to the bucket at any time, so what a read finds is arbitrary: a read is a  *)
(* step of its own and nothing is assumed to be still so at the next one.     *)
EXTENDS Integers, FiniteSets, Sequences

CONSTANTS
    Keys,       \* filings, numbered in the order of (form_type, filing_date,
                \* cik, accession_number) as the parquet has them
    FormOf,     \* the form type of each
    SpeltAs,    \* how its filing_date is written in the parquet
    FiledAt,    \* the instant that text stands for
    Days,       \* days a query can name
    YearOf,     \* the year of each day
    DayLength,  \* instants of a day
    MaxRows,    \* bound: rows of the parquet
    MaxList,    \* bound: filings of a list
    None

\* 2024-01-15, 20240115, 2024-01-15 10:00, a text that goes on behind an ISO date
\* and is none, and no text at all.
Spellings == {"iso", "compact", "timed", "garbled", "null"}

ASSUME QueryAssumption ==
    /\ Keys \subseteq Nat
    /\ Days \subseteq Nat
    /\ \A k \in Keys : SpeltAs[k] \in Spellings /\ FiledAt[k] \in Nat
    /\ None \notin Int
    /\ DayLength \in Nat \ {0}
    /\ MaxRows \in Nat /\ MaxList \in Nat

VARIABLES
    pc,         \* where the generator is
    query,      \* the arguments of the call
    todo,       \* the filings still to be loaded, or None before the parquet is read
    rows,       \* history: the rows of the parquet when it was read, or None
    found,      \* history: what each load found, as <<key, manifest>>
    yielded     \* history: the filings handed out

vars == <<pc, query, todo, rows, found, yielded>>

-----------------------------------------------------------------------------
\* One row per scraped document; date_scraped can be NaT.
Instants == UNION {d * DayLength .. (d + 1) * DayLength - 1 : d \in Days}

Rows == [key : Keys, scraped : Instants \union {None}]

Parquets == UNION {{{row[i] : i \in 1 .. n} : row \in [1 .. n -> Rows]} : n \in 0 .. MaxRows}

ASSUME NoneAssumption == None \notin Seq(Keys)

\* What S3 has under the key of a manifest.json: nothing, an empty object, a
\* filing, one with a failure_reason, or one that lacks a field without default.
Manifests == {"absent", "empty", "filing", "failed", "incomplete"}

Queries ==
    [path : {"form_type"}, forms : SUBSET {FormOf[k] : k \in Keys},
     start : Days, end : Days, by : {"filing_date", "scraped_date", "other"},
     bucket : BOOLEAN]
    \union
    [path : {"discovered"}, include_failures : BOOLEAN, bucket : BOOLEAN,
     list : UNION {[1 .. n -> Keys] : n \in 0 .. MaxList}]

ByFormType == query.path = "form_type"

-----------------------------------------------------------------------------
(* _manifest_read_filters() compares the text of filing_date with the ISO     *)
(* texts of the two days, _matching_manifest_rows() what to_datetime() makes  *)
(* of it.  A date d is the instant d * DayLength.                             *)

\* The day a filing_date begins with.
FiledOn(k) == FiledAt[k] \div DayLength

\* The text is not before that of day d.  "20240115" comes behind all ISO dates
\* of its year, since a digit sorts behind "-".
TextFrom(k, d) ==
    IF SpeltAs[k] = "compact" THEN YearOf[FiledOn(k)] >= YearOf[d] ELSE FiledOn(k) >= d

\* The text is not behind that of day d.  What goes on behind an ISO date sorts
\* behind it.
TextUpTo(k, d) ==
    CASE SpeltAs[k] = "iso"     -> FiledOn(k) <= d
      [] SpeltAs[k] = "compact" -> YearOf[FiledOn(k)] < YearOf[d]
      [] OTHER                  -> FiledOn(k) < d

\* The predicates given to the parquet reader; a null satisfies none.
ReadFilter(row, q) ==
    /\ FormOf[row.key] \in q.forms
    /\ IF q.by = "scraped_date"
       THEN /\ row.scraped # None
            /\ row.scraped >= q.start * DayLength
            /\ row.scraped < (q.end + 1) * DayLength
       ELSE /\ SpeltAs[row.key] # "null"
            /\ TextFrom(row.key, q.start)
            /\ TextUpTo(row.key, q.end)

Filtered(S, q) == {row \in S : ReadFilter(row, q)}

\* How the first text of the column that was read may be written: to_datetime()
\* takes its format for the whole column.
Leads(S) ==
    LET texts == {SpeltAs[row.key] : row \in S} \ {"null"}
    IN  IF texts = {} THEN {"null"} ELSE texts

\* A date written otherwise than the first one becomes NaT; behind a first text
\* that is no date, each is read by itself.
Understood(k, lead) ==
    SpeltAs[k] \in {"iso", "compact", "timed"} \intersect
                    (IF lead = "garbled" THEN Spellings ELSE {lead})

\* The instant a row is filtered by.
Dated(row, q, lead) ==
    IF q.by = "scraped_date" THEN row.scraped
    ELSE IF Understood(row.key, lead) THEN FiledAt[row.key] ELSE None

\* Mutant: the range ends with the first instant of its last day.
RowMatchesMidnight(row, q, lead) ==
    /\ FormOf[row.key] \in q.forms
    /\ Dated(row, q, lead) # None
    /\ Dated(row, q, lead) >= q.start * DayLength
    /\ Dated(row, q, lead) <= q.end * DayLength

\* The mask over the rows that were read.
RowMatches(row, q, lead) ==
    /\ FormOf[row.key] \in q.forms
    /\ Dated(row, q, lead) # None
    /\ Dated(row, q, lead) >= q.start * DayLength
    /\ Dated(row, q, lead) < (q.end + 1) * DayLength

\* Mutant: the rows the reader let through are taken as they are.
MatchingTrusting(S, q, lead) == S

Matching(S, q, lead) == {row \in S : RowMatches(row, q, lead)}

\* Mutant: one filing per matching document.
DistinctKeysNot(S) ==
    LET perDocument == CHOOSE s \in [1 .. Cardinality(S) -> S] :
                         /\ \A i, j \in DOMAIN s : s[i] = s[j] => i = j
                         /\ \A i, j \in DOMAIN s : i < j => s[i].key <= s[j].key
    IN  [i \in DOMAIN perDocument |-> perDocument[i].key]

\* drop_duplicates() and sort_values() over the keys of the rows.
DistinctKeys(S) ==
    LET keys == {row.key : row \in S}
    IN  CHOOSE s \in [1 .. Cardinality(keys) -> keys] :
          \A i, j \in DOMAIN s : i < j => s[i] < s[j]

-----------------------------------------------------------------------------
Init ==
    /\ pc = "uncalled"
    /\ query \in Queries
    /\ todo = None
    /\ rows = None
    /\ found = <<>>
    /\ yielded = <<>>

\* The arguments are checked at the call, before the generator exists.
Call ==
    /\ pc = "uncalled"
    /\ LET bad == \/ ~query.bucket
                  \/ ByFormType /\ (query.start > query.end \/ query.by = "other")
       IN  pc' = IF bad THEN "raised" ELSE "suspended"
    /\ todo' = IF ByFormType THEN None ELSE query.list
    /\ UNCHANGED <<query, rows, found, yielded>>

\* The pipeline asks for the next filing, or never again.
Pull ==
    /\ pc = "suspended"
    /\ pc' = "running"
    /\ UNCHANGED <<query, todo, rows, found, yielded>>

Abandon ==
    /\ pc = "suspended"
    /\ pc' = "abandoned"
    /\ UNCHANGED <<query, todo, rows, found, yielded>>

\* The first pull reads the parquet through the filters; there may be none.
Read ==
    /\ pc = "running" /\ todo = None
    /\ \E S \in Parquets :
         LET read == Filtered(S, query)
         IN  /\ rows' = S
             /\ \E lead \in Leads(read) :
                  todo' = DistinctKeys(Matching(read, query, lead))
    /\ UNCHANGED <<pc, query, found, yielded>>

\* Any S3 error but NoSuchKey, or a body that cannot be parsed, ends the
\* iteration.
StoreRaises ==
    /\ pc = "running" /\ todo # <<>>
    /\ pc' = "raised"
    /\ UNCHANGED <<query, todo, rows, found, yielded>>

-----------------------------------------------------------------------------
\* A row whose date fromisoformat() does not take has no manifest key:
\* ValueError.
Unnamed(k) == ByFormType /\ SpeltAs[k] \notin {"iso", "compact"}

LoadUnnamed ==
    /\ pc = "running" /\ todo # None /\ todo # <<>>
    /\ Unnamed(Head(todo))
    /\ pc' = "raised"
    /\ UNCHANGED <<query, todo, rows, found, yielded>>

\* Failures are handed out by form type, in a list only on request.
Wanted(m) ==
    m = "filing" \/ (m = "failed" /\ (ByFormType \/ query.include_failures))

\* Mutant: None is handed out for a filing without a manifest.
LoadYieldsNone ==
    /\ pc = "running" /\ todo # None /\ todo # <<>>
    /\ ~Unnamed(Head(todo))
    /\ \E m \in Manifests \ {"incomplete"} :
         /\ found' = Append(found, <<Head(todo), m>>)
         /\ todo' = Tail(todo)
         /\ IF Wanted(m) \/ m = "absent"
            THEN /\ yielded' = Append(yielded, IF m = "absent" THEN None ELSE Head(todo))
                 /\ pc' = "suspended"
            ELSE UNCHANGED <<pc, yielded>>
    /\ UNCHANGED <<query, rows>>

\* The next manifest is loaded as it is now: nothing and an empty object are
\* passed over, an incomplete one is a TypeError.
Load ==
    /\ pc = "running" /\ todo # None /\ todo # <<>>
    /\ ~Unnamed(Head(todo))
    /\ \E m \in Manifests :
         /\ found' = Append(found, <<Head(todo), m>>)
         /\ IF m = "incomplete"
            THEN pc' = "raised" /\ UNCHANGED <<todo, yielded>>
            ELSE /\ todo' = Tail(todo)
                 /\ IF Wanted(m)
                    THEN /\ yielded' = Append(yielded, Head(todo))
                         /\ pc' = "suspended"
                    ELSE UNCHANGED <<pc, yielded>>
    /\ UNCHANGED <<query, rows>>

Stop ==
    /\ pc = "running" /\ todo = <<>>
    /\ pc' = "done"
    /\ UNCHANGED <<query, todo, rows, found, yielded>>

Next == Call \/ Pull \/ Abandon \/ Read \/ StoreRaises \/ LoadUnnamed \/ Load \/ Stop

Spec == Init /\ [][Next]_vars

-----------------------------------------------------------------------------
(* What a query promises.                                                     *)

\* Only filings are handed out, never the None of a manifest that is not there.
TypeOK ==
    /\ pc \in {"uncalled", "raised", "suspended", "running", "done", "abandoned"}
    /\ query \in Queries
    /\ todo \in Seq(Keys) \union {None}
    /\ rows \in (SUBSET Rows) \union {None}
    /\ found \in Seq(Keys \X Manifests)
    /\ yielded \in Seq(Keys)

\* The day a document counts for, by the docstring: the date the filing was
\* submitted, if it is one, or that on which the document was pulled down.
DayOf(row, q) ==
    IF q.by = "scraped_date"
    THEN IF row.scraped = None THEN None ELSE row.scraped \div DayLength
    ELSE IF SpeltAs[row.key] \in {"garbled", "null"} THEN None ELSE FiledOn(row.key)

\* "Every filing that has at least one matching document", its day anywhere in
\* the range, both ends included.
Asked(S, q) ==
    {k \in Keys : \E row \in S : /\ row.key = k
                                 /\ FormOf[k] \in q.forms
                                 /\ DayOf(row, q) \in q.start .. q.end}

\* "filing_date is stored as an ISO string": of the forms asked for, no date in
\* another spelling, though there may be some that are none.
StoredAsISO(S, q) ==
    \A row \in S : FormOf[row.key] \in q.forms => SpeltAs[row.key] \notin {"compact", "timed"}

\* An exhausted query has loaded each filing that was asked for: by form type,
\* every filing with a matching document when the parquet was read, if the
\* range is over instants or dates are stored as the code says; and in a list,
\* every filing of it in its order, whatever single loads came to.
EveryFilingLoaded ==
    pc = "done" =>
      IF ByFormType
      THEN query.by = "scraped_date" \/ StoredAsISO(rows, query) =>
             Asked(rows, query) \subseteq {found[i][1] : i \in DOMAIN found}
      ELSE /\ Len(found) = Len(query.list)
           /\ \A i \in DOMAIN found : found[i][1] = query.list[i]

\* "The row-level pass stays the source of truth": whatever the dates look like
\* and the reader lets through, no filing is loaded but those asked for.
NothingElseLoaded ==
    ByFormType => \A i \in DOMAIN found : found[i][1] \in Asked(rows, query)

\* A filing with several matching documents is handed out once, and the
\* filings come in the order of their keys.
EachOnceInOrder ==
    ByFormType =>
      \A i, j \in DOMAIN yielded : i < j => yielded[i] < yielded[j]
=============================================================================
