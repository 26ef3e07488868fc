-------------------------- MODULE DailyIndexProofs --------------------------
(* For any calendar, any range in it and files of any length: the daily index *)
(* hands out every row of what it fetched, once and in order, and an          *)
(* exhausted one has fetched every day of its range.                          *)
EXTENDS DailyIndex, SequenceTheorems, TLAPS

\* How far the generator is: the days it has fetched are those it has passed
\* and the one it is parsing.
Progress ==
    /\ from <= current
    /\ pc = "uncalled" => current = from
    /\ pc \notin {"uncalled", "raised"} => from <= to /\ current <= to + 1
    /\ pc = "done" => current > to /\ body = None
    /\ body # None => /\ current <= to
                      /\ fetched[current] = body
                      /\ HasColumn(body)
    /\ \A d \in Days :
         fetched[d] # None <=> \/ d \in from .. current - 1
                               \/ d = current /\ body # None

\* Row i of a fetched day d is behind the generator.
Passed(d, i) ==
    /\ fetched[d] # None
    /\ i \in Filings(fetched[d])
    /\ d < current \/ i <= line

\* What was handed out is what is behind the generator.
HandedOut ==
    \A d \in Days, i \in 1 .. MaxLines :
      (\E n \in DOMAIN yielded : yielded[n] = <<d, i>>) <=> Passed(d, i)

IInv == TypeOK /\ Progress /\ HandedOut /\ InOrder

-----------------------------------------------------------------------------
\* A file as a sequence of lines, at most MaxLines of them.
LEMMA FileLines ==
    ASSUME NEW f \in Files
    PROVE  /\ f # None /\ f \in Seq(Lines)
           /\ Len(f) \in 0 .. MaxLines /\ DOMAIN f = 1 .. Len(f)
           /\ Filings(f) \subseteq 1 .. Len(f)
<1>1. PICK n \in 0 .. MaxLines : f \in [1 .. n -> Lines]
  BY DEF Files
<1>2. n \in Nat /\ f \in Seq(Lines) /\ Len(f) = n
  BY <1>1, CalendarAssumption
<1> QED
  BY <1>1, <1>2, NoneAssumption DEF Filings

LEMMA EmptyFile == <<>> \in Files /\ ~HasColumn(<<>>)
<1>1. <<>> \in [1 .. 0 -> Lines] /\ 0 \in 0 .. MaxLines
  BY CalendarAssumption
<1> QED
  BY <1>1 DEF Files, HasColumn

\* Only a published file comes back with data.
LEMMA FetchedText ==
    ASSUME TypeOK, NEW d \in Days, NEW r \in RepliesFor(d)
    PROVE  (IF "data" \in Outcome(r, FALSE) THEN index[d] ELSE <<>>) \in Files
<1>1. CASE "data" \in Outcome(r, FALSE)
  <2>1. r \in Replies
    BY DEF RepliesFor
  <2>2. r \in {"json", "other text"}
    BY <1>1, <2>1 DEF Replies, Outcome
  <2>3. index[d] # None
    BY <2>2 DEF RepliesFor
  <2> QED
    BY <1>1, <2>3 DEF TypeOK
<1> QED
  BY <1>1, EmptyFile

\* The days of the range, which a running generator has not left.
LEMMA CurrentDay ==
    ASSUME TypeOK, Progress
    PROVE  /\ from \in Int /\ to \in Int /\ current \in Int
           /\ from .. to \subseteq Days
           /\ current <= to => current \in Days
<1>1. from \in Int /\ to \in Int /\ current \in Int /\ from .. to \subseteq Days
  BY CalendarAssumption DEF TypeOK
<1> QED
  BY <1>1 DEF Progress

-----------------------------------------------------------------------------
(* The steps.                                                                 *)

LEMMA InitInv == Init => IInv
<1> SUFFICES ASSUME Init PROVE IInv
  OBVIOUS
<1>1. TypeOK
  BY CalendarAssumption DEF Init, TypeOK, PCs
<1>2. Progress
  BY CalendarAssumption DEF Init, Progress
<1>3. HandedOut
  BY DEF Init, HandedOut, Passed
<1>4. InOrder
  BY DEF Init, InOrder
<1> QED
  BY <1>1, <1>2, <1>3, <1>4 DEF IInv

\* What the pipeline and SEC do leaves the generator where it is.
LEMMA OutsideInv ==
    ASSUME IInv,
           \/ \E d \in Days : Publish(d)
           \/ \E hasClient \in BOOLEAN : Call(hasClient)
           \/ Pull \/ Abandon \/ Stop \/ UNCHANGED vars
    PROVE  IInv'
<1>1. UNCHANGED <<from, to, current, body, line, fetched, yielded>>
  BY DEF Publish, Call, Pull, Abandon, Stop, vars
<1>2. index' \in [Days -> Files \union {None}]
  <2>1. CASE \E d \in Days : Publish(d)
    BY <2>1 DEF Publish, IInv, TypeOK
  <2>2. CASE UNCHANGED index
    BY <2>2 DEF IInv, TypeOK
  <2> QED
    BY <2>1, <2>2 DEF Call, Pull, Abandon, Stop, vars
<1>3. pc' \in PCs
  BY DEF Publish, Call, Pull, Abandon, Stop, vars, IInv, TypeOK, PCs
<1>4. TypeOK'
  BY <1>1, <1>2, <1>3 DEF IInv, TypeOK
<1>5. from \in Int /\ to \in Int /\ current \in Int
  BY CurrentDay DEF IInv
<1>6. /\ pc' = "uncalled" => current = from
      /\ pc' \notin {"uncalled", "raised"} => from <= to /\ current <= to + 1
      /\ pc' = "done" => current > to /\ body = None
  <2>1. CASE \E hasClient \in BOOLEAN : Call(hasClient)
    <3>1. pc' \in {"raised", "suspended"} /\ (pc' = "suspended" => from <= to)
      BY <1>5, <2>1 DEF Call
    <3>2. pc' = "suspended" => current <= to + 1
      BY <1>5, <2>1, <3>1 DEF Call, IInv, Progress
    <3> QED
      BY <3>1, <3>2
  <2>2. CASE \E d \in Days : Publish(d)
    BY <2>2 DEF Publish, IInv, Progress
  <2>3. CASE Pull \/ Abandon \/ Stop \/ UNCHANGED vars
    BY <2>3 DEF Pull, Abandon, Stop, vars, IInv, Progress
  <2> QED
    BY <2>1, <2>2, <2>3
<1>7. Progress'
  BY <1>1, <1>6 DEF IInv, Progress, HasColumn
<1>8. HandedOut' /\ InOrder'
  BY <1>1 DEF IInv, HandedOut, InOrder, Passed, Filings, HasColumn
<1> QED
  BY <1>4, <1>7, <1>8 DEF IInv

\* A day is fetched: either its lines are parsed next or it has no filings.
LEMMA FetchInv == ASSUME IInv, Fetch PROVE IInv'
<1>1. PICK r \in RepliesFor(current) :
        LET text == IF "data" \in Outcome(r, FALSE) THEN index[current] ELSE <<>>
        IN  /\ fetched' = [fetched EXCEPT ![current] = text]
            /\ IF HasColumn(text)
               THEN body' = text /\ UNCHANGED current
               ELSE current' = current + 1 /\ UNCHANGED body
  BY DEF Fetch
<1> DEFINE text == IF "data" \in Outcome(r, FALSE) THEN index[current] ELSE <<>>
<1>2. /\ UNCHANGED <<index, pc, from, to, line, yielded>>
      /\ pc = "running" /\ body = None /\ current <= to
  BY DEF Fetch
<1>3. /\ current \in Days /\ current \in Int /\ from \in Int /\ to \in Int
      /\ from <= current /\ from <= to
  BY <1>2, CurrentDay DEF IInv, Progress
<1>4. text \in Files /\ text # None
  BY <1>3, FetchedText, FileLines DEF IInv
<1>5. /\ fetched' = [fetched EXCEPT ![current] = text]
      /\ HasColumn(text) => body' = text /\ current' = current
      /\ ~HasColumn(text) => body' = None /\ current' = current + 1
  BY <1>1, <1>2
<1> HIDE DEF text
<1>6. /\ fetched \in [Days -> Files \union {None}] /\ line = 0
      /\ \A d \in Days : fetched'[d] = IF d = current THEN text ELSE fetched[d]
  BY <1>2, <1>5 DEF IInv, TypeOK
<1>7. TypeOK'
  <2>1. fetched' \in [Days -> Files \union {None}]
    BY <1>4, <1>5, <1>6
  <2>2. /\ current' \in Int /\ body' \in Files \union {None}
        /\ line' \in 0 .. IF body' = None THEN 0 ELSE Len(body')
    BY <1>2, <1>3, <1>4, <1>5, <1>6, FileLines
  <2> QED
    BY <1>2, <2>1, <2>2 DEF IInv, TypeOK
<1>8. Progress'
  <2>1. ASSUME NEW d \in Days
        PROVE  fetched'[d] # None <=> \/ d \in from .. current' - 1
                                      \/ d = current' /\ body' # None
    <3>1. fetched[d] # None <=> d \in from .. current - 1
      BY <1>2 DEF IInv, Progress
    <3>2. d \in Int
      BY CalendarAssumption
    <3> QED
      BY <1>3, <1>4, <1>5, <1>6, <3>1, <3>2
  <2>2. body' # None => /\ current' <= to
                        /\ fetched'[current'] = body'
                        /\ HasColumn(body')
    BY <1>2, <1>3, <1>5, <1>6
  <2>3. from <= current' /\ current' <= to + 1
    BY <1>2, <1>3, <1>5
  <2> QED
    BY <1>2, <1>3, <2>1, <2>2, <2>3 DEF Progress, HasColumn
<1>9. HandedOut'
  <2> SUFFICES ASSUME NEW d \in Days, NEW i \in 1 .. MaxLines
               PROVE  Passed(d, i) <=> Passed(d, i)'
    BY <1>2 DEF IInv, HandedOut
  <2>1. CASE d = current
    <3>1. fetched[d] = None
      BY <1>2, <1>3, <2>1 DEF IInv, Progress
    <3>2. CASE HasColumn(text)
      BY <1>2, <1>3, <1>5, <1>6, <2>1, <3>1, <3>2 DEF Passed
    <3>3. CASE ~HasColumn(text)
      BY <1>6, <2>1, <3>1, <3>3 DEF Passed, Filings, HasColumn
    <3> QED
      BY <3>2, <3>3
  <2>2. CASE d # current
    <3>1. fetched'[d] = fetched[d] /\ (fetched[d] # None => d < current)
      BY <1>2, <1>3, <1>6, <2>2, CalendarAssumption DEF IInv, Progress
    <3>2. d < current => d < current'
      BY <1>3, <1>5, CalendarAssumption
    <3> QED
      BY <3>1, <3>2 DEF Passed, Filings, HasColumn
  <2> QED
    BY <2>1, <2>2
<1>10. InOrder'
  BY <1>2 DEF IInv, InOrder
<1> QED
  BY <1>7, <1>8, <1>9, <1>10 DEF IInv

\* A line is parsed, and handed out behind all others if it is a row.
LEMMA ParseInv == ASSUME IInv, Parse PROVE IInv'
<1> DEFINE row == <<current, line + 1>>
<1>1. /\ UNCHANGED <<index, from, to, current, body, fetched>>
      /\ pc = "running" /\ body # None /\ line < Len(body) /\ line' = line + 1
      /\ pc' \in {"running", "suspended", "raised"}
      /\ body[line + 1] = "row" => yielded' = Append(yielded, row)
      /\ body[line + 1] # "row" => yielded' = yielded
  BY DEF Parse
<1>2. /\ current <= to /\ HasColumn(body) /\ fetched[current] = body
      /\ from <= to /\ current <= to + 1
  BY <1>1 DEF IInv, Progress
<1>3. /\ current \in Days /\ current \in Int
      /\ body \in Files /\ Len(body) \in 0 .. MaxLines
      /\ DOMAIN body = 1 .. Len(body)
      /\ line \in Nat /\ line + 1 \in 1 .. Len(body) /\ line + 1 \in 1 .. MaxLines
  <2>1. current \in Days /\ current \in Int /\ body \in Files
    BY <1>1, <1>2, CurrentDay DEF IInv, TypeOK
  <2>2. Len(body) \in 0 .. MaxLines /\ DOMAIN body = 1 .. Len(body)
    BY <2>1, FileLines
  <2>3. line \in 0 .. Len(body)
    BY <1>1 DEF IInv, TypeOK
  <2> QED
    BY <1>1, <2>1, <2>2, <2>3, CalendarAssumption
<1>4. yielded \in Seq(Days \X (1 .. MaxLines)) /\ row \in Days \X (1 .. MaxLines)
  BY <1>3 DEF IInv, TypeOK
<1>5. TypeOK'
  <2>1. yielded' \in Seq(Days \X (1 .. MaxLines))
    <3>1. Append(yielded, row) \in Seq(Days \X (1 .. MaxLines))
      BY <1>4, AppendProperties
    <3> QED
      BY <1>1, <1>4, <3>1
  <2>2. pc' \in PCs /\ line' \in 0 .. Len(body)
    BY <1>1, <1>3 DEF PCs
  <2> QED
    BY <1>1, <2>1, <2>2 DEF IInv, TypeOK
<1>6. Progress'
  BY <1>1, <1>2 DEF IInv, Progress, HasColumn
<1>7. \A n \in DOMAIN yielded : Passed(yielded[n][1], yielded[n][2])
  <2> TAKE n \in DOMAIN yielded
  <2>1. yielded[n] \in Days \X (1 .. MaxLines)
    BY <1>4
  <2>2. yielded[n] = <<yielded[n][1], yielded[n][2]>>
    BY <2>1
  <2> QED
    BY <2>1, <2>2 DEF IInv, HandedOut
<1>8. \A d \in Days : fetched[d] # None => d <= current
  BY <1>2, <1>3, CalendarAssumption DEF IInv, Progress
<1>9. HandedOut'
  <2> SUFFICES ASSUME NEW d \in Days, NEW i \in 1 .. MaxLines
               PROVE  (\E n \in DOMAIN yielded' : yielded'[n] = <<d, i>>) <=> Passed(d, i)'
    BY DEF HandedOut
  <2>1. Passed(d, i)' <=> Passed(d, i) \/ (<<d, i>> = row /\ body[line + 1] = "row")
    <3>1. i \in Int /\ d \in Int
      BY CalendarAssumption
    <3>2. Filings(body) = {n \in 1 .. Len(body) : body[n] = "row"}
      BY <1>2, <1>3 DEF Filings
    <3>3. Passed(d, i)' <=> /\ fetched[d] # None
                            /\ i \in Filings(fetched[d])
                            /\ d < current \/ i <= line + 1
      BY <1>1 DEF Passed, Filings, HasColumn
    <3>4. CASE d < current
      BY <1>3, <3>1, <3>3, <3>4 DEF Passed
    <3>5. CASE d > current
      BY <1>3, <1>8, <3>1, <3>3, <3>5 DEF Passed
    <3>6. CASE d = current
      BY <1>1, <1>2, <1>3, <3>1, <3>2, <3>3, <3>6 DEF Passed
    <3> QED
      BY <1>3, <3>1, <3>4, <3>5, <3>6
  <2>2. (\E n \in DOMAIN yielded : yielded[n] = <<d, i>>) <=> Passed(d, i)
    BY DEF IInv, HandedOut
  <2>3. CASE body[line + 1] = "row"
    <3>1. yielded' = Append(yielded, row)
      BY <1>1, <2>3
    <3>2. /\ DOMAIN yielded' = 1 .. Len(yielded) + 1
          /\ DOMAIN yielded = 1 .. Len(yielded) /\ Len(yielded) \in Nat
          /\ yielded'[Len(yielded) + 1] = row
          /\ \A n \in 1 .. Len(yielded) : yielded'[n] = yielded[n]
      BY <1>4, <3>1
    <3>3. (\E n \in DOMAIN yielded' : yielded'[n] = <<d, i>>)
            <=> (\E n \in DOMAIN yielded : yielded[n] = <<d, i>>) \/ <<d, i>> = row
      BY <3>2
    <3> QED
      BY <2>1, <2>2, <2>3, <3>3
  <2>4. CASE body[line + 1] # "row"
    BY <1>1, <2>1, <2>2, <2>4
  <2> QED
    BY <2>3, <2>4
<1>10. InOrder'
  <2>1. CASE body[line + 1] = "row"
    <3>1. yielded' = Append(yielded, row)
      BY <1>1, <2>1
    <3>2. /\ DOMAIN yielded' = 1 .. Len(yielded) + 1
          /\ DOMAIN yielded = 1 .. Len(yielded) /\ Len(yielded) \in Nat
          /\ yielded'[Len(yielded) + 1] = row
          /\ \A n \in 1 .. Len(yielded) : yielded'[n] = yielded[n]
      BY <1>4, <3>1
    <3>3. ASSUME NEW i \in DOMAIN yielded
          PROVE  \/ yielded[i][1] < current
                 \/ yielded[i][1] = current /\ yielded[i][2] < line + 1
      <4>1. yielded[i][1] \in Days /\ yielded[i][2] \in 1 .. MaxLines
        BY <1>4
      <4>2. /\ yielded[i][1] <= current
            /\ yielded[i][1] < current \/ yielded[i][2] <= line
        BY <1>7, <1>8, <4>1 DEF Passed
      <4>3. yielded[i][1] \in Int /\ yielded[i][2] \in Int
        <5>1. Days \subseteq Int /\ 1 .. MaxLines \subseteq Int
          BY CalendarAssumption
        <5> QED
          BY <4>1, <5>1
      <4> QED
        BY <1>3, <4>2, <4>3
    <3>4. ASSUME NEW i \in DOMAIN yielded', NEW j \in DOMAIN yielded', i < j
          PROVE  \/ yielded'[i][1] < yielded'[j][1]
                 \/ /\ yielded'[i][1] = yielded'[j][1]
                    /\ yielded'[i][2] < yielded'[j][2]
      <4>1. CASE j \in DOMAIN yielded
        <5>1. i \in DOMAIN yielded
          BY <3>2, <3>4, <4>1
        <5> QED
          BY <3>2, <3>4, <4>1, <5>1 DEF IInv, InOrder
      <4>2. CASE j = Len(yielded) + 1
        <5>1. i \in DOMAIN yielded /\ yielded'[i] = yielded[i]
          BY <3>2, <3>4, <4>2
        <5>2. yielded'[j][1] = current /\ yielded'[j][2] = line + 1
          BY <3>2, <4>2
        <5> QED
          BY <3>3, <5>1, <5>2
      <4> QED
        BY <3>2, <4>1, <4>2
    <3> QED
      BY <3>4 DEF InOrder
  <2>2. CASE body[line + 1] # "row"
    BY <1>1, <2>2 DEF IInv, InOrder
  <2> QED
    BY <2>1, <2>2
<1> QED
  BY <1>5, <1>6, <1>9, <1>10 DEF IInv

LEMMA NextDayInv == ASSUME IInv, NextDay PROVE IInv'
<1>1. /\ UNCHANGED <<index, pc, from, to, fetched, yielded>>
      /\ pc = "running" /\ body # None /\ line >= Len(body)
      /\ body' = None /\ line' = 0 /\ current' = current + 1
  BY DEF NextDay
<1>2. /\ current <= to /\ fetched[current] = body /\ from <= current /\ from <= to
  BY <1>1 DEF IInv, Progress
<1>3. /\ current \in Days /\ current \in Int /\ from \in Int /\ to \in Int
      /\ body \in Files /\ line \in 0 .. Len(body)
  BY <1>1, <1>2, CurrentDay DEF IInv, TypeOK
<1>4. TypeOK'
  BY <1>1, <1>3 DEF IInv, TypeOK
<1>5. Progress'
  <2>1. ASSUME NEW d \in Days
        PROVE  fetched[d] # None <=> d \in from .. current' - 1
    <3>1. d \in Int
      BY CalendarAssumption
    <3>2. fetched[d] # None <=> d \in from .. current - 1 \/ d = current
      BY <1>1 DEF IInv, Progress
    <3> QED
      BY <1>1, <1>2, <1>3, <3>1, <3>2
  <2>2. from <= current' /\ current' <= to + 1
    BY <1>1, <1>2, <1>3
  <2> QED
    BY <1>1, <1>2, <2>1, <2>2 DEF Progress
<1>6. HandedOut'
  <2> SUFFICES ASSUME NEW d \in Days, NEW i \in 1 .. MaxLines
               PROVE  Passed(d, i) <=> Passed(d, i)'
    BY <1>1 DEF IInv, HandedOut
  <2>1. d \in Int /\ i \in Int /\ (fetched[d] # None => d <= current)
    BY <1>1, <1>3, CalendarAssumption DEF IInv, Progress
  <2>2. d = current /\ i \in Filings(fetched[d]) => i <= line
    BY <1>1, <1>2, <1>3, FileLines, CalendarAssumption
  <2>3. Passed(d, i)' <=> /\ fetched[d] # None
                          /\ i \in Filings(fetched[d])
                          /\ d < current + 1 \/ i <= 0
    BY <1>1 DEF Passed, Filings, HasColumn
  <2> QED
    BY <1>3, <2>1, <2>2, <2>3 DEF Passed
<1>7. InOrder'
  BY <1>1 DEF IInv, InOrder
<1> QED
  BY <1>4, <1>5, <1>6, <1>7 DEF IInv

-----------------------------------------------------------------------------
THEOREM Inductive == Spec => []IInv
<1>1. Init => IInv
  BY InitInv
<1>2. IInv /\ [Next]_vars => IInv'
  BY OutsideInv, FetchInv, ParseInv, NextDayInv DEF Next, Run
<1> QED
  BY <1>1, <1>2, PTL DEF Spec

\* The types of the generator's state: it stays inside the calendar's files
\* and never counts past the lines of the one it parses.
THEOREM TypeCorrect == Spec => []TypeOK
<1>1. IInv => TypeOK
  BY DEF IInv
<1> QED
  BY <1>1, Inductive, PTL

\* Rows come out by day and line, none twice, whatever SEC publishes and
\* however long the pipeline waits between two pulls.
THEOREM RowsInOrder == Spec => []InOrder
<1>1. IInv => InOrder
  BY DEF IInv
<1> QED
  BY <1>1, Inductive, PTL

\* An exhausted generator has fetched exactly the days of the range and has
\* handed out exactly the rows of what came back, whatever queries failed.
THEOREM RangeCovered == Spec => []EveryDayWhole
<1>1. IInv => EveryDayWhole
  <2> SUFFICES ASSUME IInv, pc = "done"
               PROVE  /\ \A d \in Days : d \in from .. to <=> fetched[d] # None
                      /\ {yielded[i] : i \in DOMAIN yielded}
                           = UNION {FilingsOf(d) : d \in from .. to}
    BY DEF EveryDayWhole
  <2>1. /\ current > to /\ current <= to + 1 /\ body = None
        /\ from \in Int /\ to \in Int /\ current \in Int /\ from .. to \subseteq Days
    BY CurrentDay DEF IInv, Progress
  <2>2. \A d \in Days : d \in from .. to <=> fetched[d] # None
    BY <2>1 DEF IInv, Progress
  <2>3. yielded \in Seq(Days \X (1 .. MaxLines))
    BY DEF IInv, TypeOK
  <2>4. ASSUME NEW n \in DOMAIN yielded
        PROVE  yielded[n] \in UNION {FilingsOf(d) : d \in from .. to}
    <3>1. PICK d \in Days, i \in 1 .. MaxLines : yielded[n] = <<d, i>>
      BY <2>3
    <3>2. Passed(d, i)
      BY <3>1 DEF IInv, HandedOut
    <3> QED
      BY <2>2, <3>1, <3>2 DEF Passed, FilingsOf
  <2>5. ASSUME NEW d \in from .. to, NEW row \in FilingsOf(d)
        PROVE  \E n \in DOMAIN yielded : yielded[n] = row
    <3>1. d \in Days /\ fetched[d] # None /\ fetched[d] \in Files
      BY <2>1, <2>2, <2>5 DEF IInv, TypeOK
    <3>2. PICK i \in Filings(fetched[d]) : row = <<d, i>>
      BY <2>5, <3>1 DEF FilingsOf
    <3>3. i \in 1 .. MaxLines
      BY <3>1, FileLines, CalendarAssumption
    <3>4. d < current
      BY <2>1
    <3> QED
      BY <3>1, <3>2, <3>3, <3>4 DEF IInv, HandedOut, Passed
  <2> QED
    BY <2>2, <2>4, <2>5
<1> QED
  BY <1>1, Inductive, PTL
=============================================================================
