--------------------------- MODULE SecQueryProofs ---------------------------
(* For any filings, dates in any spelling, parquet and list: a query loads no *)
(* filing but those it was asked for, all of them where dates are stored as   *)
(* the code says, and hands each out once and in order.                       *)
EXTENDS SecQuery, FiniteSetTheorems, FunctionTheorems, SequenceTheorems, TLAPS

\* What a query can choose to load, in order: by form type one list for each
\* format that to_datetime() may have found.
Choices(S, q) ==
    IF q.path = "form_type"
    THEN {DistinctKeys(Matching(Filtered(S, q), q, lead)) : lead \in Leads(Filtered(S, q))}
    ELSE {q.list}

\* What has been loaded and what is still to be are the two ends of c.
LoadedFrom(c) ==
    /\ Len(found) + Len(todo) = Len(c)
    /\ \A i \in DOMAIN found : found[i][1] = c[i]
    /\ \A i \in DOMAIN todo : todo[i] = c[Len(found) + i]

Loaded == \E c \in Choices(rows, query) : LoadedFrom(c)

Progress ==
    /\ rows \in Parquets \union {None}
    /\ pc = "uncalled" => todo = None
    /\ todo = None => rows = None /\ found = <<>> /\ yielded = <<>>
    /\ todo = None /\ pc \notin {"uncalled", "raised"} => ByFormType
    /\ todo # None /\ ByFormType => rows \in Parquets
    /\ ByFormType /\ pc \notin {"uncalled", "raised"} =>
         query.by \in {"filing_date", "scraped_date"}
    /\ todo # None /\ pc # "raised" => Loaded
    /\ pc = "done" => todo = <<>>

\* What was handed out comes before what is still to be loaded.
Behind ==
    ByFormType /\ todo # None /\ pc # "raised" =>
      \A i \in DOMAIN yielded, j \in DOMAIN todo : yielded[i] < todo[j]

IInv == TypeOK /\ Progress /\ Behind /\ EachOnceInOrder /\ NothingElseLoaded

-----------------------------------------------------------------------------
(* The operators of a query.                                                  *)

\* An ascending sequence over a set has no value twice; over a finite set of
\* as many elements it holds them all.
LEMMA AscendingIsAll ==
    ASSUME NEW K \in SUBSET Nat, IsFiniteSet(K),
           NEW s \in [1 .. Cardinality(K) -> K],
           \A i, j \in DOMAIN s : i < j => s[i] < s[j]
    PROVE  {s[i] : i \in DOMAIN s} = K
<1> DEFINE n == Cardinality(K)
<1>0. \A i \in 1 .. n : s[i] \in Int
  <2>1. \A k \in K : k \in Int
    OBVIOUS
  <2> QED
    BY <2>1
<1>1. n \in Nat /\ IsFiniteSet(1 .. n) /\ Cardinality(1 .. n) = n
  BY FS_CardinalityType, FS_Interval
<1>2. \A i, j \in 1 .. n : s[i] = s[j] => i = j
  <2> SUFFICES ASSUME NEW i \in 1 .. n, NEW j \in 1 .. n, i < j PROVE s[i] # s[j]
    BY <1>1
  <2> QED
    BY <1>0
<1>3. s \in Injection(1 .. n, K)
  BY <1>2, Fun_IsInj
<1>4. s \in Surjection(1 .. n, K)
  BY <1>1, <1>3, FS_Injection
<1> QED
  BY <1>4 DEF Surjection

\* sort_values() has an answer: a number goes to the place that counts the
\* numbers up to it.
LEMMA AscendingExists ==
    ASSUME NEW K \in SUBSET Nat, IsFiniteSet(K)
    PROVE  \E s \in [1 .. Cardinality(K) -> K] :
             \A i, j \in DOMAIN s : i < j => s[i] < s[j]
<1> DEFINE n == Cardinality(K)
           UpTo(k) == {x \in K : x <= k}
           place == [k \in K |-> Cardinality(UpTo(k))]
<1>0. \A k \in K : k \in Int
  OBVIOUS
<1>1. n \in Nat /\ IsFiniteSet(1 .. n) /\ Cardinality(1 .. n) = n
  BY FS_CardinalityType, FS_Interval
<1>2. ASSUME NEW k \in K
      PROVE  IsFiniteSet(UpTo(k)) /\ Cardinality(UpTo(k)) \in 1 .. n
  <2>1. UpTo(k) \in SUBSET K /\ k \in UpTo(k)
    OBVIOUS
  <2>2. IsFiniteSet(UpTo(k)) /\ Cardinality(UpTo(k)) <= n
    BY <2>1, FS_Subset
  <2>3. Cardinality(UpTo(k)) \in Nat /\ Cardinality(UpTo(k)) # 0
    BY <2>1, <2>2, FS_CardinalityType, FS_EmptySet
  <2> QED
    BY <1>1, <2>2, <2>3
<1>3. ASSUME NEW k \in K, NEW m \in K, k < m PROVE place[k] < place[m]
  <2>1. UpTo(k) \in SUBSET UpTo(m) /\ m \in UpTo(m) /\ m \notin UpTo(k)
    <3>1. ASSUME NEW x \in UpTo(k) PROVE x \in UpTo(m)
      <4>1. x \in K /\ x <= k
        OBVIOUS
      <4>2. x \in Int /\ k \in Int /\ m \in Int
        BY <1>0, <4>1
      <4> QED
        BY <1>3, <4>1, <4>2
    <3>2. m \in UpTo(m) /\ m \notin UpTo(k)
      BY <1>0, <1>3
    <3> QED
      BY <3>1, <3>2
  <2>2. Cardinality(UpTo(k)) <= Cardinality(UpTo(m))
    BY <1>2, <2>1, FS_Subset
  <2>3. Cardinality(UpTo(k)) # Cardinality(UpTo(m))
    BY <1>2, <2>1, FS_Subset
  <2> QED
    BY <1>2, <2>2, <2>3
<1>4. place \in [K -> 1 .. n]
  BY <1>2
<1> HIDE DEF place
<1>5. ASSUME NEW k \in K, NEW m \in K, place[k] = place[m] PROVE k = m
  <2>1. place[k] \in Int /\ ~(k < m) /\ ~(m < k)
    BY <1>1, <1>3, <1>4, <1>5
  <2> QED
    BY <1>0, <2>1
<1>6. place \in Injection(K, 1 .. n)
  BY <1>4, <1>5, Fun_IsInj
<1>7. place \in Surjection(K, 1 .. n)
  BY <1>1, <1>6, FS_Injection
<1>8. \A i \in 1 .. n : \E k \in K : place[k] = i
  BY <1>7 DEF Surjection
<1> DEFINE s == [i \in 1 .. n |-> CHOOSE k \in K : place[k] = i]
<1>9. \A i \in 1 .. n : s[i] \in K /\ place[s[i]] = i
  BY <1>8
<1>10. s \in [1 .. n -> K]
  BY <1>9
<1> HIDE DEF s
<1>11. ASSUME NEW i \in 1 .. n, NEW j \in 1 .. n, i < j PROVE s[i] < s[j]
  <2>1. s[i] \in K /\ s[j] \in K
    BY <1>9
  <2>2. s[i] \in Int /\ s[j] \in Int
    BY <1>0, <2>1
  <2>3. place[s[i]] = i /\ place[s[j]] = j
    BY <1>9
  <2>4. s[i] # s[j]
    BY <1>11, <2>3
  <2>5. ~(s[j] < s[i])
    <3>1. s[j] < s[i] => j < i
      BY <1>3, <2>1, <2>3
    <3> QED
      BY <1>1, <1>11, <3>1
  <2> QED
    BY <2>2, <2>4, <2>5
<1> QED
  BY <1>10, <1>11

\* The filings of some rows of a parquet, each once and in ascending order.
LEMMA DistinctKeysSorted ==
    ASSUME NEW S \in SUBSET Rows, IsFiniteSet(S)
    PROVE  /\ DistinctKeys(S) \in Seq(Keys)
           /\ {DistinctKeys(S)[i] : i \in DOMAIN DistinctKeys(S)} = {row.key : row \in S}
           /\ \A i, j \in DOMAIN DistinctKeys(S) :
                 i < j => DistinctKeys(S)[i] < DistinctKeys(S)[j]
<1> DEFINE K == {row.key : row \in S}
           s == DistinctKeys(S)
           keyOf == [row \in S |-> row.key]
<1>1. K \in SUBSET Keys /\ K \in SUBSET Nat
  BY QueryAssumption DEF Rows
<1>2. keyOf \in Surjection(S, K)
  BY DEF Surjection
<1>3. IsFiniteSet(K) /\ Cardinality(K) \in Nat
  BY <1>2, FS_Surjection, FS_CardinalityType
<1>4. /\ s \in [1 .. Cardinality(K) -> K]
      /\ \A i, j \in DOMAIN s : i < j => s[i] < s[j]
  BY <1>1, <1>3, AscendingExists DEF DistinctKeys
<1> HIDE DEF s, K
<1>5. {s[i] : i \in DOMAIN s} = K
  BY <1>1, <1>3, <1>4, AscendingIsAll
<1>6. s \in Seq(Keys)
  <2>1. s \in [1 .. Cardinality(K) -> Keys]
    BY <1>1, <1>4
  <2> QED
    BY <1>3, <2>1
<1> QED
  BY <1>4, <1>5, <1>6 DEF s, K

-----------------------------------------------------------------------------
(* Days and instants.                                                         *)

LEMMA DayOrder ==
    ASSUME NEW d \in Int, NEW e \in Int
    PROVE  /\ d * DayLength \in Int
           /\ d * DayLength < e * DayLength <=> d < e
<1>1. DayLength \in Nat \ {0}
  BY QueryAssumption
<1>2. ASSUME NEW x \in Int, NEW y \in Int, x < y
      PROVE  x * DayLength < y * DayLength
  <2>1. y - x \in Nat /\ y - x >= 1
    BY <1>2
  <2>2. (y - x) * DayLength >= DayLength
    BY <1>1, <2>1
  <2>3. y * DayLength = x * DayLength + (y - x) * DayLength
    BY <1>1
  <2> QED
    BY <1>1, <2>2, <2>3
<1>3. d = e => ~(d * DayLength < e * DayLength)
  BY <1>1
<1> QED
  BY <1>1, <1>2, <1>3

LEMMA DayOfInstant ==
    ASSUME NEW x \in Int
    PROVE  /\ x \div DayLength \in Int
           /\ (x \div DayLength) * DayLength <= x
           /\ x < ((x \div DayLength) + 1) * DayLength
<1>1. DayLength \in Nat \ {0}
  BY QueryAssumption
<1> QED
  BY <1>1

\* The half-open range of instants is the range of days, both ends included.
LEMMA InstantInRange ==
    ASSUME NEW x \in Int, NEW s \in Int, NEW e \in Int
    PROVE  x \div DayLength \in s .. e
             <=> s * DayLength <= x /\ x < (e + 1) * DayLength
<1> DEFINE d == x \div DayLength
<1>1. d \in Int /\ d * DayLength <= x /\ x < (d + 1) * DayLength
  BY DayOfInstant
<1> HIDE DEF d
<1>2. /\ d * DayLength \in Int /\ (d + 1) * DayLength \in Int
      /\ s * DayLength \in Int /\ (e + 1) * DayLength \in Int
  BY <1>1, DayOrder
<1>3. s <= d => s * DayLength <= d * DayLength
  <2>1. ~(d * DayLength < s * DayLength) <=> ~(d < s)
    BY <1>1, DayOrder
  <2> QED
    BY <1>1, <1>2, <2>1
<1>4. d < s => (d + 1) * DayLength <= s * DayLength
  <2>1. s * DayLength < (d + 1) * DayLength <=> s < d + 1
    BY <1>1, DayOrder
  <2> QED
    BY <1>1, <1>2, <2>1
<1>5. d <= e => (d + 1) * DayLength <= (e + 1) * DayLength
  <2>1. (e + 1) * DayLength < (d + 1) * DayLength <=> e + 1 < d + 1
    BY <1>1, DayOrder
  <2> QED
    BY <1>1, <1>2, <2>1
<1>6. e < d => (e + 1) * DayLength <= d * DayLength
  <2>1. d * DayLength < (e + 1) * DayLength <=> d < e + 1
    BY <1>1, DayOrder
  <2> QED
    BY <1>1, <1>2, <2>1
<1>7. d \in s .. e <=> s * DayLength <= x /\ x < (e + 1) * DayLength
  BY <1>1, <1>2, <1>3, <1>4, <1>5, <1>6
<1> QED
  BY <1>7 DEF d

LEMMA RowFields ==
    ASSUME NEW row \in Rows
    PROVE  /\ row.key \in Keys /\ SpeltAs[row.key] \in Spellings
           /\ FiledAt[row.key] \in Int /\ FiledOn(row.key) \in Int
           /\ row.scraped \in Int \union {None}
<1>1. Instants \subseteq Int
  <2>1. \A d \in Days : d * DayLength .. (d + 1) * DayLength - 1 \subseteq Int
    OBVIOUS
  <2> QED
    BY <2>1 DEF Instants
<1>2. row.key \in Keys /\ row.scraped \in Int \union {None}
  BY <1>1 DEF Rows
<1>3. SpeltAs[row.key] \in Spellings /\ FiledAt[row.key] \in Nat
  BY <1>2, QueryAssumption
<1>4. FiledAt[row.key] \in Int
  BY <1>3
<1> QED
  BY <1>2, <1>3, <1>4, DayOfInstant DEF FiledOn

LEMMA ParquetFinite ==
    ASSUME NEW R \in Parquets
    PROVE  R \in SUBSET Rows /\ IsFiniteSet(R)
<1>0. PICK n \in 0 .. MaxRows : \E row \in [1 .. n -> Rows] : R = {row[i] : i \in 1 .. n}
  BY DEF Parquets
<1>1. PICK row \in [1 .. n -> Rows] : R = {row[i] : i \in 1 .. n}
  BY <1>0
<1>2. row \in Surjection(1 .. n, R)
  BY <1>1 DEF Surjection
<1>3. n \in Nat /\ IsFiniteSet(1 .. n)
  BY QueryAssumption, FS_Interval
<1> QED
  BY <1>1, <1>2, <1>3, FS_Surjection

LEMMA QueryFields ==
    ASSUME NEW q \in Queries
    PROVE  /\ q.path = "form_type" => /\ q.start \in Int /\ q.end \in Int
                                      /\ q.by \in {"filing_date", "scraped_date", "other"}
           /\ q.path # "form_type" => q.path = "discovered" /\ q.list \in Seq(Keys)
<1>1. ASSUME q.path = "form_type"
      PROVE  /\ q.start \in Int /\ q.end \in Int
             /\ q.by \in {"filing_date", "scraped_date", "other"}
  <2>1. q.start \in Days /\ q.end \in Days
        /\ q.by \in {"filing_date", "scraped_date", "other"}
    BY <1>1 DEF Queries
  <2>2. Days \subseteq Int
    BY QueryAssumption
  <2> QED
    BY <2>1, <2>2
<1>2. ASSUME q.path # "form_type"
      PROVE  q.path = "discovered" /\ q.list \in Seq(Keys)
  <2>1. /\ q.path = "discovered"
        /\ q.list \in UNION {[1 .. n -> Keys] : n \in 0 .. MaxList}
    BY <1>2 DEF Queries
  <2>2. PICK n \in 0 .. MaxList : q.list \in [1 .. n -> Keys]
    BY <2>1
  <2>3. n \in Nat
    BY QueryAssumption
  <2> QED
    BY <2>1, <2>2, <2>3
<1> QED
  BY <1>1, <1>2

\* The mask keeps a row exactly if the row's day is in the range and, by filing
\* date, its text was understood.
LEMMA MaskByDay ==
    ASSUME NEW row \in Rows, NEW q, q.start \in Int, q.end \in Int, NEW lead
    PROVE  RowMatches(row, q, lead) <=>
             /\ FormOf[row.key] \in q.forms
             /\ DayOf(row, q) \in q.start .. q.end
             /\ q.by # "scraped_date" => Understood(row.key, lead)
<1>1. /\ None \notin Int /\ FiledAt[row.key] \in Int
      /\ row.scraped \in Int \union {None}
      /\ q.start * DayLength \in Int /\ (q.end + 1) * DayLength \in Int
  BY RowFields, QueryAssumption, DayOrder
<1>2. CASE q.by = "scraped_date"
  <2>1. CASE row.scraped = None
    BY <1>1, <1>2, <2>1 DEF RowMatches, Dated, DayOf
  <2>2. CASE row.scraped # None
    <3>1. row.scraped \div DayLength \in q.start .. q.end
            <=> /\ q.start * DayLength <= row.scraped
                /\ row.scraped < (q.end + 1) * DayLength
      BY <1>1, <2>2, InstantInRange
    <3> QED
      BY <1>1, <1>2, <2>2, <3>1 DEF RowMatches, Dated, DayOf
  <2> QED
    BY <2>1, <2>2
<1>3. CASE q.by # "scraped_date"
  <2>1. CASE ~Understood(row.key, lead)
    BY <1>3, <2>1 DEF RowMatches, Dated
  <2>2. CASE Understood(row.key, lead)
    <3>1. DayOf(row, q) = FiledAt[row.key] \div DayLength
      BY <1>3, <2>2 DEF DayOf, FiledOn, Understood
    <3>2. Dated(row, q, lead) = FiledAt[row.key]
      BY <1>3, <2>2 DEF Dated
    <3>3. FiledAt[row.key] \div DayLength \in q.start .. q.end
            <=> /\ q.start * DayLength <= FiledAt[row.key]
                /\ FiledAt[row.key] < (q.end + 1) * DayLength
      BY <1>1, InstantInRange
    <3> QED
      BY <1>1, <2>2, <3>1, <3>2, <3>3 DEF RowMatches
  <2> QED
    BY <2>1, <2>2
<1> QED
  BY <1>2, <1>3

\* Among ISO dates the order of the texts is that of the days, and instants are
\* compared alike by both: the reader lets through every row whose day is in
\* the range.
LEMMA TextOrder ==
    ASSUME NEW row \in Rows, NEW q, q.start \in Int, q.end \in Int,
           q.by = "scraped_date" \/ SpeltAs[row.key] = "iso",
           FormOf[row.key] \in q.forms, DayOf(row, q) \in q.start .. q.end
    PROVE  ReadFilter(row, q)
<1>1. /\ None \notin Int /\ FiledOn(row.key) \in Int
      /\ row.scraped \in Int \union {None}
      /\ q.start * DayLength \in Int
  BY RowFields, QueryAssumption, DayOrder
<1>2. CASE q.by = "scraped_date"
  <2>1. row.scraped # None /\ row.scraped \div DayLength \in q.start .. q.end
    BY <1>1, <1>2 DEF DayOf
  <2>2. /\ row.scraped \in Int /\ q.start * DayLength <= row.scraped
        /\ row.scraped < (q.end + 1) * DayLength
    BY <1>1, <2>1, InstantInRange
  <2> QED
    BY <1>1, <1>2, <2>1, <2>2 DEF ReadFilter
<1>3. CASE q.by # "scraped_date"
  <2>1. SpeltAs[row.key] = "iso" /\ FiledOn(row.key) \in q.start .. q.end
    BY <1>3 DEF DayOf
  <2> QED
    BY <1>1, <1>3, <2>1 DEF ReadFilter, TextFrom, TextUpTo
<1> QED
  BY <1>2, <1>3

\* Where dates are stored as ISO, whatever text comes first lets the ISO dates
\* be understood.
LEMMA LeadsUnderstand ==
    ASSUME NEW R \in SUBSET Rows, NEW q, StoredAsISO(R, q),
           NEW row \in Filtered(R, q), SpeltAs[row.key] = "iso",
           NEW lead \in Leads(Filtered(R, q))
    PROVE  Understood(row.key, lead)
<1> DEFINE texts == {SpeltAs[r.key] : r \in Filtered(R, q)} \ {"null"}
<1>1. "iso" \in texts
  OBVIOUS
<1>2. lead \in texts
  BY <1>1 DEF Leads
<1>3. PICK r \in Filtered(R, q) : lead = SpeltAs[r.key]
  BY <1>2
<1>4. r \in Rows /\ r \in R /\ FormOf[r.key] \in q.forms
  BY <1>3 DEF Filtered, ReadFilter
<1>5. lead \in Spellings /\ lead \notin {"compact", "timed", "null"}
  BY <1>2, <1>3, <1>4, RowFields DEF StoredAsISO
<1> QED
  BY <1>5 DEF Understood, Spellings

\* What a query chooses is a list of filings, by form type ascending, all of them
\* asked for, and with dates stored as ISO all of those.
LEMMA ChosenList ==
    ASSUME NEW q \in Queries, NEW R, q.path = "form_type" => R \in Parquets,
           NEW c \in Choices(R, q)
    PROVE  /\ c \in Seq(Keys)
           /\ q.path = "form_type" =>
                /\ \A i, j \in DOMAIN c : i < j => c[i] < c[j]
                /\ \A i \in DOMAIN c : c[i] \in Asked(R, q)
                /\ q.by = "scraped_date" \/ StoredAsISO(R, q) =>
                     \A k \in Asked(R, q) : \E i \in DOMAIN c : c[i] = k
<1>1. CASE q.path = "form_type"
  <2>1. PICK lead \in Leads(Filtered(R, q)) :
          c = DistinctKeys(Matching(Filtered(R, q), q, lead))
    BY <1>1 DEF Choices
  <2> DEFINE S == Matching(Filtered(R, q), q, lead)
  <2>2. R \in SUBSET Rows /\ IsFiniteSet(R) /\ q.start \in Int /\ q.end \in Int
    BY <1>1, ParquetFinite, QueryFields
  <2>3. /\ S \in SUBSET R /\ S \in SUBSET Rows /\ IsFiniteSet(S)
    <3>1. S \in SUBSET R
      BY DEF Matching, Filtered
    <3> QED
      BY <2>2, <3>1, FS_Subset
  <2>4. /\ c \in Seq(Keys)
        /\ {c[i] : i \in DOMAIN c} = {row.key : row \in S}
        /\ \A i, j \in DOMAIN c : i < j => c[i] < c[j]
    <3> HIDE DEF S
    <3> QED
      BY <2>1, <2>3, DistinctKeysSorted DEF S
  <2>5. ASSUME NEW i \in DOMAIN c PROVE c[i] \in Asked(R, q)
    <3>1. PICK row \in S : c[i] = row.key
      BY <2>4
    <3>2. row \in R /\ row \in Rows /\ row.key \in Keys /\ RowMatches(row, q, lead)
      BY <2>3, <3>1, RowFields DEF Matching
    <3>3. FormOf[row.key] \in q.forms /\ DayOf(row, q) \in q.start .. q.end
      BY <2>2, <3>2, MaskByDay
    <3> QED
      BY <3>1, <3>2, <3>3 DEF Asked
  <2>6. ASSUME q.by = "scraped_date" \/ StoredAsISO(R, q), NEW k \in Asked(R, q)
        PROVE  \E i \in DOMAIN c : c[i] = k
    <3>1. PICK row \in R : /\ row.key = k /\ FormOf[row.key] \in q.forms
                           /\ DayOf(row, q) \in q.start .. q.end
      BY <2>6 DEF Asked
    <3>2. row \in Rows
      BY <2>2
    <3>3. q.by = "scraped_date" \/ (StoredAsISO(R, q) /\ SpeltAs[row.key] = "iso")
      <4>1. CASE q.by # "scraped_date"
        <5>1. None \notin q.start .. q.end
          BY <2>2, QueryAssumption
        <5>2. SpeltAs[row.key] \notin {"garbled", "null"}
          BY <3>1, <4>1, <5>1 DEF DayOf
        <5>3. SpeltAs[row.key] \notin {"compact", "timed"}
          BY <2>6, <3>1, <4>1 DEF StoredAsISO
        <5> QED
          BY <2>6, <3>2, <4>1, <5>2, <5>3, RowFields DEF Spellings
      <4> QED
        BY <4>1
    <3>4. row \in Filtered(R, q)
      BY <2>2, <3>1, <3>2, <3>3, TextOrder DEF Filtered
    <3>5. q.by # "scraped_date" => Understood(row.key, lead)
      BY <2>2, <3>3, <3>4, LeadsUnderstand
    <3>6. row \in S
      BY <2>2, <3>1, <3>2, <3>4, <3>5, MaskByDay DEF Matching
    <3> QED
      BY <2>4, <3>1, <3>6
  <2> QED
    BY <1>1, <2>4, <2>5, <2>6
<1>2. CASE q.path # "form_type"
  BY <1>2, QueryFields DEF Choices
<1> QED
  BY <1>1, <1>2

-----------------------------------------------------------------------------
(* The steps.                                                                 *)

LEMMA InitInv == Init => IInv
<1> SUFFICES ASSUME Init PROVE IInv
  OBVIOUS
<1>1. TypeOK
  BY DEF Init, TypeOK
<1>2. Progress
  BY DEF Init, Progress
<1>3. Behind /\ EachOnceInOrder /\ NothingElseLoaded
  BY DEF Init, Behind, EachOnceInOrder, NothingElseLoaded
<1> QED
  BY <1>1, <1>2, <1>3 DEF IInv

\* At the call a list is all still to be loaded.
LEMMA CallInv == ASSUME IInv, Call PROVE IInv'
<1>1. /\ UNCHANGED <<query, rows, found, yielded>>
      /\ pc = "uncalled" /\ pc' \in {"raised", "suspended"}
      /\ ByFormType => todo' = None
      /\ ~ByFormType => todo' = query.list
      /\ pc' = "suspended" /\ ByFormType => query.by # "other"
  BY DEF Call
<1>2. todo = None /\ rows = None /\ found = <<>> /\ yielded = <<>> /\ query \in Queries
  BY <1>1 DEF IInv, Progress, TypeOK
<1>3. ~ByFormType => todo' \in Seq(Keys) /\ todo' # None /\ todo' \in Choices(rows', query')
  <2>1. ASSUME ~ByFormType PROVE todo' \in Seq(Keys) /\ todo' \in Choices(rows', query')
    BY <1>1, <1>2, <2>1, QueryFields DEF ByFormType, Choices
  <2> QED
    BY <2>1, NoneAssumption
<1>4. TypeOK'
  <2>1. todo' \in Seq(Keys) \union {None}
    BY <1>1, <1>3
  <2> QED
    BY <1>1, <2>1 DEF IInv, TypeOK
<1>5. ~ByFormType => Loaded'
  <2> SUFFICES ASSUME ~ByFormType PROVE Loaded'
    OBVIOUS
  <2>1. found' = <<>> /\ Len(found') = 0 /\ DOMAIN found' = {}
    BY <1>1, <1>2
  <2>2. /\ Len(todo') \in Nat /\ DOMAIN todo' = 1 .. Len(todo')
        /\ todo' \in Choices(rows', query')
    BY <1>3
  <2> QED
    BY <2>1, <2>2 DEF Loaded, LoadedFrom
<1>6. Progress'
  <2>1. ByFormType => query.by \in {"filing_date", "scraped_date", "other"}
    BY <1>2, QueryFields DEF ByFormType
  <2>2. ByFormType' <=> ByFormType
    BY <1>1 DEF ByFormType
  <2> QED
    BY <1>1, <1>2, <1>3, <1>5, <2>1, <2>2 DEF Progress
<1>7. Behind' /\ EachOnceInOrder' /\ NothingElseLoaded'
  BY <1>1, <1>2 DEF Behind, EachOnceInOrder, NothingElseLoaded
<1> QED
  BY <1>4, <1>6, <1>7 DEF IInv

\* Steps that load nothing.
LEMMA IdleInv ==
    ASSUME IInv, Pull \/ Abandon \/ StoreRaises \/ LoadUnnamed \/ Stop \/ UNCHANGED vars
    PROVE  IInv'
<1>1. UNCHANGED <<query, todo, rows, found, yielded>>
  BY DEF Pull, Abandon, StoreRaises, LoadUnnamed, Stop, vars
<1>2. \/ pc' = pc
      \/ pc' = "raised"
      \/ pc \in {"suspended", "running"} /\ pc' \in {"running", "abandoned"}
      \/ pc = "running" /\ pc' = "done" /\ todo = <<>>
  BY DEF Pull, Abandon, StoreRaises, LoadUnnamed, Stop, vars
<1>3. TypeOK'
  BY <1>1, <1>2 DEF IInv, TypeOK
<1>4. ByFormType' <=> ByFormType
  BY <1>1 DEF ByFormType
<1>5. Loaded' <=> Loaded
  BY <1>1 DEF Loaded, LoadedFrom
<1>6. Progress'
  BY <1>1, <1>2, <1>4, <1>5 DEF IInv, Progress
<1>7. Behind' /\ EachOnceInOrder' /\ NothingElseLoaded'
  BY <1>1, <1>2, <1>4 DEF IInv, Behind, EachOnceInOrder, NothingElseLoaded
<1> QED
  BY <1>3, <1>6, <1>7 DEF IInv

LEMMA ReadInv == ASSUME IInv, Read PROVE IInv'
<1>1. PICK S \in Parquets :
        /\ rows' = S
        /\ \E lead \in Leads(Filtered(S, query)) :
             todo' = DistinctKeys(Matching(Filtered(S, query), query, lead))
  BY DEF Read
<1>2. /\ UNCHANGED <<pc, query, found, yielded>> /\ pc = "running"
      /\ todo = None /\ found = <<>> /\ yielded = <<>> /\ ByFormType /\ ByFormType'
  BY DEF Read, IInv, Progress, ByFormType
<1>3. /\ query' \in Queries /\ rows' \in Parquets /\ rows' \in SUBSET Rows
  BY <1>1, <1>2, ParquetFinite DEF IInv, TypeOK
<1>4. todo' \in Choices(rows', query')
  BY <1>1, <1>2 DEF Choices, ByFormType
<1>5. /\ todo' \in Seq(Keys)
      /\ \A i, j \in DOMAIN todo' : i < j => todo'[i] < todo'[j]
  BY <1>2, <1>3, <1>4, ChosenList DEF ByFormType
<1>6. TypeOK'
  BY <1>2, <1>3, <1>5 DEF IInv, TypeOK
<1>7. Loaded'
  <2>1. found' = <<>> /\ Len(found') = 0 /\ DOMAIN found' = {}
    BY <1>2
  <2>2. Len(todo') \in Nat /\ DOMAIN todo' = 1 .. Len(todo')
    BY <1>5
  <2> QED
    BY <1>4, <2>1, <2>2 DEF Loaded, LoadedFrom
<1>8. Progress'
  BY <1>2, <1>3, <1>5, <1>7, NoneAssumption DEF IInv, Progress
<1>9. Behind' /\ EachOnceInOrder' /\ NothingElseLoaded'
  BY <1>2 DEF Behind, EachOnceInOrder, NothingElseLoaded
<1> QED
  BY <1>6, <1>8, <1>9 DEF IInv

\* The next filing has been loaded: it leaves todo for found, and is handed
\* out behind all others or passed over.
LEMMA LoadInv == ASSUME IInv, Load PROVE IInv'
<1> DEFINE k == Head(todo)
<1>1. PICK m \in Manifests :
        /\ found' = Append(found, <<k, m>>)
        /\ IF m = "incomplete"
           THEN pc' = "raised" /\ UNCHANGED <<todo, yielded>>
           ELSE /\ todo' = Tail(todo)
                /\ IF Wanted(m)
                   THEN /\ yielded' = Append(yielded, k)
                        /\ pc' = "suspended"
                   ELSE UNCHANGED <<pc, yielded>>
  BY DEF Load
<1>2. UNCHANGED <<query, rows>> /\ pc = "running" /\ todo # None /\ todo # <<>>
  BY DEF Load
<1>3. /\ todo \in Seq(Keys) /\ found \in Seq(Keys \X Manifests) /\ yielded \in Seq(Keys)
      /\ query \in Queries
  BY <1>2 DEF IInv, TypeOK
<1>4. /\ k \in Keys /\ k = todo[1] /\ Tail(todo) \in Seq(Keys)
      /\ Len(todo) \in Nat /\ Len(todo) >= 1 /\ Len(Tail(todo)) = Len(todo) - 1
      /\ DOMAIN todo = 1 .. Len(todo) /\ DOMAIN Tail(todo) = 1 .. Len(todo) - 1
      /\ \A i \in 1 .. Len(todo) - 1 : Tail(todo)[i] = todo[i + 1]
  BY <1>2, <1>3, HeadTailProperties, EmptySeq
<1>5. /\ Len(found) \in Nat /\ DOMAIN found = 1 .. Len(found)
      /\ Len(found') = Len(found) + 1 /\ DOMAIN found' = 1 .. Len(found) + 1
      /\ found'[Len(found) + 1] = <<k, m>>
      /\ \A i \in 1 .. Len(found) : found'[i] = found[i]
      /\ found' \in Seq(Keys \X Manifests)
  <2>1. <<k, m>> \in Keys \X Manifests
    BY <1>4
  <2> HIDE DEF k
  <2> QED
    BY <1>1, <1>3, <2>1, AppendProperties
<1> HIDE DEF k
<1>6. TypeOK'
  <2>1. todo' \in Seq(Keys) \union {None} /\ yielded' \in Seq(Keys)
    <3>1. Append(yielded, k) \in Seq(Keys)
      BY <1>3, <1>4, AppendProperties
    <3>2. (todo' = todo \/ todo' = Tail(todo))
          /\ (yielded' = yielded \/ yielded' = Append(yielded, k))
      BY <1>1
    <3> QED
      BY <1>3, <1>4, <3>1, <3>2
  <2>2. pc' \in {"raised", "suspended", "running"}
    BY <1>1, <1>2
  <2> QED
    BY <1>2, <1>5, <2>1, <2>2 DEF IInv, TypeOK
<1>7. ByFormType' <=> ByFormType
  BY <1>2 DEF ByFormType
<1>8. PICK c \in Choices(rows, query) : LoadedFrom(c)
  BY <1>2 DEF IInv, Progress, Loaded
<1>9. pc' # "raised" => Loaded'
  <2> SUFFICES ASSUME pc' # "raised" PROVE Loaded'
    OBVIOUS
  <2>1. todo' = Tail(todo)
    BY <1>1
  <2>2. Len(found') + Len(todo') = Len(c)
    BY <1>4, <1>5, <1>8, <2>1 DEF LoadedFrom
  <2>3. ASSUME NEW i \in DOMAIN found' PROVE found'[i][1] = c[i]
    <3>1. CASE i \in 1 .. Len(found)
      BY <1>5, <1>8, <3>1 DEF LoadedFrom
    <3>2. CASE i = Len(found) + 1
      BY <1>4, <1>5, <1>8, <3>2 DEF LoadedFrom
    <3> QED
      BY <1>5, <3>1, <3>2
  <2>4. ASSUME NEW i \in DOMAIN todo' PROVE todo'[i] = c[Len(found') + i]
    <3>1. i \in 1 .. Len(todo) - 1 /\ todo'[i] = todo[i + 1]
      BY <1>4, <2>1
    <3>2. todo[i + 1] = c[Len(found) + (i + 1)]
      BY <1>4, <1>8, <3>1 DEF LoadedFrom
    <3>3. Len(found) + (i + 1) = Len(found') + i
      BY <1>5, <3>1
    <3> QED
      BY <3>1, <3>2, <3>3
  <2> QED
    BY <1>2, <1>8, <2>2, <2>3, <2>4 DEF Loaded, LoadedFrom
<1>10. Progress'
  <2>1. todo' # None /\ pc' \in {"raised", "suspended", "running"}
    BY <1>1, <1>2, <1>4, NoneAssumption
  <2> QED
    BY <1>2, <1>7, <1>9, <2>1 DEF IInv, Progress
<1>11. ASSUME ByFormType
       PROVE  /\ \A i, j \in DOMAIN todo : i < j => todo[i] < todo[j]
              /\ \A i \in DOMAIN yielded, j \in DOMAIN todo : yielded[i] < todo[j]
  <2>1. rows \in Parquets
    BY <1>2, <1>11 DEF IInv, Progress
  <2>2. /\ \A i, j \in DOMAIN c : i < j => c[i] < c[j]
        /\ c \in Seq(Keys)
    BY <1>3, <1>8, <1>11, <2>1, ChosenList DEF ByFormType
  <2>3. ASSUME NEW i \in DOMAIN todo, NEW j \in DOMAIN todo, i < j
        PROVE  todo[i] < todo[j]
    <3>1. /\ todo[i] = c[Len(found) + i] /\ todo[j] = c[Len(found) + j]
          /\ Len(found) + Len(todo) = Len(c)
      BY <1>8 DEF LoadedFrom
    <3>2. i \in 1 .. Len(todo) /\ j \in 1 .. Len(todo) /\ DOMAIN c = 1 .. Len(c)
      BY <1>4, <2>2
    <3>3. /\ Len(found) + i \in DOMAIN c /\ Len(found) + j \in DOMAIN c
          /\ Len(found) + i < Len(found) + j
      BY <1>4, <1>5, <2>3, <3>1, <3>2
    <3> QED
      BY <2>2, <3>1, <3>3
  <2>4. \A i \in DOMAIN yielded, j \in DOMAIN todo : yielded[i] < todo[j]
    BY <1>2, <1>11 DEF IInv, Behind
  <2> QED
    BY <2>3, <2>4
<1>12. \/ yielded' = yielded
       \/ /\ DOMAIN yielded = 1 .. Len(yielded) /\ Len(yielded) \in Nat
          /\ DOMAIN yielded' = 1 .. Len(yielded) + 1
          /\ yielded'[Len(yielded) + 1] = k
          /\ \A i \in 1 .. Len(yielded) : yielded'[i] = yielded[i]
  BY <1>1, <1>3, <1>4, AppendProperties
<1>13. Behind'
  <2> SUFFICES ASSUME ByFormType, pc' # "raised",
                      NEW i \in DOMAIN yielded', NEW j \in DOMAIN todo'
               PROVE  yielded'[i] < todo'[j]
    BY <1>7 DEF Behind
  <2>1. j + 1 \in DOMAIN todo /\ todo'[j] = todo[j + 1] /\ 1 \in DOMAIN todo /\ 1 < j + 1
    BY <1>1, <1>4
  <2>2. k < todo[j + 1]
    BY <1>4, <1>11, <2>1
  <2> QED
    BY <1>11, <1>12, <2>1, <2>2
<1>14. EachOnceInOrder'
  <2> SUFFICES ASSUME ByFormType, NEW i \in DOMAIN yielded', NEW j \in DOMAIN yielded', i < j
               PROVE  yielded'[i] < yielded'[j]
    BY <1>7 DEF EachOnceInOrder
  <2>1. CASE yielded' = yielded
    BY <2>1 DEF IInv, EachOnceInOrder
  <2>2. CASE yielded' # yielded
    <3>1. i \in DOMAIN yielded /\ yielded'[i] = yielded[i]
      BY <1>12, <2>2
    <3>2. CASE j \in DOMAIN yielded
      BY <1>12, <2>2, <3>1, <3>2 DEF IInv, EachOnceInOrder
    <3>3. CASE j = Len(yielded) + 1
      BY <1>4, <1>11, <1>12, <2>2, <3>1, <3>3
    <3> QED
      BY <1>12, <2>2, <3>2, <3>3
  <2> QED
    BY <2>1, <2>2
<1>15. NothingElseLoaded'
  <2> SUFFICES ASSUME ByFormType, NEW i \in DOMAIN found'
               PROVE  found'[i][1] \in Asked(rows, query)
    BY <1>2, <1>7 DEF NothingElseLoaded
  <2>1. CASE i \in 1 .. Len(found)
    BY <1>5, <2>1 DEF IInv, NothingElseLoaded
  <2>2. CASE i = Len(found) + 1
    <3>1. k = c[Len(found) + 1] /\ Len(found) + Len(todo) = Len(c)
      BY <1>4, <1>8 DEF LoadedFrom
    <3>2. /\ c \in Seq(Keys)
          /\ \A n \in DOMAIN c : c[n] \in Asked(rows, query)
      BY <1>2, <1>3, <1>8, ChosenList DEF ByFormType, IInv, Progress
    <3>3. Len(found) + 1 \in DOMAIN c
      BY <1>4, <1>5, <3>1, <3>2
    <3> QED
      BY <1>5, <2>2, <3>1, <3>2, <3>3
  <2> QED
    BY <1>5, <2>1, <2>2
<1> QED
  BY <1>6, <1>10, <1>13, <1>14, <1>15 DEF IInv

-----------------------------------------------------------------------------
THEOREM Inductive == Spec => []IInv
<1>1. Init => IInv
  BY InitInv
<1>2. IInv /\ [Next]_vars => IInv'
  BY CallInv, IdleInv, ReadInv, LoadInv DEF Next
<1> QED
  BY <1>1, <1>2, PTL DEF Spec

\* Only filings are handed out, whatever the loads find.
THEOREM TypeCorrect == Spec => []TypeOK
<1>1. IInv => TypeOK
  BY DEF IInv
<1> QED
  BY <1>1, Inductive, PTL

\* However many documents of a filing match, it is handed out once, and the
\* filings come in the order of their keys.
THEOREM OnceInOrder == Spec => []EachOnceInOrder
<1>1. IInv => EachOnceInOrder
  BY DEF IInv
<1> QED
  BY <1>1, Inductive, PTL

\* Whatever spellings the dates have and the reader lets through, only filings
\* whose form and day were asked for are loaded.
THEOREM OnlyAsked == Spec => []NothingElseLoaded
<1>1. IInv => NothingElseLoaded
  BY DEF IInv
<1> QED
  BY <1>1, Inductive, PTL

\* An exhausted query has loaded every filing with a document whose day is in
\* the range, if dates are stored as ISO or the range is over instants, or every
\* filing of its list in order.
THEOREM AllLoaded == Spec => []EveryFilingLoaded
<1>1. IInv => EveryFilingLoaded
  <2> SUFFICES ASSUME IInv, pc = "done"
               PROVE  IF ByFormType
                      THEN query.by = "scraped_date" \/ StoredAsISO(rows, query) =>
                             Asked(rows, query) \subseteq {found[i][1] : i \in DOMAIN found}
                      ELSE /\ Len(found) = Len(query.list)
                           /\ \A i \in DOMAIN found : found[i][1] = query.list[i]
    BY DEF EveryFilingLoaded
  <2>1. /\ todo = <<>> /\ query \in Queries /\ found \in Seq(Keys \X Manifests)
        /\ todo # None
    BY NoneAssumption DEF IInv, Progress, TypeOK
  <2>2. PICK c \in Choices(rows, query) : LoadedFrom(c)
    BY <2>1 DEF IInv, Progress, Loaded
  <2>3. /\ Len(found) = Len(c) /\ DOMAIN found = 1 .. Len(found)
        /\ \A i \in DOMAIN found : found[i][1] = c[i]
    <3>1. Len(todo) = 0 /\ Len(found) \in Nat /\ DOMAIN found = 1 .. Len(found)
      BY <2>1
    <3>2. Len(found) + Len(todo) = Len(found)
      BY <3>1
    <3> QED
      BY <2>2, <3>1, <3>2 DEF LoadedFrom
  <2>4. CASE ByFormType
    <3>1. rows \in Parquets
      BY <2>1, <2>4 DEF IInv, Progress
    <3>2. /\ c \in Seq(Keys)
          /\ query.by = "scraped_date" \/ StoredAsISO(rows, query) =>
               \A k \in Asked(rows, query) : \E i \in DOMAIN c : c[i] = k
      BY <2>1, <2>2, <2>4, <3>1, ChosenList DEF ByFormType
    <3>3. DOMAIN c = DOMAIN found
      BY <2>3, <3>2
    <3> QED
      BY <2>3, <2>4, <3>2, <3>3
  <2>5. CASE ~ByFormType
    BY <2>2, <2>3, <2>5 DEF Choices, ByFormType
  <2> QED
    BY <2>4, <2>5
<1> QED
  BY <1>1, Inductive, PTL
=============================================================================
