----------------------------- MODULE MCSecQuery -----------------------------
(* Six filings of two form types and every spelling.  The year changes        *)
(* between days 2 and 3, the days a query can name; the filing whose date is  *)
(* spelt compactly is of day 1.                                               *)
EXTENDS SecQuery, TLC

MCFormOf == <<"10-K", "10-K", "10-K", "8-K", "8-K", "8-K">>

MCSpeltAs == <<"iso", "compact", "iso", "timed", "garbled", "null">>

MCYearOf == <<1, 1, 2>>

\* The first instants of days 2, 1 and 3, the last one of day 2, and day 3.
MCFiledAt == <<4, 2, 6, 5, 6, 6>>
=============================================================================
