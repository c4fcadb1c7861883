------------------------------ MODULE TokenPaging ------------------------------
(***************************************************************************)
(* selectBatchFromTableByToken of pkg/proc/data_util.go: how a batch reads *)
(* the rows of its token interval, page by page.  A page starts at the     *)
(* token the page before ended with, as another row may have that token    *)
(* too, and skips the rows that are known to have been read.               *)
(*                                                                         *)
(* A table is a sequence of tokens in ascending order: tokens[i] is        *)
(* token(rowid) of its i-th row.                                           *)
(***************************************************************************)
EXTENDS Integers, Sequences, FiniteSets, FiniteSetsExt

\* What a batch remembers between two pages: curStartLeftToken, curStartLeftTokenRowIds.
Cursor(token, rows) == [token |-> token, rows |-> rows]

Inside(tokens, first, last) == {i \in 1..Len(tokens) : tokens[i] \in first..last}

\* The rows that LIMIT n lets through: those with fewer than n rows before them.
Limited(tokens, n, first, last) ==
  LET inside == Inside(tokens, first, last)
  IN {i \in inside : Cardinality({j \in inside : j < i}) < n}

\* Rows one after the other, as the database returns them.
Ascending(rows) ==
  [k \in 1..Cardinality(rows) |->
     CHOOSE i \in rows : Cardinality({j \in rows : j < i}) = k - 1]

\* Faulty variant: a row with the start token has been read.
Known_ByToken(tokens, i, cursor) == tokens[i] = cursor.token

\* isIgnoreOverlappedRowid
Known(tokens, i, cursor) == tokens[i] = cursor.token /\ i \in cursor.rows

\* The rows added to the rowset.
PageRows(tokens, n, cursor, last) ==
  {i \in Limited(tokens, n, cursor.token, last) : ~Known(tokens, i, cursor)}

\* Faulty variant: the page goes on behind the last token ("curStartLeftToken =
\* lastRetrievedLeftToken + 1", which the code warns of).
NextCursor_Behind(tokens, n, cursor, last) ==
  LET scanned == Limited(tokens, n, cursor.token, last)
  IN Cursor(IF scanned = {} THEN 0 ELSE tokens[Max(scanned)] + 1, {})

\* lastRetrievedToken is that of the last row scanned, known or not; the rowids of the
\* next start are the ones with this token among the rows added.
NextCursor(tokens, n, cursor, last) ==
  LET scanned == Limited(tokens, n, cursor.token, last)
      token == IF scanned = {} THEN 0 ELSE tokens[Max(scanned)]
  IN Cursor(token, {i \in PageRows(tokens, n, cursor, last) : tokens[i] = token})

\* The page ends with the token it started with, and either skipped rows that the next
\* page will not know any more, or is empty, which ends the reading, with rows behind.
Wraps(tokens, n, cursor, last) ==
  LET page == PageRows(tokens, n, cursor, last)
      scanned == Limited(tokens, n, cursor.token, last)
  IN IF page = {}
     THEN \E i \in 1..Len(tokens) : tokens[i] <= last /\ scanned # {} /\ i > Max(scanned)
     ELSE /\ tokens[Max(page)] = cursor.token
          /\ page # scanned
=============================================================================
