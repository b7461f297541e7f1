------------------------------ MODULE Listings ------------------------------
(***************************************************************************)
(* The listings of users, notifications and telemetry, page by page:       *)
(* GetAllUsers, GetAllNotification, GetAllTelemetry in controller/ and     *)
(* service/.  Each request makes two calls of the database, one for the    *)
(* rows of the page and one for total_count; meanwhile, and between the    *)
(* requests, records are inserted and deleted.                             *)
(*                                                                         *)
(* A reader asks for page after page until it has come to total_count, as  *)
(* the numbers in the answer suggest.  Users and notifications are sorted  *)
(* by createdAt, which is set before the insertion: a record may come in   *)
(* anywhere, but two never change places (the times are taken to differ).  *)
(* Telemetry is joined with the users of its device, one row for each, and *)
(* comes in the order of the collection, which nothing promises beyond a   *)
(* change.  A search only narrows what is listed.                          *)
(***************************************************************************)
EXTENDS Naturals, Sequences, FiniteSets, SequencesExt

CONSTANTS
  Records,   \* the records there can be
  MaxLimit,  \* bound: rows on a page
  MaxPage    \* bound: pages a reader asks for

ASSUME ListingAssumption == MaxLimit \in Nat /\ MaxPage \in Nat \ {0}

VARIABLES
  kind,    \* what is listed: "users", "notifications" or "telemetry"
  rows,    \* the rows of the listing, in its order
  walk,    \* the reader: where it stands, its limit and page, what it has seen
  fixed,   \* for the properties: the rows at the beginning of the walk
  change   \* likewise: what has happened to them since

listingVars == <<kind, rows, walk, fixed, change>>

Kinds == {"users", "notifications", "telemetry"}

(* A row of the telemetry names its document and one of the at most two    *)
(* users here; the other listings have one row for each record.            *)
Rows(k) == [record : Records, user : IF k = "telemetry" THEN {1, 2} ELSE {1}]

RecordsIn(s) == {s[i].record : i \in DOMAIN s}

(* CountDocuments: the records, also where the rows are those of a join.   *)
Total == Cardinality(RecordsIn(rows))

ListingInit ==
  /\ kind \in Kinds
  /\ rows = <<>>
  /\ walk = [at |-> "idle", limit |-> 0, page |-> 1, seen |-> <<>>, total |-> 0]
  /\ fixed = <<>>
  /\ change = {}

-----------------------------------------------------------------------------
(* What happens to the collections.                                        *)

(* CreateUser, saveNotification, UpsetTelemetry for a device unheard of;   *)
(* in the telemetry also the second user of a device, next to the first.   *)
Insert(w) ==
  /\ w.record \notin RecordsIn(fixed)
  /\ \/ w.record \notin RecordsIn(rows) /\ w.user = 1
     \/ w.user = 2 /\ Contains(rows, [w EXCEPT !.user = 1]) /\ ~Contains(rows, w)
  /\ \E i \in 1 .. Len(rows) + 1 :
       /\ w.user = 2 => i > 1 /\ rows[i - 1].record = w.record
       /\ w.user = 1 /\ i \in 2 .. Len(rows) => rows[i - 1].record # rows[i].record
       /\ rows' = InsertAt(rows, i, w)
  /\ change' = change \cup {"insert"}
  /\ UNCHANGED <<kind, walk, fixed>>

(* DeleteUser, DeleteTelemetry; notifications are kept.  The rows of the   *)
(* record, which stand together at i .. j, go.                             *)
Delete(r) ==
  /\ kind # "notifications"
  /\ \E i, j \in DOMAIN rows :
       /\ i <= j /\ {p \in DOMAIN rows : rows[p].record = r} = i .. j
       /\ rows' = SubSeq(rows, 1, i - 1) \o SubSeq(rows, j + 1, Len(rows))
  /\ change' = change \cup {"delete"}
  /\ UNCHANGED <<kind, walk, fixed>>

-----------------------------------------------------------------------------
(* A request for a page.                                                   *)

OffsetOfNext(limit, page) == page * limit   \* slip: pages counted from 0

Offset(limit, page) == (page - 1) * limit

PageWithoutLimit(limit, page) ==   \* slip: SetLimit is missing
  SubSeq(rows, Offset(limit, page) + 1, Len(rows))

(* Skip and limit; without a positive limit, Find returns all.             *)
Page(limit, page) ==
  LET from == Offset(limit, page) + 1
      all  == limit = 0 \/ from + limit > Len(rows) + 1
  IN  SubSeq(rows, from, IF all THEN Len(rows) ELSE from + limit - 1)

CountingFirst == "count"   \* slip: every listing counts as GetAllTelemetry does

(* GetAllTelemetry counts and then aggregates; the others find and count.  *)
FirstCall == IF kind = "telemetry" THEN "count" ELSE "find"

(* The reader's first page.  An aggregation refuses a limit of 0.          *)
StartWalk(limit) ==
  /\ walk.at = "idle"
  /\ kind = "telemetry" => limit > 0
  /\ walk' = [walk EXCEPT !.at = FirstCall, !.limit = limit]
  /\ fixed' = rows
  /\ change' = {}
  /\ UNCHANGED <<kind, rows>>

(* The reader has the answer: it asks for the next page, or was this the   *)
(* last, by what it asked for and total_count.                             *)
NextPage(w) ==
  IF w.limit = 0 \/ w.page * w.limit >= w.total THEN [w EXCEPT !.at = "over"]
  ELSE [w EXCEPT !.at = FirstCall, !.page = @ + 1]

(* The first call is followed by the other, the second by the answer.      *)
Answered(w, call) ==
  IF FirstCall # call THEN NextPage(w)
  ELSE [w EXCEPT !.at = IF call = "find" THEN "count" ELSE "find"]

(* Find, or Aggregate, and cursor.All.                                     *)
FindPage ==
  /\ walk.at = "find"
  /\ walk' = Answered([walk EXCEPT !.seen = @ \o Page(walk.limit, walk.page)], "find")
  /\ walk'.page <= MaxPage
  /\ UNCHANGED <<kind, rows, fixed, change>>

CountRows ==
  /\ walk.at = "count"
  /\ walk' = Answered([walk EXCEPT !.total = Total], "count")
  /\ walk'.page <= MaxPage
  /\ UNCHANGED <<kind, rows, fixed, change>>

(* Either call fails: 500, and the reader gives up.                        *)
PageFails ==
  /\ walk.at \in {"find", "count"}
  /\ walk' = [walk EXCEPT !.at = "failed"]
  /\ UNCHANGED <<kind, rows, fixed, change>>

ListingNext ==
  \/ \E w \in Rows(kind) : Insert(w)
  \/ \E r \in Records : Delete(r)
  \/ \E limit \in 0 .. MaxLimit : StartWalk(limit)
  \/ FindPage \/ CountRows \/ PageFails

ListingSpec == ListingInit /\ [][ListingNext]_listingVars

-----------------------------------------------------------------------------
(* Properties.                                                             *)

(* The variables hold values of their types, the rows of a document stand  *)
(* together and no row twice, and no page has more rows than its limit.    *)
ListingTypeOK ==
  /\ kind \in Kinds
  /\ \A i \in DOMAIN rows : rows[i] \in Rows(kind)
  /\ IsInjective(rows)
  /\ \A i, j \in DOMAIN rows : rows[i].record = rows[j].record => j \in i - 1 .. i + 1
  /\ walk.at \in {"idle", "find", "count", "over", "failed"}
  /\ walk.page \in 1 .. MaxPage
  /\ walk.limit > 0 => Len(walk.seen) <= walk.page * walk.limit

(* A reader who walks all pages of the users or the notifications misses   *)
(* none that was there when it began, whatever is inserted meanwhile: what *)
(* comes in pushes rows back, onto pages still to come, and the total that *)
(* ends the walk is counted after the page is read.  (A deletion moves     *)
(* rows to pages already read.)                                            *)
NothingSkipped ==
  walk.at = "over" /\ kind # "telemetry" /\ "delete" \notin change
    => \A i \in DOMAIN fixed : Contains(walk.seen, fixed[i])

(* While nothing changes, the pages are the beginning of the listing, row  *)
(* for row, and at least as much of it as there are records: all of it as  *)
(* long as each record has one row.  What is left out of the telemetry is  *)
(* no more rows than there are second users, since total_count is of the   *)
(* documents.                                                              *)
ListingIsExact ==
  walk.at = "over" /\ change = {}
    => IsPrefix(walk.seen, fixed) /\ Len(walk.seen) >= Cardinality(RecordsIn(fixed))

=============================================================================
