-------------------------- MODULE Listings_proofs --------------------------
(***************************************************************************)
(* What the pages of a listing give the reader, for any number of records, *)
(* any limit and any number of pages: nothing is skipped while records are *)
(* only inserted, and while nothing changes the pages make up the listing. *)
(*                                                                         *)
(* What both rest on: how much of the listing the pages so far cover.  A   *)
(* row that was there at the beginning is seen or stands beyond, since an  *)
(* insertion only pushes it back.                                          *)
(***************************************************************************)
EXTENDS Listings, FiniteSetTheorems, SequenceTheorems, TLAPS

Walks ==
  [at : {"idle", "find", "count", "over", "failed"}, limit : Nat, page : Nat \ {0},
   seen : Seq(Rows(kind)), total : Nat]

Typed ==
  /\ kind \in Kinds
  /\ rows \in Seq(Rows(kind)) /\ fixed \in Seq(Rows(kind))
  /\ walk \in Walks /\ walk.page <= MaxPage
  /\ change \subseteq {"insert", "delete"}

(* The rows of a record together.                                          *)
Together(s) == \A i, j \in DOMAIN s : s[i].record = s[j].record => j \in i - 1 .. i + 1

(* The pages read, and the rows they cover: the first so many.             *)
PageIsRead == walk.at \in {"over", "failed"} \/ (walk.at = "count" /\ kind # "telemetry")
Covered == IF PageIsRead THEN walk.page * walk.limit ELSE Offset(walk.limit, walk.page)

Walking == walk.at \in {"find", "count", "over"}

WalkBegins == walk.at = "idle" => walk.seen = <<>> /\ walk.page = 1 /\ walk.limit = 0

NotTooMany ==
  /\ walk.limit > 0 => Len(walk.seen) <= Covered
  /\ Walking /\ walk.limit = 0 => walk.page = 1

(* A row of the beginning is seen, or still to come.                       *)
ToCome(w) ==
  /\ walk.at # "over"
  /\ walk.limit = 0 => ~PageIsRead
  /\ \E p \in DOMAIN rows : p > Covered /\ rows[p] = w

SeenOrToCome ==
  Walking /\ kind # "telemetry" /\ "delete" \notin change
    => \A i \in DOMAIN fixed : Contains(walk.seen, fixed[i]) \/ ToCome(fixed[i])

Still == change = {}

PageEnd ==
  IF walk.limit = 0 \/ walk.page * walk.limit > Len(rows) THEN Len(rows)
  ELSE walk.page * walk.limit

(* Nothing has changed: the pages so far are the beginning of the listing, *)
(* and the last one is not passed over.                                    *)
SeenSoFar ==
  Walking /\ Still =>
    /\ rows = fixed
    /\ Offset(walk.limit, walk.page) <= Len(rows)
    /\ walk.seen = SubSeq(rows, 1, IF PageIsRead THEN PageEnd
                                   ELSE Offset(walk.limit, walk.page))
    /\ kind = "telemetry" /\ walk.at = "find" => walk.total = Total
    /\ walk.at = "over" => Total <= PageEnd

ListingInv ==
  /\ Typed /\ IsInjective(rows) /\ Together(rows)
  /\ WalkBegins /\ NotTooMany /\ SeenOrToCome /\ SeenSoFar

-----------------------------------------------------------------------------
(* The pages in numbers.                                                   *)
LEMMA Offsets ==
  ASSUME NEW l \in Nat, NEW p \in Nat \ {0}
  PROVE  /\ Offset(l, p) \in Nat /\ p * l \in Nat
         /\ p * l = Offset(l, p) + l
         /\ Offset(l, p + 1) = p * l
         /\ Offset(l, 1) = 0
         /\ Offset(0, p) = 0
<1>1. (p - 1) \in Nat /\ (p + 1) - 1 = p
  OBVIOUS
<1>2. \A x, y \in Nat : x * y \in Nat /\ (x + 1) * y = x * y + y
  OBVIOUS
<1>3. p * l = (p - 1) * l + l
  BY <1>1, <1>2
<1> QED
  BY <1>1, <1>2, <1>3 DEF Offset

(* A page is a stretch of the rows, no longer than the limit.              *)
LEMMA PageRows ==
  ASSUME NEW S, rows \in Seq(S), NEW l \in Nat, NEW p \in Nat \ {0}
  PROVE  /\ Page(l, p) \in Seq(S)
         /\ l > 0 => Len(Page(l, p)) <= l
         /\ \A k \in DOMAIN rows :
              k > Offset(l, p) /\ (l > 0 => k <= p * l) => Contains(Page(l, p), rows[k])
<1> DEFINE o == Offset(l, p)
           e == IF l = 0 \/ o + l > Len(rows) THEN Len(rows) ELSE o + l
<1>1. o \in Nat /\ p * l = o + l /\ (l = 0 => o = 0)
  BY Offsets
<1>2. Len(rows) \in Nat /\ DOMAIN rows = 1 .. Len(rows) /\ \A i \in 1 .. Len(rows) : rows[i] \in S
  OBVIOUS
<1>a. Page(l, p) = SubSeq(rows, o + 1, IF l = 0 \/ (o + 1) + l > Len(rows) + 1 THEN Len(rows)
                                       ELSE (o + 1) + l - 1)
  BY DEF Page
<1> HIDE DEF o
<1>3. Page(l, p) = SubSeq(rows, o + 1, e) /\ e \in Nat /\ e <= Len(rows) /\ (l > 0 => e <= o + l)
  <2>1. /\ (o + 1) + l > Len(rows) + 1 <=> o + l > Len(rows)
        /\ (o + 1) + l - 1 = o + l
    BY <1>1, <1>2
  <2>2. Page(l, p) = SubSeq(rows, o + 1, e)
    BY <1>a, <2>1
  <2> QED
    BY <1>1, <1>2, <2>2
<1> HIDE DEF e
<1>4. \A i \in o + 1 .. e : rows[i] \in S
  BY <1>1, <1>2, <1>3
<1>5. /\ Page(l, p) \in Seq(S)
      /\ Len(Page(l, p)) = IF o + 1 <= e THEN e - o ELSE 0
      /\ \A i \in 1 .. e - o : Page(l, p)[i] = rows[o + i]
  <2>1. o + 1 \in Int /\ e \in Int /\ e - (o + 1) + 1 = e - o
    BY <1>1, <1>3
  <2>2. \A i \in 1 .. e - o : (o + 1) + i - 1 = o + i
    BY <1>1, <1>3
  <2> QED
    BY <1>3, <1>4, <2>1, <2>2, SubSeqProperties
<1>6. ASSUME NEW k \in DOMAIN rows, k > o, l > 0 => k <= p * l
      PROVE  Contains(Page(l, p), rows[k])
  <2>1. k <= e
    BY <1>1, <1>2, <1>6 DEF o, e
  <2>2. k - o \in 1 .. e - o /\ o + (k - o) = k /\ o + 1 <= e
    BY <1>1, <1>2, <1>3, <1>6, <2>1
  <2> QED
    BY <1>5, <2>2 DEF Contains
<1> QED
  BY <1>1, <1>3, <1>5, <1>6 DEF o

(* With the rows before it, a page makes up a beginning of the listing.    *)
LEMMA PageContinues ==
  ASSUME NEW S, rows \in Seq(S), NEW l \in Nat, NEW p \in Nat \ {0},
         Offset(l, p) <= Len(rows)
  PROVE  SubSeq(rows, 1, Offset(l, p)) \o Page(l, p)
           = SubSeq(rows, 1, IF l = 0 \/ p * l > Len(rows) THEN Len(rows) ELSE p * l)
<1> DEFINE o == Offset(l, p)
           e == IF l = 0 \/ p * l > Len(rows) THEN Len(rows) ELSE p * l
<1>1. o \in Nat /\ p * l \in Nat /\ p * l = o + l /\ Len(rows) \in Nat
  BY Offsets
<1>a. Page(l, p) = SubSeq(rows, o + 1, IF l = 0 \/ (o + 1) + l > Len(rows) + 1 THEN Len(rows)
                                       ELSE (o + 1) + l - 1)
  BY DEF Page
<1> HIDE DEF o
<1>2. Page(l, p) = SubSeq(rows, o + 1, e) /\ e \in o .. Len(rows)
  <2>1. /\ (o + 1) + l > Len(rows) + 1 <=> p * l > Len(rows)
        /\ (o + 1) + l - 1 = p * l
    BY <1>1
  <2>2. Page(l, p) = SubSeq(rows, o + 1, e)
    BY <1>a, <2>1
  <2>3. o <= Len(rows)
    BY DEF o
  <2>4. l = 0 => o = 0
    BY Offsets DEF o
  <2>5. e \in o .. Len(rows)
    BY <1>1, <2>3, <2>4
  <2> QED
    BY <2>2, <2>5
<1> HIDE DEF e
<1>3. 1 \in 1 .. Len(rows) + 1 /\ o \in 1 - 1 .. Len(rows)
  BY <1>1 DEF o
<1>4. SubSeq(rows, 1, o) \o SubSeq(rows, o + 1, e) = SubSeq(rows, 1, e)
  BY <1>2, <1>3, ConcatAdjacentSubSeq
<1> QED
  BY <1>2, <1>4 DEF o, e

-----------------------------------------------------------------------------
(* The count.                                                              *)
LEMMA RecordsFinite ==
  ASSUME NEW S, NEW s \in Seq(S)
  PROVE  /\ IsFiniteSet(RecordsIn(s))
         /\ Cardinality(RecordsIn(s)) \in Nat /\ Cardinality(RecordsIn(s)) <= Len(s)
<1> DEFINE f == [i \in 1 .. Len(s) |-> s[i].record]
<1>1. Len(s) \in Nat /\ DOMAIN s = 1 .. Len(s)
  OBVIOUS
<1>2. f \in Surjection(1 .. Len(s), RecordsIn(s))
  BY <1>1 DEF Surjection, RecordsIn
<1>3. IsFiniteSet(1 .. Len(s)) /\ Cardinality(1 .. Len(s)) = Len(s)
  BY <1>1, FS_Interval
<1> QED
  BY <1>2, <1>3, FS_Surjection, FS_CardinalityType

(* Where no two rows are of one record, there are as many of either.       *)
LEMMA RowPerRecord ==
  ASSUME NEW S, NEW s \in Seq(S),
         \A i, j \in DOMAIN s : s[i].record = s[j].record => i = j
  PROVE  Cardinality(RecordsIn(s)) = Len(s)
<1> DEFINE f == [i \in 1 .. Len(s) |-> s[i].record]
<1>1. Len(s) \in Nat /\ DOMAIN s = 1 .. Len(s)
  OBVIOUS
<1>2. f \in Bijection(1 .. Len(s), RecordsIn(s))
  BY <1>1 DEF Bijection, Injection, IsInjective, Surjection, RecordsIn
<1> QED
  BY <1>1, <1>2, FS_CountingElements DEF ExistsBijection

-----------------------------------------------------------------------------
(* What an insertion and a deletion do to the rows.                        *)
LEMMA Inserted ==
  ASSUME NEW S, NEW s \in Seq(S), NEW w \in S, NEW i \in 1 .. Len(s) + 1
  PROVE  /\ InsertAt(s, i, w) \in Seq(S)
         /\ Len(InsertAt(s, i, w)) = Len(s) + 1
         /\ \A k \in 1 .. Len(s) + 1 :
              InsertAt(s, i, w)[k] = IF k < i THEN s[k] ELSE IF k = i THEN w ELSE s[k - 1]
<1> DEFINE before == SubSeq(s, 1, i - 1)
           after  == SubSeq(s, i, Len(s))
<1>1. Len(s) \in Nat /\ i - 1 \in Int /\ i \in Int /\ \A k \in 1 .. Len(s) : s[k] \in S
  OBVIOUS
<1>2. /\ before \in Seq(S) /\ Len(before) = i - 1
      /\ \A k \in 1 .. i - 1 : before[k] = s[k]
  <2>1. \A k \in 1 .. i - 1 : s[k] \in S
    BY <1>1
  <2>2. /\ before \in Seq(S) /\ Len(before) = IF 1 <= i - 1 THEN (i - 1) - 1 + 1 ELSE 0
        /\ \A k \in 1 .. (i - 1) - 1 + 1 : before[k] = s[1 + k - 1]
    BY <1>1, <2>1, SubSeqProperties
  <2>3. (i - 1) - 1 + 1 = i - 1 /\ \A k \in 1 .. i - 1 : 1 + k - 1 = k
    BY <1>1
  <2> HIDE DEF before
  <2> QED
    BY <1>1, <2>2, <2>3
<1>3. /\ after \in Seq(S) /\ Len(after) = Len(s) - i + 1
      /\ \A k \in 1 .. Len(s) - i + 1 : after[k] = s[i + k - 1]
  <2>1. \A k \in i .. Len(s) : s[k] \in S
    BY <1>1
  <2>2. /\ after \in Seq(S) /\ Len(after) = IF i <= Len(s) THEN Len(s) - i + 1 ELSE 0
        /\ \A k \in 1 .. Len(s) - i + 1 : after[k] = s[i + k - 1]
    BY <1>1, <2>1, SubSeqProperties
  <2> HIDE DEF after
  <2> QED
    BY <1>1, <2>2
<1>4. InsertAt(s, i, w) = (before \o <<w>>) \o after
  BY DEF InsertAt
<1> HIDE DEF before, after
<1>5. <<w>> \in Seq(S) /\ Len(<<w>>) = 1 /\ <<w>>[1] = w
  OBVIOUS
<1> DEFINE first == before \o <<w>>
<1>6. /\ first \in Seq(S) /\ Len(first) = i
      /\ \A k \in 1 .. i : first[k] = IF k < i THEN s[k] ELSE w
  <2>1. /\ first \in Seq(S) /\ Len(first) = (i - 1) + 1
        /\ \A k \in 1 .. (i - 1) + 1 :
             first[k] = IF k <= i - 1 THEN before[k] ELSE <<w>>[k - (i - 1)]
    BY <1>2, <1>5, ConcatProperties
  <2> HIDE DEF first
  <2>2. Len(first) = i /\ (i - 1) + 1 = i
    BY <1>1, <2>1
  <2>3. ASSUME NEW k \in 1 .. i
        PROVE  first[k] = IF k < i THEN s[k] ELSE w
    <3>1. k <= i - 1 <=> k < i
      BY <1>1
    <3>2. k < i => k \in 1 .. i - 1
      BY <1>1
    <3>3. ~(k < i) => k - (i - 1) = 1
      BY <1>1
    <3> QED
      BY <1>2, <1>5, <2>1, <2>2, <3>1, <3>2, <3>3
  <2> QED
    BY <2>1, <2>2, <2>3
<1> HIDE DEF first
<1>7. InsertAt(s, i, w) = first \o after
  BY <1>4 DEF first
<1>8. /\ first \o after \in Seq(S) /\ Len(first \o after) = Len(s) + 1
      /\ \A k \in 1 .. Len(s) + 1 :
           (first \o after)[k] = IF k <= i THEN first[k] ELSE after[k - i]
  <2>1. /\ first \o after \in Seq(S) /\ Len(first \o after) = Len(first) + Len(after)
        /\ \A k \in 1 .. Len(first) + Len(after) :
             (first \o after)[k] = IF k <= Len(first) THEN first[k] ELSE after[k - Len(first)]
    BY <1>3, <1>6, ConcatProperties
  <2>2. Len(first) + Len(after) = Len(s) + 1
    BY <1>1, <1>3, <1>6
  <2> QED
    BY <1>6, <2>1, <2>2
<1>9. ASSUME NEW k \in 1 .. Len(s) + 1
      PROVE  InsertAt(s, i, w)[k] = IF k < i THEN s[k] ELSE IF k = i THEN w ELSE s[k - 1]
  <2>1. CASE k <= i
    BY <1>6, <1>7, <1>8, <2>1
  <2>2. CASE k > i
    <3>1. k - i \in 1 .. Len(s) - i + 1 /\ i + (k - i) - 1 = k - 1
      BY <1>1, <2>2
    <3> QED
      BY <1>1, <1>3, <1>7, <1>8, <2>2, <3>1
  <2> QED
    BY <1>1, <2>1, <2>2
<1> QED
  BY <1>7, <1>8, <1>9

Without(s, i, j) == SubSeq(s, 1, i - 1) \o SubSeq(s, j + 1, Len(s))

LEMMA Removed ==
  ASSUME NEW S, NEW s \in Seq(S), NEW i \in DOMAIN s, NEW j \in DOMAIN s, i <= j
  PROVE  /\ Without(s, i, j) \in Seq(S)
         /\ Len(Without(s, i, j)) = Len(s) - (j - i + 1)
         /\ \A k \in 1 .. Len(Without(s, i, j)) :
              Without(s, i, j)[k] = IF k < i THEN s[k] ELSE s[k + (j - i + 1)]
<1> DEFINE t == Without(s, i, j)
           before == SubSeq(s, 1, i - 1)
           after  == SubSeq(s, j + 1, Len(s))
<1>1. /\ Len(s) \in Nat /\ i \in 1 .. Len(s) /\ j \in 1 .. Len(s)
      /\ \A k \in 1 .. Len(s) : s[k] \in S
  OBVIOUS
<1>2. /\ before \in Seq(S) /\ Len(before) = i - 1
      /\ \A k \in 1 .. i - 1 : before[k] = s[k]
  <2>1. (\A k \in 1 .. i - 1 : s[k] \in S) /\ i - 1 \in Int
    BY <1>1
  <2>2. /\ before \in Seq(S) /\ Len(before) = IF 1 <= i - 1 THEN (i - 1) - 1 + 1 ELSE 0
        /\ \A k \in 1 .. (i - 1) - 1 + 1 : before[k] = s[1 + k - 1]
    BY <2>1, SubSeqProperties
  <2>3. (i - 1) - 1 + 1 = i - 1 /\ \A k \in 1 .. i - 1 : 1 + k - 1 = k
    BY <1>1
  <2> HIDE DEF before
  <2> QED
    BY <1>1, <2>2, <2>3
<1>3. /\ after \in Seq(S) /\ Len(after) = Len(s) - j
      /\ \A k \in 1 .. Len(s) - j : after[k] = s[j + k]
  <2>1. (\A k \in j + 1 .. Len(s) : s[k] \in S) /\ j + 1 \in Int /\ Len(s) \in Int
    BY <1>1
  <2>2. /\ after \in Seq(S) /\ Len(after) = IF j + 1 <= Len(s) THEN Len(s) - (j + 1) + 1 ELSE 0
        /\ \A k \in 1 .. Len(s) - (j + 1) + 1 : after[k] = s[(j + 1) + k - 1]
    BY <2>1, SubSeqProperties
  <2>3. Len(s) - (j + 1) + 1 = Len(s) - j /\ \A k \in 1 .. Len(s) - j : (j + 1) + k - 1 = j + k
    BY <1>1
  <2> HIDE DEF after
  <2>4. Len(after) = Len(s) - j
    BY <1>1, <2>2
  <2>5. \A k \in 1 .. Len(s) - j : after[k] = s[j + k]
    <3> TAKE k \in 1 .. Len(s) - j
    <3>1. k \in 1 .. Len(s) - (j + 1) + 1 /\ (j + 1) + k - 1 = j + k
      BY <2>3
    <3> QED
      BY <2>2, <3>1
  <2> QED
    BY <2>2, <2>4, <2>5
<1>4. t = before \o after
  BY DEF Without
<1> HIDE DEF before, after, t
<1>5. /\ t \in Seq(S) /\ Len(t) = (i - 1) + (Len(s) - j)
      /\ \A k \in 1 .. (i - 1) + (Len(s) - j) :
           t[k] = IF k <= i - 1 THEN before[k] ELSE after[k - (i - 1)]
  <2>1. /\ before \o after \in Seq(S) /\ Len(before \o after) = Len(before) + Len(after)
        /\ \A k \in 1 .. Len(before) + Len(after) :
             (before \o after)[k] = IF k <= Len(before) THEN before[k] ELSE after[k - Len(before)]
    BY <1>2, <1>3, ConcatProperties
  <2> QED
    BY <1>2, <1>3, <1>4, <2>1
<1>6. Len(t) = Len(s) - (j - i + 1)
  <2>1. (i - 1) + (Len(s) - j) = Len(s) - (j - i + 1)
    BY <1>1
  <2> QED
    BY <1>5, <2>1
<1>7. ASSUME NEW k \in 1 .. Len(t)
      PROVE  t[k] = IF k < i THEN s[k] ELSE s[k + (j - i + 1)]
  <2>1. CASE k < i
    BY <1>1, <1>2, <1>5, <2>1
  <2>2. CASE ~(k < i)
    <3>1. k \in 1 .. (i - 1) + (Len(s) - j)
      BY <1>5
    <3>2. k - (i - 1) \in 1 .. Len(s) - j
      BY <1>1, <2>2, <3>1
    <3>3. j + (k - (i - 1)) = k + (j - i + 1) /\ ~(k <= i - 1)
      <4>1. k \in Int /\ i \in Int /\ j \in Int
        BY <1>1, <3>1
      <4>2. j + (k - (i - 1)) = k + (j - i + 1)
        BY <4>1
      <4>3. ~(k <= i - 1)
        BY <2>2, <4>1
      <4> QED
        BY <4>2, <4>3
    <3>4. t[k] = after[k - (i - 1)]
      BY <1>5, <3>1, <3>3
    <3> QED
      BY <1>3, <2>2, <3>2, <3>3, <3>4
  <2> QED
    BY <2>1, <2>2
<1> QED
  BY <1>5, <1>6, <1>7 DEF t

-----------------------------------------------------------------------------
(* The same of the rows, in the order of their places.                     *)
LEMMA RowsInOrder ==
  ASSUME NEW S, NEW s \in Seq(S)
  PROVE  /\ IsInjective(s) <=> \A p, q \in 1 .. Len(s) : p < q => s[p] # s[q]
         /\ Together(s) <=>
              \A p, q \in 1 .. Len(s) : p < q /\ s[p].record = s[q].record => q = p + 1
<1>1. Len(s) \in Nat /\ DOMAIN s = 1 .. Len(s)
  OBVIOUS
<1>2. \A p, q \in 1 .. Len(s) : p = q \/ p < q \/ q < p
  BY <1>1
<1>3. \A p, q \in 1 .. Len(s) : p < q => (q = p + 1 <=> q \in p - 1 .. p + 1)
  BY <1>1
<1>4. \A p, q \in 1 .. Len(s) : p < q => (q = p + 1 <=> p \in q - 1 .. q + 1)
  BY <1>1
<1>5. \A p \in 1 .. Len(s) : p \in p - 1 .. p + 1 /\ ~(p < p)
  BY <1>1
<1>6. IsInjective(s) <=> \A p, q \in 1 .. Len(s) : p < q => s[p] # s[q]
  BY <1>1, <1>2, <1>5 DEF IsInjective
<1>7. Together(s) <=>
        \A p, q \in 1 .. Len(s) : p < q /\ s[p].record = s[q].record => q = p + 1
  BY <1>1, <1>2, <1>3, <1>4, <1>5 DEF Together
<1> QED
  BY <1>6, <1>7

LEMMA ListingInitInv ==
  ASSUME ListingInit
  PROVE  ListingInv
<1> USE DEF ListingInit
<1>1. /\ kind \in Kinds /\ rows = <<>> /\ fixed = <<>> /\ change = {}
      /\ walk.at = "idle" /\ walk.page = 1 /\ walk.limit = 0 /\ walk.seen = <<>>
  OBVIOUS
<1>2. <<>> \in Seq(Rows(kind)) /\ DOMAIN rows = {}
  OBVIOUS
<1>3. walk \in Walks
  BY <1>2 DEF Walks
<1>4. walk.page <= MaxPage
  BY ListingAssumption
<1>5. Typed
  BY <1>1, <1>2, <1>3, <1>4 DEF Typed
<1>6. IsInjective(rows) /\ Together(rows)
  BY <1>2 DEF IsInjective, Together
<1> HIDE DEF ListingInit
<1> QED
  BY <1>1, <1>5, <1>6
     DEF ListingInv, WalkBegins, NotTooMany, SeenOrToCome, SeenSoFar, Walking

(* An insertion puts a row before or behind another.                       *)
LEMMA InsertInv ==
  ASSUME ListingInv, NEW w \in Rows(kind), Insert(w)
  PROVE  ListingInv'
<1> USE DEF ListingInv
<1>1. /\ rows \in Seq(Rows(kind)) /\ Len(rows) \in Nat /\ DOMAIN rows = 1 .. Len(rows)
      /\ \A p \in 1 .. Len(rows) : rows[p] \in Rows(kind)
      /\ kind' = kind /\ walk' = walk /\ fixed' = fixed /\ change' = change \cup {"insert"}
  BY DEF Typed, Insert
<1>2. PICK i \in 1 .. Len(rows) + 1 :
        /\ w.user = 2 => i > 1 /\ rows[i - 1].record = w.record
        /\ w.user = 1 /\ i \in 2 .. Len(rows) => rows[i - 1].record # rows[i].record
        /\ rows' = InsertAt(rows, i, w)
  BY DEF Insert
<1>3. /\ rows' \in Seq(Rows(kind)) /\ Len(rows') = Len(rows) + 1
      /\ \A k \in 1 .. Len(rows) + 1 :
           rows'[k] = IF k < i THEN rows[k] ELSE IF k = i THEN w ELSE rows[k - 1]
  <2>1. rows \in Seq(Rows(kind)) /\ rows' = InsertAt(rows, i, w)
    BY <1>1, <1>2
  <2>2. /\ InsertAt(rows, i, w) \in Seq(Rows(kind))
        /\ Len(InsertAt(rows, i, w)) = Len(rows) + 1
        /\ \A k \in 1 .. Len(rows) + 1 :
             InsertAt(rows, i, w)[k]
               = IF k < i THEN rows[k] ELSE IF k = i THEN w ELSE rows[k - 1]
    <3> HIDE DEF ListingInv
    <3> QED
      BY <2>1, Inserted
  <2> QED
    BY <2>1, <2>2, Zenon
<1>4. DOMAIN rows' = 1 .. Len(rows) + 1
  <2>1. DOMAIN rows' = 1 .. Len(rows')
    BY <1>3
  <2> QED
    BY <1>3, <2>1
<1>o. /\ \A p, q \in 1 .. Len(rows) : p < q => rows[p] # rows[q]
      /\ \A p, q \in 1 .. Len(rows) : p < q /\ rows[p].record = rows[q].record => q = p + 1
  BY <1>1, RowsInOrder
<1>n. /\ i \in Nat
      /\ \A k \in 1 .. Len(rows) + 1 :
           /\ k \in Nat
           /\ k < i => k \in 1 .. Len(rows) /\ rows'[k] = rows[k]
           /\ k = i => rows'[k] = w
           /\ k > i => k - 1 \in 1 .. Len(rows) /\ rows'[k] = rows[k - 1]
  <2>1. i \in Nat
    BY <1>1
  <2>2. \A k \in 1 .. Len(rows) + 1 :
          /\ k \in Nat
          /\ k < i => k \in 1 .. Len(rows)
          /\ k = i => ~(k < i)
          /\ k > i => k - 1 \in 1 .. Len(rows) /\ ~(k < i) /\ k # i
    BY <1>1
  <2> QED
    BY <1>3, <2>1, <2>2
<1>5. \A p \in DOMAIN rows : rows[p] # w
  <2>1. CASE w.record \notin RecordsIn(rows)
    BY <2>1 DEF RecordsIn
  <2>2. CASE ~Contains(rows, w)
    BY <1>1, <2>2 DEF Contains
  <2> QED
    BY <2>1, <2>2 DEF Insert
<1>6. \A p \in DOMAIN rows : rows[p].record = w.record => p = i - 1
  <2>1. CASE w.record \notin RecordsIn(rows)
    BY <2>1 DEF RecordsIn
  <2>2. CASE w.user = 2
    <3>1. ASSUME NEW p \in DOMAIN rows, rows[p].record = w.record
          PROVE  rows[p] = [w EXCEPT !.user = 1]
      BY <1>1, <1>5, <2>2, <3>1 DEF Rows
    <3>2. i - 1 \in DOMAIN rows /\ rows[i - 1].record = w.record
      BY <1>1, <1>2, <2>2
    <3> QED
      BY <3>1, <3>2 DEF IsInjective
  <2> QED
    BY <2>1, <2>2 DEF Insert
<1>7. i \in 2 .. Len(rows) => rows[i - 1].record # rows[i].record
  <2>1. w.user \in {1, 2}
    BY DEF Rows
  <2>2. CASE w.user = 2 /\ i \in 2 .. Len(rows)
    BY <1>1, <1>2, <1>6, <2>2
  <2> QED
    BY <1>2, <2>1, <2>2
<1>8. IsInjective(rows)'
  <2> SUFFICES ASSUME NEW p \in 1 .. Len(rows) + 1, NEW q \in 1 .. Len(rows) + 1,
                      rows'[p] = rows'[q], p < q
               PROVE  FALSE
    BY <1>3, RowsInOrder
  <2>1. CASE p = i \/ q = i
    BY <1>1, <1>n, <1>5, <2>1
  <2>2. CASE p > i
    <3>1. q > i /\ p - 1 < q - 1
      BY <1>n, <2>2
    <3> QED
      BY <1>n, <1>o, <2>2, <3>1
  <2>3. CASE p < i /\ q > i
    <3>1. p < q - 1 \/ p = q - 1
      BY <1>n, <2>3
    <3> QED
      BY <1>n, <1>o, <1>7, <2>3, <3>1
  <2>4. CASE q < i
    <3>1. p < i
      BY <1>n, <2>4
    <3> QED
      BY <1>n, <1>o, <2>4, <3>1
  <2> QED
    BY <1>n, <2>1, <2>2, <2>3, <2>4
<1>9. Together(rows)'
  <2> SUFFICES ASSUME NEW p \in 1 .. Len(rows) + 1, NEW q \in 1 .. Len(rows) + 1,
                      rows'[p].record = rows'[q].record, p < q
               PROVE  q = p + 1
    BY <1>3, RowsInOrder
  <2>1. CASE p = i
    <3>1. rows'[p] = w /\ rows'[q] = rows[q - 1] /\ q - 1 \in DOMAIN rows
      BY <1>1, <1>n, <2>1
    <3>2. q - 1 = i - 1
      BY <1>6, <3>1
    <3> QED
      BY <1>n, <2>1, <3>2
  <2>2. CASE q = i
    <3>1. rows'[q] = w /\ rows'[p] = rows[p] /\ p \in DOMAIN rows
      BY <1>1, <1>n, <2>2
    <3>2. p = i - 1
      BY <1>6, <3>1
    <3> QED
      BY <1>n, <2>2, <3>2
  <2>3. CASE p > i
    <3>1. q > i /\ p - 1 < q - 1
      BY <1>n, <2>3
    <3>2. q - 1 = (p - 1) + 1
      BY <1>n, <1>o, <2>3, <3>1
    <3> QED
      BY <1>n, <3>2
  <2>4. CASE q < i
    <3>1. p < i
      BY <1>n, <2>4
    <3> QED
      BY <1>n, <1>o, <2>4, <3>1
  <2>5. CASE p < i /\ i < q
    <3>1. /\ rows'[p] = rows[p] /\ rows'[q] = rows[q - 1]
          /\ p \in 1 .. Len(rows) /\ q - 1 \in 1 .. Len(rows)
      BY <1>n, <2>5
    <3>2. p < q - 1 \/ p = q - 1
      BY <1>n, <2>5
    <3>3. p < q - 1 => q - 1 = p + 1
      BY <1>o, <3>1
    <3>4. p = q - 1 => FALSE
      BY <1>n, <2>5
    <3>5. p = i - 1 /\ q - 1 = i /\ i \in 2 .. Len(rows)
      BY <1>n, <2>5, <3>1, <3>2, <3>3, <3>4
    <3> QED
      BY <1>7, <3>1, <3>5
  <2> QED
    BY <1>n, <2>1, <2>2, <2>3, <2>4, <2>5
<1>10. Typed'
  BY <1>1, <1>3 DEF Typed, Walks, Rows
<1>11. /\ PageIsRead' = PageIsRead /\ Covered' = Covered /\ Walking' = Walking
       /\ WalkBegins' /\ NotTooMany'
  BY <1>1 DEF PageIsRead, Covered, Walking, WalkBegins, NotTooMany, Offset
<1>12. \A v : ToCome(v) => ToCome(v)'
  <2> SUFFICES ASSUME NEW v, ToCome(v)
               PROVE  ToCome(v)'
    OBVIOUS
  <2>1. PICK p \in DOMAIN rows : p > Covered /\ rows[p] = v
    BY DEF ToCome
  <2>2. Covered \in Nat
    BY Offsets DEF Typed, Walks, Covered
  <2>3. \E q \in DOMAIN rows' : q > Covered /\ rows'[q] = v
    <3>1. CASE p < i
      BY <1>1, <1>3, <1>4, <2>1, <3>1
    <3>2. CASE p >= i
      <4>1. p + 1 \in DOMAIN rows' /\ rows'[p + 1] = rows[p] /\ p + 1 > Covered
        BY <1>1, <1>3, <1>4, <2>1, <2>2, <3>2
      <4> QED
        BY <2>1, <4>1
    <3> QED
      BY <1>1, <3>1, <3>2
  <2> QED
    BY <1>1, <1>11, <2>3 DEF ToCome
<1>13. SeenOrToCome'
  BY <1>1, <1>11, <1>12 DEF SeenOrToCome
<1>14. SeenSoFar'
  BY <1>1 DEF SeenSoFar, Still
<1> QED
  BY <1>8, <1>9, <1>10, <1>11, <1>13, <1>14

(* A deletion takes out the rows of one record.                            *)
LEMMA DeleteInv ==
  ASSUME ListingInv, NEW r \in Records, Delete(r)
  PROVE  ListingInv'
<1> USE DEF ListingInv
<1>1. /\ rows \in Seq(Rows(kind)) /\ Len(rows) \in Nat /\ DOMAIN rows = 1 .. Len(rows)
      /\ kind' = kind /\ walk' = walk /\ fixed' = fixed /\ change' = change \cup {"delete"}
  BY DEF Typed, Delete
<1>2. PICK i \in DOMAIN rows, j \in DOMAIN rows :
        /\ i <= j /\ {p \in DOMAIN rows : rows[p].record = r} = i .. j
        /\ rows' = SubSeq(rows, 1, i - 1) \o SubSeq(rows, j + 1, Len(rows))
  BY DEF Delete
<1>3. /\ rows' \in Seq(Rows(kind))
      /\ Len(rows') = Len(rows) - (j - i + 1)
      /\ \A k \in 1 .. Len(rows') :
           rows'[k] = IF k < i THEN rows[k] ELSE rows[k + (j - i + 1)]
  <2>1. /\ rows \in Seq(Rows(kind)) /\ i \in DOMAIN rows /\ j \in DOMAIN rows /\ i <= j
        /\ rows' = SubSeq(rows, 1, i - 1) \o SubSeq(rows, j + 1, Len(rows))
    BY <1>1, <1>2
  <2>2. rows' = Without(rows, i, j)
    BY <2>1 DEF Without
  <2>3. /\ Without(rows, i, j) \in Seq(Rows(kind))
        /\ Len(Without(rows, i, j)) = Len(rows) - (j - i + 1)
        /\ \A k \in 1 .. Len(Without(rows, i, j)) :
             Without(rows, i, j)[k] = IF k < i THEN rows[k] ELSE rows[k + (j - i + 1)]
    BY <2>1, Removed
  <2> QED
    BY <2>2, <2>3, Zenon
<1>4. Len(rows') \in Nat /\ DOMAIN rows' = 1 .. Len(rows')
  BY <1>3
<1>5. i \in 1 .. Len(rows) /\ j \in 1 .. Len(rows)
  BY <1>1, <1>2
<1>o. /\ \A p, q \in 1 .. Len(rows) : p < q => rows[p] # rows[q]
      /\ \A p, q \in 1 .. Len(rows) : p < q /\ rows[p].record = rows[q].record => q = p + 1
  BY <1>1, RowsInOrder
<1>n. i \in Nat /\ j \in Nat /\ (\A k \in 1 .. Len(rows') : k \in Nat)
  BY <1>1, <1>4, <1>5
<1>6. \A k \in 1 .. Len(rows') :
        /\ k < i => k \in 1 .. Len(rows) /\ rows'[k] = rows[k]
        /\ ~(k < i) => k + (j - i + 1) \in 1 .. Len(rows) /\ rows'[k] = rows[k + (j - i + 1)]
  <2>1. \A k \in 1 .. Len(rows') :
          /\ k < i => k \in 1 .. Len(rows)
          /\ ~(k < i) => k + (j - i + 1) \in 1 .. Len(rows)
    <3>1. Len(rows') = Len(rows) - (j - i + 1)
      BY <1>3
    <3> QED
      BY <1>1, <1>2, <1>5, <1>n, <3>1
  <2> QED
    BY <1>3, <2>1
<1>s. ASSUME NEW p \in 1 .. Len(rows'), NEW q \in 1 .. Len(rows'), p < q
      PROVE  \/ q < i /\ p < i
             \/ ~(p < i) /\ ~(q < i) /\ p + (j - i + 1) < q + (j - i + 1)
             \/ p < i /\ ~(q < i) /\ p + 1 < q + (j - i + 1)
  BY <1>2, <1>n, <1>s
<1>7. IsInjective(rows)'
  <2> SUFFICES ASSUME NEW p \in 1 .. Len(rows'), NEW q \in 1 .. Len(rows'),
                      rows'[p] = rows'[q], p < q
               PROVE  FALSE
    BY <1>3, RowsInOrder
  <2>1. CASE p < i /\ ~(q < i)
    <3>1. p < q + (j - i + 1)
      BY <1>2, <1>n, <2>1
    <3> QED
      BY <1>o, <1>6, <2>1, <3>1
  <2>2. CASE q < i /\ p < i
    BY <1>o, <1>6, <2>2
  <2>3. CASE ~(p < i) /\ ~(q < i)
    <3>1. p + (j - i + 1) < q + (j - i + 1)
      BY <1>n
    <3>2. /\ rows'[p] = rows[p + (j - i + 1)] /\ p + (j - i + 1) \in 1 .. Len(rows)
          /\ rows'[q] = rows[q + (j - i + 1)] /\ q + (j - i + 1) \in 1 .. Len(rows)
      BY <1>6, <2>3
    <3> QED
      BY <1>o, <3>1, <3>2
  <2> QED
    BY <1>s, <2>1, <2>2, <2>3
<1>8. Together(rows)'
  <2> SUFFICES ASSUME NEW p \in 1 .. Len(rows'), NEW q \in 1 .. Len(rows'),
                      rows'[p].record = rows'[q].record, p < q
               PROVE  q = p + 1
    BY <1>3, RowsInOrder
  <2>1. CASE q < i /\ p < i
    BY <1>o, <1>6, <2>1
  <2>2. CASE ~(p < i) /\ ~(q < i)
    <3>1. p + (j - i + 1) < q + (j - i + 1)
      BY <1>n
    <3>2. q + (j - i + 1) = (p + (j - i + 1)) + 1
      BY <1>o, <1>6, <2>2, <3>1
    <3> QED
      BY <1>n, <3>2
  <2>3. CASE p < i /\ ~(q < i)
    <3>1. p + 1 < q + (j - i + 1) /\ p < q + (j - i + 1)
      BY <1>2, <1>n, <2>3
    <3>2. q + (j - i + 1) = p + 1
      BY <1>o, <1>6, <2>3, <3>1
    <3> QED
      BY <1>n, <3>1, <3>2
  <2> QED
    BY <1>s, <2>1, <2>2, <2>3
<1>9. Typed'
  BY <1>1, <1>3 DEF Typed, Walks, Rows
<1>10. PageIsRead' = PageIsRead /\ Covered' = Covered /\ WalkBegins' /\ NotTooMany'
  BY <1>1 DEF PageIsRead, Covered, Walking, WalkBegins, NotTooMany, Offset
<1>11. SeenOrToCome' /\ SeenSoFar'
  BY <1>1 DEF SeenOrToCome, SeenSoFar, Still
<1> QED
  BY <1>7, <1>8, <1>9, <1>10, <1>11

-----------------------------------------------------------------------------
(* The walk begins: nothing is read.                                       *)
LEMMA StartWalkInv ==
  ASSUME ListingInv, NEW limit \in 0 .. MaxLimit, StartWalk(limit)
  PROVE  ListingInv'
<1> USE DEF ListingInv
<1>1. /\ kind' = kind /\ rows' = rows /\ fixed' = rows /\ change' = {}
      /\ walk' = [walk EXCEPT !.at = FirstCall, !.limit = limit]
      /\ walk.seen = <<>> /\ walk.page = 1
  BY DEF StartWalk, WalkBegins
<1>2. limit \in Nat /\ walk \in Walks
  BY ListingAssumption DEF Typed
<1>3. /\ walk'.at = FirstCall /\ walk'.limit = limit /\ walk'.page = 1
      /\ walk'.seen = <<>> /\ walk'.total = walk.total
  BY <1>1, <1>2 DEF Walks
<1>4. Typed'
  <2>1. FirstCall \in {"find", "count"}
    BY DEF FirstCall
  <2>2. walk' \in Walks
    BY <1>1, <1>2, <2>1 DEF Walks
  <2> QED
    BY <1>1, <1>3, <2>2 DEF Typed, Walks, Rows
<1>5. IsInjective(rows)' /\ Together(rows)'
  BY <1>1 DEF IsInjective, Together
<1>6. ~PageIsRead' /\ walk'.at # "over" /\ walk'.at # "idle"
  BY <1>1, <1>3 DEF PageIsRead, FirstCall
<1>7. Covered' = 0 /\ Offset(walk'.limit, walk'.page) = 0
  BY <1>2, <1>3, <1>6, Offsets DEF Covered, Offset
<1>8. rows \in Seq(Rows(kind)) /\ Len(rows) \in Nat /\ DOMAIN rows = 1 .. Len(rows)
  BY DEF Typed
<1>9. WalkBegins' /\ NotTooMany'
  BY <1>3, <1>6, <1>7 DEF WalkBegins, NotTooMany
<1>10. SeenOrToCome'
  <2>1. \A i \in DOMAIN rows : ToCome(rows[i])'
    BY <1>1, <1>6, <1>7, <1>8 DEF ToCome
  <2> QED
    BY <1>1, <2>1 DEF SeenOrToCome
<1>11. SeenSoFar'
  <2>1. SubSeq(rows, 1, 0) = <<>>
    BY SubSeqEmpty
  <2>2. ~(kind' = "telemetry" /\ walk'.at = "find")
    BY <1>1, <1>3 DEF FirstCall
  <2>3. Offset(walk'.limit, walk'.page) <= Len(rows)
    BY <1>7, <1>8
  <2> QED
    BY <1>1, <1>3, <1>6, <1>7, <2>1, <2>2, <2>3 DEF SeenSoFar
<1> QED
  BY <1>4, <1>5, <1>9, <1>10, <1>11

(* Between the calls, the total is at most the number of the rows, and     *)
(* just that in a listing that has one row for each record.                *)
LEMMA TotalIsRows ==
  ASSUME ListingInv
  PROVE  /\ Total \in Nat /\ Total <= Len(rows)
         /\ kind # "telemetry" => Total = Len(rows)
<1> USE DEF ListingInv
<1>1. rows \in Seq(Rows(kind))
  BY DEF Typed
<1>2. Total \in Nat /\ Total <= Len(rows)
  BY <1>1, RecordsFinite DEF Total
<1>3. ASSUME kind # "telemetry"
      PROVE  Total = Len(rows)
  <2>1. \A v, w \in Rows(kind) : v.record = w.record => v = w
    BY <1>3 DEF Rows
  <2>2. \A i \in DOMAIN rows : rows[i] \in Rows(kind)
    BY <1>1
  <2>3. \A i, j \in DOMAIN rows : rows[i].record = rows[j].record => i = j
    BY <2>1, <2>2 DEF IsInjective
  <2> QED
    BY <1>1, <2>3, RowPerRecord DEF Total
<1> QED
  BY <1>2, <1>3

(* The answer after the second call.                                       *)
LastPage(w) == w.limit = 0 \/ w.page * w.limit >= w.total

LEMMA AnswerGiven ==
  ASSUME NEW w \in Walks, NEW call, FirstCall # call
  PROVE  /\ LastPage(w) => Answered(w, call) = [w EXCEPT !.at = "over"]
         /\ ~LastPage(w) => Answered(w, call) = [w EXCEPT !.at = FirstCall, !.page = w.page + 1]
BY DEF Answered, NextPage, LastPage

LEMMA PageFailsInv ==
  ASSUME ListingInv, PageFails
  PROVE  ListingInv'
<1> USE DEF ListingInv
<1>1. /\ kind' = kind /\ rows' = rows /\ fixed' = fixed /\ change' = change
      /\ walk' = [walk EXCEPT !.at = "failed"] /\ walk.at \in {"find", "count"}
  BY DEF PageFails
<1>2. walk \in Walks
  BY DEF Typed
<1>3. /\ walk'.at = "failed" /\ walk'.limit = walk.limit /\ walk'.page = walk.page
      /\ walk'.seen = walk.seen /\ walk' \in Walks
  BY <1>1, <1>2 DEF Walks
<1>4. Typed'
  BY <1>1, <1>3 DEF Typed, Walks, Rows
<1>5. IsInjective(rows)' /\ Together(rows)'
  BY <1>1 DEF IsInjective, Together
<1>6. NotTooMany'
  <2>1. Covered' = walk.page * walk.limit
    BY <1>3 DEF Covered, PageIsRead
  <2>2. Len(walk.seen) \in Nat /\ walk.limit \in Nat /\ walk.page \in Nat \ {0}
    BY <1>2 DEF Walks
  <2>3. /\ Offset(walk.limit, walk.page) \in Nat /\ walk.page * walk.limit \in Nat
        /\ walk.page * walk.limit = Offset(walk.limit, walk.page) + walk.limit
    BY <2>2, Offsets
  <2>4. Covered \in Nat /\ Covered <= walk.page * walk.limit
    BY <2>2, <2>3 DEF Covered
  <2> QED
    BY <1>3, <2>1, <2>2, <2>3, <2>4 DEF NotTooMany, Walking
<1> QED
  BY <1>3, <1>4, <1>5, <1>6 DEF WalkBegins, SeenOrToCome, SeenSoFar, Walking

-----------------------------------------------------------------------------
(* The page that is read adds the rows from the offset on.                 *)
LEMMA FindPageInv ==
  ASSUME ListingInv, FindPage
  PROVE  ListingInv'
<1> USE DEF ListingInv
<1> DEFINE l == walk.limit
           p == walk.page
           o == Offset(l, p)
           page == Page(l, p)
           w == [walk EXCEPT !.seen = walk.seen \o page]
<1>1. /\ kind' = kind /\ rows' = rows /\ fixed' = fixed /\ change' = change
      /\ walk.at = "find" /\ walk' = Answered(w, "find") /\ walk'.page <= MaxPage
  BY DEF FindPage
<1>2. /\ walk \in Walks /\ l \in Nat /\ p \in Nat \ {0} /\ p + 1 \in Nat \ {0}
      /\ rows \in Seq(Rows(kind)) /\ walk.seen \in Seq(Rows(kind))
      /\ Len(rows) \in Nat /\ Len(walk.seen) \in Nat /\ DOMAIN rows = 1 .. Len(rows)
  BY DEF Typed, Walks
<1>3. /\ page \in Seq(Rows(kind)) /\ (l > 0 => Len(page) <= l)
      /\ \A k \in DOMAIN rows : k > o /\ (l > 0 => k <= p * l) => Contains(page, rows[k])
  BY <1>2, PageRows
<1>4. /\ o \in Nat /\ p * l \in Nat /\ p * l = o + l /\ Offset(l, p + 1) = p * l
      /\ (l = 0 => o = 0)
  BY <1>2, Offsets
<1> HIDE DEF page, o
<1>5. walk.seen \o page \in Seq(Rows(kind)) /\ Len(walk.seen \o page) = Len(walk.seen) + Len(page)
  BY <1>2, <1>3, ConcatProperties
<1>6. /\ w \in Walks /\ w.limit = l /\ w.page = p /\ w.total = walk.total /\ w.at = "find"
      /\ w.seen = walk.seen \o page
  BY <1>1, <1>2, <1>5 DEF Walks
<1> HIDE DEF w
<1>7. walk' \in Walks /\ walk'.limit = l /\ walk'.seen = walk.seen \o page
      /\ walk'.total = walk.total
      /\ \/ /\ kind # "telemetry" /\ walk'.at = "count" /\ walk'.page = p
         \/ /\ kind = "telemetry" /\ walk'.at = "over" /\ walk'.page = p
            /\ (l = 0 \/ p * l >= walk.total)
         \/ /\ kind = "telemetry" /\ walk'.at = "count" /\ walk'.page = p + 1
            /\ ~(l = 0 \/ p * l >= walk.total)
  <2>1. CASE kind # "telemetry"
    <3>1. walk' = [w EXCEPT !.at = "count"]
      BY <1>1, <2>1 DEF Answered, FirstCall
    <3> QED
      BY <1>6, <2>1, <3>1 DEF Walks
  <2>2. CASE kind = "telemetry" /\ LastPage(w)
    <3>1. walk' = [w EXCEPT !.at = "over"]
      BY <1>1, <1>6, <2>2, AnswerGiven DEF FirstCall
    <3> QED
      BY <1>6, <2>2, <3>1 DEF Walks, LastPage
  <2>3. CASE kind = "telemetry" /\ ~LastPage(w)
    <3>1. walk' = [w EXCEPT !.at = "count", !.page = w.page + 1]
      BY <1>1, <1>6, <2>3, AnswerGiven DEF FirstCall
    <3> QED
      BY <1>2, <1>6, <2>3, <3>1 DEF Walks, LastPage
  <2> QED
    BY <2>1, <2>2, <2>3
<1> HIDE DEF l, p
<1>8. Typed'
  BY <1>1, <1>7 DEF Typed, Walks, Rows
<1>9. IsInjective(rows)' /\ Together(rows)'
  BY <1>1 DEF IsInjective, Together
<1>10. ~PageIsRead /\ Covered = o
  BY <1>1 DEF PageIsRead, Covered, o, l, p
<1>11. Covered' = p * l
  BY <1>1, <1>4, <1>7 DEF PageIsRead, Covered
<1>12. WalkBegins' /\ Walking
  BY <1>1, <1>7 DEF WalkBegins, Walking
<1>13. NotTooMany'
  <2>1. l > 0 => Len(walk.seen) <= o
    BY <1>10 DEF NotTooMany, l
  <2>2. l > 0 => Len(walk.seen \o page) <= p * l
    <3>1. l > 0 => Len(page) \in Nat /\ Len(page) <= l
      BY <1>3
    <3> QED
      BY <1>2, <1>4, <1>5, <2>1, <3>1
  <2>3. l = 0 => walk'.page = 1
    BY <1>7, <1>12 DEF NotTooMany, l, p
  <2> QED
    BY <1>7, <1>11, <2>2, <2>3 DEF NotTooMany
<1>14. SeenOrToCome'
  <2> SUFFICES ASSUME kind # "telemetry", "delete" \notin change, NEW i \in DOMAIN fixed
               PROVE  Contains(walk'.seen, fixed[i]) \/ ToCome(fixed[i])'
    BY <1>1 DEF SeenOrToCome
  <2>1. CASE Contains(walk.seen, fixed[i])
    <3>1. PICK k \in 1 .. Len(walk.seen) : walk.seen[k] = fixed[i]
      BY <2>1 DEF Contains
    <3>2. k \in 1 .. Len(walk.seen \o page) /\ (walk.seen \o page)[k] = fixed[i]
      BY <1>2, <1>3, <1>5, <3>1, ConcatProperties
    <3> QED
      BY <1>7, <3>2 DEF Contains
  <2>2. CASE ToCome(fixed[i])
    <3>1. PICK k \in DOMAIN rows : k > o /\ rows[k] = fixed[i]
      BY <1>10, <2>2 DEF ToCome
    <3>2. CASE l > 0 => k <= p * l
      <4>1. Contains(page, fixed[i])
        BY <1>3, <3>1, <3>2
      <4>2. PICK n \in 1 .. Len(page) : page[n] = fixed[i]
        BY <4>1 DEF Contains
      <4>3. Len(walk.seen) + n \in 1 .. Len(walk.seen) + Len(page)
            /\ ~(Len(walk.seen) + n <= Len(walk.seen)) /\ (Len(walk.seen) + n) - Len(walk.seen) = n
        BY <1>2, <1>3
      <4>4. (walk.seen \o page)[Len(walk.seen) + n] = fixed[i]
        BY <1>2, <1>3, <4>2, <4>3, ConcatProperties
      <4> QED
        BY <1>5, <1>7, <4>3, <4>4 DEF Contains
    <3>3. CASE l > 0 /\ k > p * l
      BY <1>1, <1>7, <1>11, <3>1, <3>3 DEF ToCome
    <3> QED
      BY <1>2, <1>4, <3>2, <3>3
  <2> QED
    BY <1>12, <2>1, <2>2 DEF SeenOrToCome
<1>15. SeenSoFar'
  <2> SUFFICES ASSUME Still
               PROVE  /\ rows = fixed
                      /\ Offset(walk'.limit, walk'.page) <= Len(rows)
                      /\ walk'.seen = SubSeq(rows, 1, IF PageIsRead' THEN PageEnd'
                                                     ELSE Offset(walk'.limit, walk'.page))
                      /\ walk'.at # "find"
                      /\ walk'.at = "over" => Total <= PageEnd'
    BY <1>1 DEF SeenSoFar, Still, Total
  <2> DEFINE e == IF l = 0 \/ p * l > Len(rows) THEN Len(rows) ELSE p * l
  <2>1. /\ rows = fixed /\ o <= Len(rows) /\ walk.seen = SubSeq(rows, 1, o)
        /\ kind = "telemetry" => walk.total = Total
    BY <1>1, <1>10, <1>12 DEF SeenSoFar, o, l, p
  <2>2. walk'.seen = SubSeq(rows, 1, e)
    <3>1. SubSeq(rows, 1, o) \o page = SubSeq(rows, 1, e)
      BY <1>2, <2>1, PageContinues DEF page, o
    <3> QED
      BY <1>7, <2>1, <3>1
  <2>3. Total \in Nat /\ Total <= Len(rows)
    BY TotalIsRows
  <2>4. CASE kind # "telemetry"
    <3>1. PageIsRead' /\ PageEnd' = e /\ Offset(walk'.limit, walk'.page) = o /\ walk'.at = "count"
      BY <1>1, <1>7, <2>4 DEF PageIsRead, PageEnd, o
    <3> QED
      BY <2>1, <2>2, <3>1
  <2>5. CASE kind = "telemetry" /\ walk'.at = "over"
    <3>1. PageIsRead' /\ PageEnd' = e /\ Offset(walk'.limit, walk'.page) = o
      BY <1>1, <1>7, <2>5 DEF PageIsRead, PageEnd, o
    <3>2. l = 0 \/ p * l >= Total
      BY <1>7, <2>1, <2>5
    <3>3. Total <= e
      BY <1>2, <1>4, <2>3, <3>2
    <3> QED
      BY <2>1, <2>2, <2>5, <3>1, <3>3
  <2>6. CASE kind = "telemetry" /\ walk'.at = "count"
    <3>1. ~PageIsRead' /\ Offset(walk'.limit, walk'.page) = p * l
      BY <1>1, <1>4, <1>7, <2>6 DEF PageIsRead
    <3>2. e = p * l /\ p * l <= Len(rows)
      BY <1>2, <1>4, <1>7, <2>1, <2>3, <2>6
    <3> QED
      BY <2>2, <2>1, <2>6, <3>1, <3>2
  <2> QED
    BY <1>7, <2>4, <2>5, <2>6
<1> QED
  BY <1>8, <1>9, <1>12, <1>13, <1>14, <1>15

(* The count ends the walk of users and notifications, or lets it go on.   *)
LEMMA CountRowsInv ==
  ASSUME ListingInv, CountRows
  PROVE  ListingInv'
<1> USE DEF ListingInv
<1> DEFINE l == walk.limit
           p == walk.page
           o == Offset(l, p)
           w == [walk EXCEPT !.total = Total]
<1>1. /\ kind' = kind /\ rows' = rows /\ fixed' = fixed /\ change' = change
      /\ walk.at = "count" /\ walk' = Answered(w, "count") /\ walk'.page <= MaxPage
  BY DEF CountRows
<1>2. /\ walk \in Walks /\ l \in Nat /\ p \in Nat \ {0} /\ p + 1 \in Nat \ {0}
      /\ rows \in Seq(Rows(kind)) /\ Len(rows) \in Nat /\ DOMAIN rows = 1 .. Len(rows)
  BY DEF Typed, Walks
<1>3. /\ Total \in Nat /\ Total <= Len(rows)
      /\ kind # "telemetry" => Total = Len(rows)
  BY TotalIsRows
<1>4. /\ o \in Nat /\ p * l \in Nat /\ p * l = o + l /\ Offset(l, p + 1) = p * l
      /\ (l = 0 => o = 0)
  BY <1>2, Offsets
<1> HIDE DEF o
<1>5. /\ w \in Walks /\ w.limit = l /\ w.page = p /\ w.total = Total /\ w.at = "count"
      /\ w.seen = walk.seen
  BY <1>1, <1>2, <1>3 DEF Walks
<1> HIDE DEF w
<1>6. walk' \in Walks /\ walk'.limit = l /\ walk'.seen = walk.seen /\ walk'.total = Total
      /\ \/ /\ kind = "telemetry" /\ walk'.at = "find" /\ walk'.page = p
         \/ /\ kind # "telemetry" /\ walk'.at = "over" /\ walk'.page = p
            /\ (l = 0 \/ p * l >= Total)
         \/ /\ kind # "telemetry" /\ walk'.at = "find" /\ walk'.page = p + 1
            /\ ~(l = 0 \/ p * l >= Total)
  <2>1. CASE kind = "telemetry"
    <3>1. walk' = [w EXCEPT !.at = "find"]
      BY <1>1, <2>1 DEF Answered, FirstCall
    <3> QED
      BY <1>5, <2>1, <3>1 DEF Walks
  <2>2. CASE kind # "telemetry" /\ LastPage(w)
    <3>1. walk' = [w EXCEPT !.at = "over"]
      BY <1>1, <1>5, <2>2, AnswerGiven DEF FirstCall
    <3> QED
      BY <1>5, <2>2, <3>1 DEF Walks, LastPage
  <2>3. CASE kind # "telemetry" /\ ~LastPage(w)
    <3>1. walk' = [w EXCEPT !.at = "find", !.page = w.page + 1]
      BY <1>1, <1>5, <2>3, AnswerGiven DEF FirstCall
    <3> QED
      BY <1>2, <1>5, <2>3, <3>1 DEF Walks, LastPage
  <2> QED
    BY <2>1, <2>2, <2>3
<1> HIDE DEF l, p
<1>7. Typed'
  BY <1>1, <1>6 DEF Typed, Walks, Rows
<1>8. IsInjective(rows)' /\ Together(rows)'
  BY <1>1 DEF IsInjective, Together
<1>9. CASE kind = "telemetry"
  <2>1. /\ walk'.at = "find" /\ walk'.page = p
        /\ ~PageIsRead /\ ~PageIsRead' /\ Covered = o /\ Covered' = o
        /\ Offset(walk'.limit, walk'.page) = o
    BY <1>1, <1>6, <1>9 DEF PageIsRead, Covered, o, l, p
  <2>2. WalkBegins' /\ NotTooMany' /\ SeenOrToCome'
    BY <1>1, <1>6, <1>9, <2>1
       DEF WalkBegins, NotTooMany, SeenOrToCome, Walking, l, p
  <2>3. SeenSoFar'
    <3> SUFFICES ASSUME Still
                 PROVE  rows = fixed /\ o <= Len(rows) /\ walk.seen = SubSeq(rows, 1, o)
      BY <1>1, <1>6, <2>1 DEF SeenSoFar, Still, Total
    <3> QED
      BY <1>1, <2>1 DEF SeenSoFar, Walking, o, l, p
  <2> QED
    BY <1>7, <1>8, <2>2, <2>3
<1>10. CASE kind # "telemetry"
  <2>1. PageIsRead /\ Covered = p * l /\ Covered' = p * l /\ Walking /\ Walking'
    BY <1>1, <1>4, <1>6, <1>10 DEF PageIsRead, Covered, Walking, l, p
  <2>2. WalkBegins' /\ NotTooMany'
    BY <1>1, <1>6, <2>1 DEF WalkBegins, NotTooMany, l, p
  <2>3. ASSUME "delete" \notin change, NEW i \in DOMAIN fixed, ToCome(fixed[i])
        PROVE  ToCome(fixed[i])'
    <3>1. l > 0 /\ \E k \in DOMAIN rows : k > p * l /\ rows[k] = fixed[i]
      BY <1>2, <2>1, <2>3 DEF ToCome, l
    <3>2. ~(p * l >= Total)
      BY <1>2, <1>3, <1>4, <1>10, <3>1
    <3>3. walk'.at = "find"
      BY <1>2, <1>6, <1>10, <3>1, <3>2
    <3> QED
      BY <1>1, <1>2, <1>6, <2>1, <3>1, <3>3 DEF ToCome
  <2>4. SeenOrToCome'
    BY <1>1, <1>6, <2>1, <2>3 DEF SeenOrToCome
  <2>5. SeenSoFar'
    <3> SUFFICES ASSUME Still
                 PROVE  /\ rows = fixed
                        /\ Offset(walk'.limit, walk'.page) <= Len(rows)
                        /\ walk'.seen = SubSeq(rows, 1, IF PageIsRead' THEN PageEnd'
                                                       ELSE Offset(walk'.limit, walk'.page))
                        /\ walk'.at = "over" => Total <= PageEnd'
      BY <1>1, <1>10 DEF SeenSoFar, Still, Total
    <3> DEFINE e == IF l = 0 \/ p * l > Len(rows) THEN Len(rows) ELSE p * l
    <3>1. rows = fixed /\ o <= Len(rows) /\ walk.seen = SubSeq(rows, 1, e)
      BY <2>1 DEF SeenSoFar, PageEnd, o, l, p
    <3>2. CASE walk'.at = "over"
      <4>1. PageIsRead' /\ PageEnd' = e /\ Offset(walk'.limit, walk'.page) = o
        BY <1>1, <1>6, <1>10, <3>2 DEF PageIsRead, PageEnd, o
      <4>2. l = 0 \/ p * l >= Total
        BY <1>6, <1>10, <3>2
      <4>3. Total <= e
        BY <1>2, <1>3, <1>4, <4>2
      <4> QED
        BY <1>6, <3>1, <4>1, <4>3
    <3>3. CASE walk'.at = "find"
      <4>1. ~PageIsRead' /\ Offset(walk'.limit, walk'.page) = p * l
        BY <1>1, <1>4, <1>6, <1>10, <3>3 DEF PageIsRead
      <4>2. ~(l = 0 \/ p * l >= Total)
        BY <1>6, <1>10, <3>3
      <4>3. p * l <= Len(rows)
        <5>1. \A x, y, z \in Nat : ~(x >= y) /\ y <= z => x <= z
          OBVIOUS
        <5> QED
          BY <1>2, <1>3, <1>4, <4>2, <5>1
      <4>4. e = p * l
        BY <1>2, <1>4, <4>2, <4>3
      <4> QED
        BY <1>6, <3>1, <3>3, <4>1, <4>3, <4>4
    <3> QED
      BY <1>6, <1>10, <3>2, <3>3
  <2> QED
    BY <1>7, <1>8, <2>2, <2>4, <2>5
<1> QED
  BY <1>9, <1>10

-----------------------------------------------------------------------------
LEMMA StutterInv ==
  ASSUME ListingInv, UNCHANGED listingVars
  PROVE  ListingInv'
BY DEF ListingInv, listingVars, Typed, Walks, Rows, IsInjective, Together, WalkBegins, NotTooMany,
       SeenOrToCome, SeenSoFar, ToCome, Still, Total, PageEnd, PageIsRead, Covered, Walking

(* The inductive invariant: what the pages so far cover, and that a row of *)
(* the beginning is seen or still to come.                                 *)
THEOREM ListingIsInductive == ListingSpec => []ListingInv
<1>1. ListingInit => ListingInv
  BY ListingInitInv
<1>2. ListingInv /\ [ListingNext]_listingVars => ListingInv'
  <2> SUFFICES ASSUME ListingInv, [ListingNext]_listingVars
               PROVE  ListingInv'
    OBVIOUS
  <2>1. ASSUME NEW w \in Rows(kind), Insert(w)
        PROVE  ListingInv'
    BY <2>1, InsertInv
  <2>2. ASSUME NEW r \in Records, Delete(r)
        PROVE  ListingInv'
    BY <2>2, DeleteInv
  <2>3. ASSUME NEW limit \in 0 .. MaxLimit, StartWalk(limit)
        PROVE  ListingInv'
    BY <2>3, StartWalkInv
  <2>4. CASE FindPage
    BY <2>4, FindPageInv
  <2>5. CASE CountRows
    BY <2>5, CountRowsInv
  <2>6. CASE PageFails
    BY <2>6, PageFailsInv
  <2>7. CASE UNCHANGED listingVars
    BY <2>7, StutterInv
  <2> QED
    BY <2>1, <2>2, <2>3, <2>4, <2>5, <2>6, <2>7 DEF ListingNext
<1> QED
  BY <1>1, <1>2, PTL DEF ListingSpec

(* GetAllUsers, GetAllNotification, GetAllTelemetry: no row twice, the     *)
(* rows of a document together, and no page longer than its limit,         *)
(* whatever is inserted and deleted between the calls.                     *)
THEOREM ListingTypeCorrect == ListingSpec => []ListingTypeOK
<1>1. ListingInv => ListingTypeOK
  <2> SUFFICES ASSUME ListingInv
               PROVE  ListingTypeOK
    OBVIOUS
  <2>1. /\ kind \in Kinds /\ rows \in Seq(Rows(kind)) /\ walk \in Walks
        /\ walk.page <= MaxPage /\ MaxPage \in Nat
    BY ListingAssumption DEF ListingInv, Typed
  <2>2. walk.page \in 1 .. MaxPage
    BY <2>1 DEF Walks
  <2>3. walk.limit > 0 => Len(walk.seen) <= walk.page * walk.limit
    <3>1. /\ Offset(walk.limit, walk.page) \in Nat
          /\ walk.page * walk.limit = Offset(walk.limit, walk.page) + walk.limit
          /\ walk.limit \in Nat /\ Len(walk.seen) \in Nat
      <4>1. /\ walk.limit \in Nat /\ walk.page \in Nat \ {0} /\ walk.seen \in Seq(Rows(kind))
        BY <2>1 DEF Walks
      <4>2. /\ Offset(walk.limit, walk.page) \in Nat
            /\ walk.page * walk.limit = Offset(walk.limit, walk.page) + walk.limit
        BY <4>1, Offsets
      <4>3. Len(walk.seen) \in Nat
        BY <4>1
      <4> QED
        BY <4>1, <4>2, <4>3
    <3> QED
      BY <3>1 DEF ListingInv, NotTooMany, Covered
  <2> QED
    BY <2>1, <2>2, <2>3 DEF ListingTypeOK, ListingInv, Together, Walks
<1> QED
  BY <1>1, ListingIsInductive, PTL

(* A walk over all pages of GetAllUsers or GetAllNotification misses none  *)
(* that was there when it began, whatever is inserted meanwhile.           *)
THEOREM NothingIsSkipped == ListingSpec => []NothingSkipped
<1>1. ListingInv => NothingSkipped
  BY DEF ListingInv, SeenOrToCome, ToCome, Walking, NothingSkipped
<1> QED
  BY <1>1, ListingIsInductive, PTL

(* While nothing changes, the pages of any listing are its beginning, row  *)
(* for row, and as many rows at least as there are records: all of them as *)
(* long as no device has two users.                                        *)
THEOREM PagesMakeUpListing == ListingSpec => []ListingIsExact
<1>1. ListingInv => ListingIsExact
  <2> SUFFICES ASSUME ListingInv, walk.at = "over", change = {}
               PROVE  /\ IsPrefix(walk.seen, fixed)
                      /\ Len(walk.seen) >= Cardinality(RecordsIn(fixed))
    BY DEF ListingIsExact
  <2> DEFINE e == PageEnd
  <2>1. rows = fixed /\ walk.seen = SubSeq(rows, 1, e) /\ Total <= e /\ Total \in Nat
    BY TotalIsRows DEF ListingInv, SeenSoFar, Still, Walking, PageIsRead
  <2>2. rows \in Seq(Rows(kind)) /\ Len(rows) \in Nat /\ e \in 0 .. Len(rows)
    <3>1. walk.page * walk.limit \in Nat
      BY Offsets DEF ListingInv, Typed, Walks
    <3> QED
      BY <3>1 DEF ListingInv, Typed, PageEnd
  <2> HIDE DEF e
  <2>3. Len(SubSeq(rows, 1, e)) = e
    BY <2>2
  <2>4. IsPrefix(walk.seen, fixed)
    <3>1. SubSeq(SubSeq(rows, 1, e), 1, e) = SubSeq(rows, 1, e)
      BY <2>2
    <3> QED
      BY <2>1, <2>2, <2>3, <3>1 DEF IsPrefix
  <2> QED
    BY <2>1, <2>2, <2>3, <2>4 DEF Total
<1> QED
  BY <1>1, ListingIsInductive, PTL

=============================================================================
