--------------------------- MODULE ListingProofs ---------------------------
(* Theorems about Listing, for any rows, page size and number of backends.   *)
EXTENDS WebhooksProofs, FiniteSetTheorems

(* The rank of a row in the list of the rows S.                              *)
RankIn(S, e) == Cardinality({f \in S : f > e})

Beyond(S, k) == {e \in S : RankIn(S, e) >= k}

PageOf(S, k, l) == {e \in S : RankIn(S, e) \in k .. k + l - 1}

-----------------------------------------------------------------------------
(* Lists. Ranks number the rows of a list from 0, without gaps.              *)

LEMMA RankBounds ==
    ASSUME NEW S \in SUBSET Nat, IsFiniteSet(S), NEW e \in S
    PROVE  RankIn(S, e) \in 0 .. Cardinality(S) - 1
<1> DEFINE T == {f \in S : f > e}
<1>1. IsFiniteSet(S \ {e}) /\ Cardinality(S \ {e}) = Cardinality(S) - 1
    BY FS_RemoveElement
<1>2. T \in SUBSET (S \ {e})
    OBVIOUS
<1>3. IsFiniteSet(T) /\ Cardinality(T) <= Cardinality(S \ {e})
    BY <1>1, <1>2, FS_Subset
<1>4. Cardinality(T) \in Nat /\ Cardinality(S) \in Nat
    BY <1>3, FS_CardinalityType
<1> QED
    BY <1>1, <1>3, <1>4 DEF RankIn

LEMMA RanksDiffer ==
    ASSUME NEW S \in SUBSET Nat, IsFiniteSet(S), NEW e \in S, NEW f \in S,
           e < f
    PROVE  RankIn(S, f) < RankIn(S, e)
<1> DEFINE T == {g \in S : g > e}
           U == {g \in S : g > f}
<1>1. IsFiniteSet(T)
    BY FS_Subset
<1>2. f \in T
    OBVIOUS
<1>3. IsFiniteSet(T \ {f}) /\ Cardinality(T \ {f}) = Cardinality(T) - 1
    BY <1>1, <1>2, FS_RemoveElement
<1>4. U \in SUBSET (T \ {f})
    <2>1. \A g \in S : g > f => g > e /\ g # f
        <3>1. e \in Nat /\ f \in Nat
            OBVIOUS
        <3> QED
            BY <3>1
    <2> QED
        BY <2>1
<1>5. IsFiniteSet(U) /\ Cardinality(U) <= Cardinality(T \ {f})
    BY <1>3, <1>4, FS_Subset
<1>6. Cardinality(T) \in Nat /\ Cardinality(U) \in Nat
    BY <1>1, <1>5, FS_CardinalityType
<1> QED
    BY <1>3, <1>5, <1>6 DEF RankIn

LEMMA RanksInject ==
    ASSUME NEW S \in SUBSET Nat, IsFiniteSet(S), NEW T \in SUBSET S,
           NEW R, \A e \in T : RankIn(S, e) \in R
    PROVE  [e \in T |-> RankIn(S, e)] \in Injection(T, R)
<1> DEFINE h == [e \in T |-> RankIn(S, e)]
<1>1. h \in [T -> R]
    OBVIOUS
<1>2. ASSUME NEW e \in T, NEW f \in T, h[e] = h[f]
      PROVE  e = f
    <2>1. e \in Nat /\ f \in Nat
        OBVIOUS
    <2>2. RankIn(S, e) \in Int /\ RankIn(S, f) \in Int
        BY RankBounds
    <2>3. ~(e < f) /\ ~(f < e)
        BY <1>2, <2>2, RanksDiffer
    <2> QED
        BY <2>1, <2>3
<1> QED
    BY <1>1, <1>2 DEF Injection, IsInjective

(* Rows whose ranks lie in an interval are no more than the interval holds.  *)
LEMMA RowsBetween ==
    ASSUME NEW S \in SUBSET Nat, IsFiniteSet(S), NEW T \in SUBSET S,
           NEW a \in Nat, NEW b \in Int, a <= b + 1,
           \A e \in T : RankIn(S, e) \in a .. b
    PROVE  IsFiniteSet(T) /\ Cardinality(T) \in Nat /\ Cardinality(T) <= b - a + 1
<1>1. [e \in T |-> RankIn(S, e)] \in Injection(T, a .. b)
    BY RanksInject
<1>2. IsFiniteSet(a .. b) /\ Cardinality(a .. b) = IF a > b THEN 0 ELSE b - a + 1
    BY FS_Interval
<1>3. IsFiniteSet(T) /\ Cardinality(T) <= Cardinality(a .. b)
    BY <1>1, <1>2, FS_Injection
<1> QED
    BY <1>2, <1>3, FS_CardinalityType

(* Every rank below the length of the list is that of a row.                 *)
LEMMA RowAt ==
    ASSUME NEW S \in SUBSET Nat, IsFiniteSet(S),
           NEW k \in Nat, k < Cardinality(S)
    PROVE  \E e \in S : RankIn(S, e) = k
<1> DEFINE n == Cardinality(S)
           h == [e \in S |-> RankIn(S, e)]
           R == 0 .. n - 1
<1>1. n \in Nat
    BY FS_CardinalityType
<1>2. IsFiniteSet(R) /\ Cardinality(R) = n
    <2>1. n - 1 \in Int
        BY <1>1
    <2>2. /\ IsFiniteSet(0 .. n - 1)
          /\ Cardinality(0 .. n - 1) = IF 0 > n - 1 THEN 0 ELSE n - 1 - 0 + 1
        BY <2>1, FS_Interval
    <2> QED
        BY <1>1, <2>2
<1>3. h \in Injection(S, R)
    BY RankBounds, RanksInject
<1>4. h \in Surjection(S, R)
    BY <1>2, <1>3, FS_Injection
<1>5. k \in R
    BY <1>1
<1> QED
    BY <1>4, <1>5 DEF Surjection

(* A row added to the list moves others back, never forward.                 *)
LEMMA RankGrows ==
    ASSUME NEW S \in SUBSET Nat, NEW T \in SUBSET S, IsFiniteSet(S), NEW e \in T
    PROVE  RankIn(T, e) <= RankIn(S, e)
<1> DEFINE U == {f \in T : f > e}
           V == {f \in S : f > e}
<1>1. IsFiniteSet(V) /\ U \in SUBSET V
    BY FS_Subset
<1> QED
    BY <1>1, FS_Subset DEF RankIn

(* The page that begins at an offset within the list.                        *)
LEMMA PageSize ==
    ASSUME NEW S \in SUBSET Nat, IsFiniteSet(S), NEW k \in Nat, NEW l \in Nat,
           k <= Cardinality(S)
    PROVE  LET page == PageOf(S, k, l)
           IN  /\ Cardinality(page) \in 0 .. l
               /\ k + Cardinality(page) <= Cardinality(S)
               /\ page = {} => Cardinality(page) = 0
<1> DEFINE page == PageOf(S, k, l)
           n == Cardinality(S)
<1>1. n \in Nat
    BY FS_CardinalityType
<1>2. page \in SUBSET S
    BY DEF PageOf
<1>3. \A e \in page : RankIn(S, e) \in k .. k + l - 1
    BY DEF PageOf
<1>4. Cardinality(page) \in Nat /\ Cardinality(page) <= l
    <2>1. k + l - 1 \in Int /\ k <= (k + l - 1) + 1 /\ (k + l - 1) - k + 1 = l
        OBVIOUS
    <2> QED
        BY <1>2, <1>3, <2>1, RowsBetween
<1>5. k + Cardinality(page) <= n
    <2>1. ASSUME NEW e \in page
          PROVE  RankIn(S, e) \in k .. n - 1
        <3>1. RankIn(S, e) \in k .. k + l - 1
            BY <1>3
        <3>2. RankIn(S, e) \in 0 .. n - 1
            BY <1>2, RankBounds
        <3> QED
            BY <1>1, <3>1, <3>2
    <2>2. n - 1 \in Int /\ k <= (n - 1) + 1 /\ (n - 1) - k + 1 = n - k
        BY <1>1
    <2>3. Cardinality(page) <= n - k
        BY <1>2, <2>1, <2>2, RowsBetween
    <2> QED
        BY <1>1, <1>4, <2>3
<1> QED
    BY <1>4, <1>5, FS_EmptySet

-----------------------------------------------------------------------------
(* The strengthening: while pages are asked for, whatever was in the list    *)
(* from the start and comes before the offset has been read, however many    *)
(* rows were added and wherever; between the count and the page, late is     *)
(* what the list has grown by.                                               *)
ListInv ==
    /\ WebhooksInv
    /\ IsFiniteSet(created)
    /\ reading \in Reading
    /\ reading.offset <= Cardinality(created)
    /\ reading.present \subseteq created
    /\ reading.stage \in {"asking", "counted"} =>
          \A e \in reading.present :
             RankIn(created, e) < reading.offset => e \in reading.items
    /\ reading.stage = "counted" =>
          Cardinality(created) = reading.total + reading.late
    /\ ListedComplete

LEMMA Created ==
    ASSUME ListInv
    PROVE  /\ created \in SUBSET Nat /\ created \subseteq Events
           /\ Cardinality(created) \in Nat
BY FS_CardinalityType, OutboxAssumption
DEF OutboxAssumption, ListInv, WebhooksInv, WebhooksTypeOK, TypeOK

LEMMA ListInit == ListingInit => ListInv
<1> SUFFICES ASSUME ListingInit
             PROVE  ListInv
    OBVIOUS
<1>1. WebhooksInv
    BY WebhooksInitInv DEF ListingInit
<1>2. created = {}
    BY DEF ListingInit, WebhooksInit, Init
<1>3. IsFiniteSet(created) /\ Cardinality(created) = 0
    BY <1>2, FS_EmptySet
<1>4. reading \in Reading
    BY DEF ListingInit, Reading
<1> QED
    BY <1>1, <1>2, <1>3, <1>4 DEF ListInv, ListingInit, ListedComplete

LEMMA BeginInv ==
    ASSUME ListInv, BeginList, WebhooksInv'
    PROVE  ListInv'
<1>1. created' = created
    BY DEF BeginList, vars
<1>2. reading' = [stage |-> "asking", server |-> None, items |-> {},
                  offset |-> 0, total |-> 0, present |-> created, late |-> 0]
    BY DEF BeginList
<1>3. reading' \in Reading
    BY <1>2, Created DEF Reading
<1>4. \A e \in created : ~(RankIn(created, e) < 0)
    <2> SUFFICES ASSUME NEW e \in created
                 PROVE  ~(RankIn(created, e) < 0)
        OBVIOUS
    <2>1. RankIn(created, e) \in 0 .. Cardinality(created) - 1
        BY Created, RankBounds DEF ListInv
    <2> QED
        BY <2>1, Created
<1> QED
    BY <1>1, <1>2, <1>3, <1>4, Created DEF ListInv, ListedComplete

LEMMA CountInv ==
    ASSUME ListInv, NEW b \in Backends, CountRows(b), WebhooksInv'
    PROVE  ListInv'
<1>1. created' = created
    BY DEF CountRows, vars
<1>2. reading \in Reading /\ reading.stage = "asking"
    BY DEF ListInv, CountRows
<1>3. reading' = [reading EXCEPT !.stage = "counted", !.server = b,
                                 !.total = Cardinality(created), !.late = 0]
    BY DEF CountRows, Total
<1>4. reading' \in Reading
    BY <1>2, <1>3, Created DEF Reading
<1>5. /\ reading'.stage = "counted" /\ reading'.offset = reading.offset
      /\ reading'.total = Cardinality(created) /\ reading'.late = 0
      /\ reading'.present = reading.present /\ reading'.items = reading.items
    BY <1>2, <1>3 DEF Reading
<1> QED
    BY <1>1, <1>2, <1>4, <1>5, Created DEF ListInv, ListedComplete

LEMMA PageInv ==
    ASSUME ListInv, ReadPage, WebhooksInv'
    PROVE  ListInv'
<1> DEFINE page == PageOf(created, reading.offset, Limit)
           read == reading.offset + Cardinality(page)
           n == Cardinality(created)
<1>1. /\ created' = created /\ created \in SUBSET Nat /\ created \subseteq Events
      /\ n \in Nat /\ IsFiniteSet(created)
    BY Created DEF ReadPage, vars, ListInv
<1>2. /\ reading \in Reading /\ reading.stage = "counted"
      /\ reading.offset \in Nat /\ reading.total \in Nat
      /\ reading.late \in Nat /\ reading.offset <= n
      /\ n = reading.total + reading.late
      /\ reading.present \subseteq created
      /\ \A e \in reading.present :
             RankIn(created, e) < reading.offset => e \in reading.items
    BY DEF ReadPage, ListInv, Reading
<1>3. page = Page(reading.offset, Limit) /\ page \subseteq created
    BY DEF PageOf, Page, Rank, RankIn
<1>4. Limit \in Nat /\ Limit # 0
    BY LimitAssumption DEF LimitAssumption
<1>5. /\ Cardinality(page) \in 0 .. Limit
      /\ read \in Nat /\ read <= n
      /\ page = {} => Cardinality(page) = 0
    <2>1. /\ Cardinality(page) \in 0 .. Limit
          /\ reading.offset + Cardinality(page) <= n
          /\ page = {} => Cardinality(page) = 0
        <3> HIDE DEF page, n
        <3>1. \A k \in Nat, l \in Nat : k <= Cardinality(created) =>
                 /\ Cardinality(PageOf(created, k, l)) \in 0 .. l
                 /\ k + Cardinality(PageOf(created, k, l)) <= Cardinality(created)
                 /\ PageOf(created, k, l) = {} =>
                       Cardinality(PageOf(created, k, l)) = 0
            BY <1>1, PageSize
        <3> QED
            BY <1>2, <1>4, <3>1 DEF page, n
    <2> QED
        BY <1>2, <1>4, <2>1
<1>6. reading' = [reading EXCEPT
                    !.items = reading.items \cup page, !.offset = read,
                    !.server = None,
                    !.stage = IF Ends(page, read, reading.total) THEN "done"
                              ELSE "asking"]
    BY <1>3 DEF ReadPage, NextOffset
<1>7. reading' \in Reading
    BY <1>1, <1>2, <1>3, <1>5, <1>6 DEF Reading
<1>8. /\ reading'.stage = IF Ends(page, read, reading.total) THEN "done"
                          ELSE "asking"
      /\ reading'.offset = read /\ reading'.late = reading.late
      /\ reading'.present = reading.present
      /\ reading'.items = reading.items \cup page
    BY <1>2, <1>6 DEF Reading
<1>9. ASSUME NEW e \in reading.present, RankIn(created, e) < read
      PROVE  e \in reading'.items
    <2>1. RankIn(created, e) \in 0 .. n - 1 /\ e \in created
        BY <1>1, <1>2, RankBounds
    <2>2. CASE RankIn(created, e) < reading.offset
        BY <1>2, <1>8, <2>2
    <2>3. CASE RankIn(created, e) >= reading.offset
        <3>1. RankIn(created, e) \in reading.offset .. reading.offset + Limit - 1
            BY <1>1, <1>2, <1>4, <1>5, <1>9, <2>1, <2>3
        <3> QED
            BY <1>8, <2>1, <3>1 DEF PageOf
    <2> QED
        BY <1>1, <1>2, <2>1, <2>2, <2>3
<1>10. ASSUME Ends(page, read, reading.total)
       PROVE  Cardinality(reading.present \ reading'.items) <= reading.late
    <2> DEFINE missed == reading.present \ reading'.items
    <2>1. missed \in SUBSET created
        BY <1>2
    <2>2. ASSUME NEW e \in missed
          PROVE  RankIn(created, e) \in read .. n - 1
        <3>1. RankIn(created, e) \in 0 .. n - 1
            BY <1>1, <2>1, RankBounds
        <3>2. ~(RankIn(created, e) < read)
            BY <1>9
        <3> QED
            BY <1>1, <1>5, <3>1, <3>2
    <2>3. Cardinality(missed) \in Nat /\ Cardinality(missed) <= n - read
        <3>1. n - 1 \in Int /\ read <= (n - 1) + 1
              /\ (n - 1) - read + 1 = n - read
            BY <1>1, <1>5
        <3> QED
            BY <1>1, <1>5, <2>1, <2>2, <3>1, RowsBetween
    <2>4. CASE page = {}
        <3>1. read = reading.offset
            BY <1>2, <1>5, <2>4
        <3>2. ~(read < n)
            <4> SUFFICES ASSUME read < n
                         PROVE  FALSE
                OBVIOUS
            <4>1. PICK e \in created : RankIn(created, e) = read
                BY <1>1, <1>5, RowAt
            <4>2. reading.offset \in reading.offset .. reading.offset + Limit - 1
                BY <1>2, <1>4
            <4>3. e \in page
                BY <3>1, <4>1, <4>2 DEF PageOf
            <4> QED
                BY <2>4, <4>3
        <3> QED
            BY <1>1, <1>2, <1>5, <2>3, <3>2
    <2>5. CASE read >= reading.total
        BY <1>1, <1>2, <1>5, <2>3, <2>5
    <2> QED
        BY <1>10, <2>4, <2>5 DEF Ends
<1>11. ListedComplete'
    BY <1>8, <1>10 DEF ListedComplete
<1> QED
    BY <1>1, <1>2, <1>5, <1>7, <1>8, <1>9, <1>11 DEF ListInv

LEMMA OthersInv ==
    ASSUME ListInv, Others, WebhooksInv'
    PROVE  ListInv'
<1> DEFINE added == created' \ created
<1>1. /\ created \in SUBSET Nat /\ IsFiniteSet(created)
      /\ Cardinality(created) \in Nat
    BY Created DEF ListInv
<1>2. /\ created' \in SUBSET Nat
      /\ created \subseteq created'
    <2>1. created' \subseteq Events
        BY DEF WebhooksInv, WebhooksTypeOK, TypeOK
    <2>2. [Next]_vars
        BY OutboxStepLemma DEF Others
    <2>3. created' = created \/ \E e \in Events : created' = created \cup {e}
        BY <2>2, EnqueuedRows
    <2> QED
        BY <2>1, <2>3, OutboxAssumption DEF OutboxAssumption
<1>3. IsFiniteSet(created')
    <2>1. [Next]_vars
        BY OutboxStepLemma DEF Others
    <2>2. CASE created' = created
        BY <1>1, <2>2
    <2>3. ASSUME NEW e \in Events, created' = created \cup {e}
          PROVE  IsFiniteSet(created')
        BY <1>1, <2>3, FS_AddElement
    <2> QED
        BY <2>1, <2>2, <2>3, EnqueuedRows
<1>4. /\ IsFiniteSet(added) /\ Cardinality(added) \in Nat
      /\ Cardinality(created') \in Nat
      /\ Cardinality(created') = Cardinality(created) + Cardinality(added)
    <2>1. IsFiniteSet(added)
          /\ Cardinality(added) =
                Cardinality(created') - Cardinality(created' \cap created)
        BY <1>3, FS_Difference
    <2>2. created' \cap created = created
        BY <1>2
    <2>3. Cardinality(created') \in Nat
        BY <1>3, FS_CardinalityType
    <2>4. Cardinality(added) \in Nat
        BY <2>1, FS_CardinalityType
    <2> HIDE DEF added
    <2>5. Cardinality(added) = Cardinality(created') - Cardinality(created)
        BY <2>1, <2>2
    <2> QED
        BY <1>1, <2>1, <2>3, <2>4, <2>5
<1>5. /\ reading \in Reading
      /\ reading.late \in Nat /\ reading.total \in Nat
      /\ reading.offset \in Nat
    BY DEF ListInv, Reading
<1>6. reading' = [reading EXCEPT
                    !.late = IF reading.stage = "counted"
                             THEN reading.late + Cardinality(added)
                             ELSE reading.late]
    BY DEF Others
<1>7. /\ reading'.stage = reading.stage /\ reading'.offset = reading.offset
      /\ reading'.total = reading.total /\ reading'.present = reading.present
      /\ reading'.items = reading.items
      /\ reading'.late = IF reading.stage = "counted"
                         THEN reading.late + Cardinality(added)
                         ELSE reading.late
    BY <1>5, <1>6 DEF Reading
<1>8. reading' \in Reading
    <2>1. (IF reading.stage = "counted" THEN reading.late + Cardinality(added)
                                        ELSE reading.late) \in Nat
        BY <1>4, <1>5
    <2> HIDE DEF added
    <2>2. /\ reading.present \subseteq Events
          /\ reading.items \subseteq Events
        BY <1>5 DEF Reading
    <2> QED
        BY <1>5, <1>6, <2>1, <2>2 DEF Reading
<1>9. reading.offset <= Cardinality(created')
    BY <1>1, <1>4, <1>5 DEF ListInv
<1>10. ASSUME reading.stage \in {"asking", "counted"},
              NEW e \in reading.present, RankIn(created', e) < reading.offset
       PROVE  e \in reading.items
    <2>1. e \in created /\ e \in created'
        BY <1>2 DEF ListInv
    <2>2. RankIn(created, e) <= RankIn(created', e)
        BY <1>2, <1>3, <2>1, RankGrows
    <2>3. RankIn(created, e) \in Int /\ RankIn(created', e) \in Int
        <3>1. RankIn(created, e) \in 0 .. Cardinality(created) - 1
            BY <1>1, <2>1, RankBounds
        <3>2. RankIn(created', e) \in 0 .. Cardinality(created') - 1
            BY <1>2, <1>3, <2>1, RankBounds
        <3> QED
            BY <1>1, <1>4, <3>1, <3>2
    <2>4. RankIn(created, e) < reading.offset
        BY <1>5, <1>10, <2>2, <2>3
    <2> QED
        BY <1>10, <2>4 DEF ListInv
<1>11. reading.stage = "counted" =>
          Cardinality(created') = reading'.total + reading'.late
    BY <1>1, <1>4, <1>5, <1>7 DEF ListInv
<1>12. ListedComplete'
    BY <1>7 DEF ListInv, ListedComplete
<1>13. reading'.present \subseteq created'
    BY <1>2, <1>7 DEF ListInv
<1> QED
    BY <1>3, <1>7, <1>8, <1>9, <1>10, <1>11, <1>12, <1>13 DEF ListInv

LEMMA ListStep ==
    WebhooksInv' /\ ListInv /\ [ListingNext]_<<vars, partner, reading>> => ListInv'
<1> SUFFICES ASSUME WebhooksInv', ListInv,
                    [ListingNext]_<<vars, partner, reading>>
             PROVE  ListInv'
    OBVIOUS
<1>1. CASE UNCHANGED <<vars, partner, reading>>
    BY <1>1 DEF vars, ListInv, ListedComplete
<1> QED
    BY <1>1, BeginInv, CountInv, PageInv, OthersInv DEF ListingNext

LEMMA ListInvAlways == ListingSpec => []ListInv
BY ListInit, ListStep, ListingImplementsWebhooks, WebhooksInvAlways, PTL
DEF ListingSpec

(* The console's place in a list stays well formed, and it never asks beyond *)
(* the end (resources.py:51-56; page.tsx:303-323).                           *)
THEOREM ListingTypeCorrect ==
    ListingSpec => []ListingTypeOK
<1>1. ListInv => ListingTypeOK
    BY DEF ListInv, WebhooksInv, ListingTypeOK
<1> QED
    BY <1>1, ListInvAlways, PTL

(* A list read to its end lacks at most as many rows as were added between   *)
(* the last count and its page, for any page size and any rows added at any  *)
(* place in the meantime (resources.py:51-56, 278-307; page.tsx:303-323).    *)
THEOREM AlwaysListedComplete ==
    ListingSpec => []ListedComplete
<1>1. ListInv => ListedComplete
    BY DEF ListInv
<1> QED
    BY <1>1, ListInvAlways, PTL

-----------------------------------------------------------------------------
(* One backend: while it serves a page no other request is handled, so       *)
(* nothing is added between the count and the page.                          *)

SoleServer(b) ==
    /\ reading.late = 0
    /\ reading.stage = "counted" => reading.server = b

LEMMA SoleServerStep ==
    ASSUME NEW b, Backends = {b}, None # b, ListInv, SoleServer(b),
           [ListingNext]_<<vars, partner, reading>>
    PROVE  SoleServer(b)'
<1>1. reading \in Reading
    BY DEF ListInv
<1>2. CASE BeginList
    BY <1>2 DEF BeginList, SoleServer
<1>3. ASSUME NEW c \in Backends, CountRows(c)
      PROVE  SoleServer(b)'
    BY <1>1, <1>3 DEF CountRows, SoleServer, Reading
<1>4. CASE ReadPage
    BY <1>1, <1>4 DEF ReadPage, SoleServer, Reading
<1>5. CASE Others
    <2>1. reading.stage = "counted" => created' \ created = {}
        BY <1>5 DEF Others, SoleServer
    <2>2. reading.stage = "counted" => Cardinality(created' \ created) = 0
        BY <2>1, FS_EmptySet
    <2>3. /\ reading'.stage = reading.stage
          /\ reading'.server = reading.server
          /\ reading'.late = IF reading.stage = "counted"
                             THEN reading.late + Cardinality(created' \ created)
                             ELSE reading.late
        BY <1>1, <1>5 DEF Others, Reading
    <2>4. reading'.late = 0
        BY <2>2, <2>3 DEF SoleServer
    <2> QED
        BY <2>3, <2>4 DEF SoleServer
<1>6. CASE UNCHANGED <<vars, partner, reading>>
    BY <1>6 DEF SoleServer
<1> QED
    BY <1>2, <1>3, <1>4, <1>5, <1>6 DEF ListingNext

(* With one backend a list that was read to its end has every row that was   *)
(* there when the console began, however many were added in the meantime     *)
(* (resources.py:51-56, 278-307; page.tsx:303-323).                          *)
THEOREM OneBackendListsAll ==
    ASSUME NEW b, Backends = {b}, None # b
    PROVE  ListingSpec =>
              [](reading.stage = "done" => reading.present \subseteq reading.items)
<1>1. ListingInit => SoleServer(b)
    BY DEF ListingInit, SoleServer
<1>2. ListInv /\ SoleServer(b) /\ [ListingNext]_<<vars, partner, reading>> =>
         SoleServer(b)'
    BY SoleServerStep
<1>3. ListInv /\ SoleServer(b) =>
         (reading.stage = "done" => reading.present \subseteq reading.items)
    <2> SUFFICES ASSUME ListInv, SoleServer(b), reading.stage = "done"
                 PROVE  reading.present \subseteq reading.items
        OBVIOUS
    <2> DEFINE missed == reading.present \ reading.items
    <2>1. IsFiniteSet(missed)
        BY FS_Subset DEF ListInv
    <2>2. Cardinality(missed) <= 0
        BY DEF ListInv, ListedComplete, SoleServer
    <2>3. Cardinality(missed) \in Nat
        BY <2>1, FS_CardinalityType
    <2>4. Cardinality(missed) = 0
        BY <2>2, <2>3
    <2>5. missed = {}
        BY <2>1, <2>4, FS_EmptySet
    <2> QED
        BY <2>5
<1> QED
    BY <1>1, <1>2, <1>3, ListInvAlways, PTL DEF ListingSpec

=============================================================================
