----------------------- MODULE TopologyConsoleProofs -----------------------
(***************************************************************************)
(* Theorems about ReadModel and TopologyConsole, for any set of machines,  *)
(* page limit, filters, number of requests in flight and history of        *)
(* collections.                                                            *)
(***************************************************************************)
EXTENDS TopologyConsole, FiniteSetTheorems, SequenceTheorems, WellFoundedInduction, TLAPS

-----------------------------------------------------------------------------
(* A set of naturals has a least element, a finite one a greatest.         *)
LEMMA LeastElement ==
  ASSUME NEW T, T \subseteq Nat, T # {}
  PROVE  \E x \in T : \A y \in T : x <= y
<1>1. PICK x \in T : \A y \in T : ~ (<<y, x>> \in OpToRel(<, Nat))
  BY NatLessThanWellFounded, WFMin
<1>2. \A y \in T : ~ (y < x)
  BY <1>1 DEF OpToRel
<1> QED BY <1>2

LEMMA GreatestElement ==
  ASSUME NEW T, T \subseteq Nat, IsFiniteSet(T), T # {}
  PROVE  \E x \in T : \A y \in T : y <= x
<1> DEFINE above(m) == {n \in T : n > m}
           counts == {Cardinality(above(m)) : m \in T}
<1>1. \A m \in T : IsFiniteSet(above(m)) /\ Cardinality(above(m)) \in Nat
  BY FS_Subset, FS_CardinalityType
<1>2. counts \subseteq Nat /\ counts # {}
  BY <1>1
<1>3. PICK x \in T : \A y \in T : Cardinality(above(x)) <= Cardinality(above(y))
  <2>1. \E c \in counts : \A d \in counts : c <= d
    <3> HIDE DEF counts
    <3> QED BY <1>2, LeastElement
  <2> QED BY <2>1
<1>4. ASSUME NEW y \in T, y > x PROVE FALSE
  <2>1. above(y) \subseteq above(x) /\ y \in above(x) /\ y \notin above(y)
    <3>1. \A z \in T : z \in Nat /\ x \in Nat /\ y \in Nat
      OBVIOUS
    <3>2. \A z \in T : z > y => z > x
      BY <3>1, <1>4
    <3>3. ~(y > y)
      BY <3>1
    <3> QED BY <3>2, <3>3, <1>4
  <2>2. Cardinality(above(y)) <= Cardinality(above(x)) /\ Cardinality(above(y)) # Cardinality(above(x))
    BY <2>1, <1>1, FS_Subset
  <2> QED BY <2>2, <1>1, <1>3
<1> QED BY <1>4

(* Ranks are numbers, and grow with the id.                                *)
LEMMA Ranks ==
  ASSUME NEW hits \in SUBSET Machines
  PROVE  /\ IsFiniteSet(hits) /\ Cardinality(hits) \in Nat
         /\ \A m \in hits : Rank(hits, m) \in Nat /\ Rank(hits, m) < Cardinality(hits)
         /\ \A m, n \in hits : m <= n => Rank(hits, m) <= Rank(hits, n)
<1>1. hits \subseteq Nat /\ IsFiniteSet(hits) /\ Cardinality(hits) \in Nat
  BY MachinesAssumption, FS_Subset, FS_CardinalityType
<1> DEFINE below(m) == {n \in hits : n < m}
<1>2. \A m \in hits : IsFiniteSet(below(m)) /\ Cardinality(below(m)) \in Nat
  BY <1>1, FS_Subset, FS_CardinalityType
<1>3. ASSUME NEW m \in hits PROVE Cardinality(below(m)) < Cardinality(hits)
  <2>1. below(m) \subseteq hits /\ m \notin below(m)
    BY <1>1
  <2>2. Cardinality(below(m)) <= Cardinality(hits) /\ Cardinality(below(m)) # Cardinality(hits)
    BY <2>1, <1>1, FS_Subset
  <2> QED BY <2>2, <1>1, <1>2
<1>4. ASSUME NEW m \in hits, NEW n \in hits, m <= n
      PROVE  Cardinality(below(m)) <= Cardinality(below(n))
  <2>1. below(m) \subseteq below(n)
    <3>1. \A z \in hits : z < m => z < n
      <4>1. \A z \in hits : z \in Nat /\ m \in Nat /\ n \in Nat
        BY <1>1
      <4> QED BY <4>1, <1>4
    <3> QED BY <3>1
  <2> QED BY <2>1, <1>2, FS_Subset
<1> QED BY <1>1, <1>2, <1>3, <1>4 DEF Rank

(* A page without a cursor is all there is; one with a cursor is what is   *)
(* not beyond the cursor, which is on the page.                            *)
LEMMA PagesAreCut ==
  ASSUME NEW hits \in SUBSET Machines
  PROVE  /\ PageIds(hits) \subseteq hits
         /\ NextCursor(hits) = None => PageIds(hits) = hits
         /\ NextCursor(hits) # None =>
              /\ NextCursor(hits) \in PageIds(hits)
              /\ \A m \in hits : m \in PageIds(hits) <=> m <= NextCursor(hits)
<1>1. PageIds(hits) \subseteq hits
  BY DEF PageIds
<1>2. CASE Cardinality(hits) <= PageLimit
  <2>1. NextCursor(hits) = None
    BY <1>2, Ranks, PageLimitAssumption DEF NextCursor
  <2>2. PageIds(hits) = hits
    BY <1>2, Ranks, PageLimitAssumption DEF PageIds
  <2> QED BY <2>1, <2>2
<1>3. CASE Cardinality(hits) > PageLimit
  <2>1. hits # {} /\ hits \subseteq Nat
    BY <1>3, FS_EmptySet, PageLimitAssumption, MachinesAssumption
  <2>2. PageIds(hits) # {}
    <3>1. PICK x \in hits : \A y \in hits : x <= y
      BY <2>1, LeastElement
    <3>2. {n \in hits : n < x} = {}
      <4>1. \A n \in hits : n \in Nat /\ x \in Nat /\ x <= n
        BY <2>1, <3>1
      <4>2. \A n \in hits : ~(n < x)
        BY <4>1
      <4> QED BY <4>2
    <3>3. Rank(hits, x) = 0
      BY <3>2, FS_EmptySet DEF Rank
    <3> QED BY <3>3, PageLimitAssumption DEF PageIds
  <2>3. IsFiniteSet(PageIds(hits)) /\ PageIds(hits) \subseteq Nat
    BY <1>1, <2>1, Ranks, FS_Subset
  <2>4. /\ NextCursor(hits) \in PageIds(hits)
        /\ \A n \in PageIds(hits) : n <= NextCursor(hits)
    <3>1. \E m \in PageIds(hits) : \A n \in PageIds(hits) : n <= m
      BY <2>2, <2>3, GreatestElement
    <3> QED BY <1>3, <3>1 DEF NextCursor
  <2>5. ASSUME NEW m \in hits, m <= NextCursor(hits) PROVE m \in PageIds(hits)
    <3>1. Rank(hits, m) <= Rank(hits, NextCursor(hits)) /\ Rank(hits, NextCursor(hits)) < PageLimit
      BY <2>4, <2>5, <1>1, Ranks DEF PageIds
    <3> QED BY <3>1, <2>4, <1>1, Ranks, PageLimitAssumption DEF PageIds
  <2>6. NextCursor(hits) # None
    BY <2>4, <1>1, NoneAssumption
  <2> QED BY <1>1, <2>4, <2>5, <2>6
<1> QED BY <1>1, <1>2, <1>3, Ranks, PageLimitAssumption
LEMMA CollectionsAreNat == Collections \subseteq Nat /\ 1 \in Collections
<1>1. MaxCollections \in Nat \ {0}
  BY BoundsAssumption
<1> QED BY <1>1 DEF Collections

LEMMA HeadersAreNat == Headers \subseteq Nat /\ 0 \in Headers /\ Collections \subseteq Headers
BY BoundsAssumption DEF Headers, Collections

LEMMA CursorType ==
  ASSUME NEW hits \in SUBSET Machines
  PROVE  PageIds(hits) \in SUBSET Machines /\ NextCursor(hits) \in Cursors
BY PagesAreCut DEF Cursors

-----------------------------------------------------------------------------
(* Lists of pages.                                                         *)
LastOf(pages) == pages[Len(pages)]

Ordered(pages) ==
  \A i, j \in DOMAIN pages : i < j => \A m \in pages[i].ids, n \in pages[j].ids : m < n

WithinCursor(pages) ==
  LastOf(pages).next # None =>
    \A i \in DOMAIN pages : \A m \in pages[i].ids : m <= LastOf(pages).next

Complete(pages) ==
  OneFilter(pages) =>
    \A m \in Machines :
      Steady(pages, m) /\ Covers(LastOf(pages), m) => \E i \in DOMAIN pages : m \in pages[i].ids

(* What is true of a list built without interference: PagingIsExact, and   *)
(* what the next page relies on.                                           *)
Exact(pages) ==
  /\ Ordered(pages) /\ WithinCursor(pages) /\ Complete(pages)
  /\ pages[1].at <= LastOf(pages).at

(* The page is what the query returns in the state it was read from.       *)
ReadFrom(page, cursor) ==
  LET hits == Hits(log[page.at], page.active, cursor)
  IN  page.ids = PageIds(hits) /\ page.next = NextCursor(hits)

LEMMA FirstPageIsExact ==
  ASSUME NEW page \in Page, ReadFrom(page, None)
  PROVE  Exact(<<page>>)
<1> DEFINE hits == Hits(log[page.at], page.active, None)
<1>1. DOMAIN <<page>> = {1} /\ Len(<<page>>) = 1 /\ <<page>>[1] = page
  OBVIOUS
<1>2. hits \in SUBSET Machines
  BY DEF Hits
<1>3. page.at \in Nat /\ Machines \subseteq Nat
  BY MachinesAssumption, CollectionsAreNat DEF Page
<1>4. Ordered(<<page>>)
  BY <1>1 DEF Ordered
<1>5. WithinCursor(<<page>>)
  BY <1>1, <1>2, PagesAreCut DEF WithinCursor, LastOf, ReadFrom
<1>6. Complete(<<page>>)
  <2> SUFFICES ASSUME NEW m \in Machines, Steady(<<page>>, m), Covers(page, m)
               PROVE  m \in page.ids
    BY <1>1 DEF Complete, LastOf
  <2>1. Matches(log[page.at][m], page.active)
    BY <1>1, <1>3 DEF Steady
  <2>2. m \in hits
    BY <2>1 DEF Hits
  <2> QED BY <1>2, <2>2, PagesAreCut DEF Covers, ReadFrom
<1> QED BY <1>1, <1>3, <1>4, <1>5, <1>6 DEF Exact, LastOf

LEMMA NextPageIsExact ==
  ASSUME NEW pages \in Seq(Page), pages # <<>>, Exact(pages), NEW page \in Page,
         LastOf(pages).next # None, ReadFrom(page, LastOf(pages).next),
         LastOf(pages).at <= page.at
  PROVE  Exact(Append(pages, page))
<1> DEFINE list == Append(pages, page)
           len == Len(pages)
           cursor == LastOf(pages).next
           hits == Hits(log[page.at], page.active, cursor)
<1>1. /\ len \in Nat \ {0} /\ DOMAIN pages = 1 .. len
      /\ \A i \in 1 .. len : pages[i] \in Page
  BY EmptySeq, ElementOfSeq
<1>2. /\ Len(list) = len + 1 /\ DOMAIN list = 1 .. len + 1
      /\ list[len + 1] = page /\ \A i \in 1 .. len : list[i] = pages[i]
  BY <1>1, AppendProperties
<1>3. /\ hits \in SUBSET Machines /\ hits \subseteq Nat /\ cursor \in Nat
      /\ page.at \in Nat /\ Machines \subseteq Nat
      /\ \A i \in 1 .. len : pages[i].at \in Nat /\ pages[i].ids \subseteq Nat
  <2>1. hits \in SUBSET Machines /\ hits \subseteq Nat /\ Machines \subseteq Nat
    BY MachinesAssumption DEF Hits
  <2>2. \A p \in Page : p.at \in Nat /\ p.ids \subseteq Nat /\ p.next \in Cursors
    BY MachinesAssumption, CollectionsAreNat DEF Page
  <2>3. len \in 1 .. len
    BY <1>1
  <2>4. cursor \in Nat
    BY <2>2, <2>3, <1>1, MachinesAssumption DEF LastOf, Cursors
  <2> QED BY <2>1, <2>2, <2>4, <1>1
<1>4. LastOf(list) = page /\ LastOf(pages) = pages[len]
  BY <1>2 DEF LastOf
<1>5. \A m \in hits : m > cursor
  BY <1>3 DEF Hits
<1>6. page.ids \subseteq hits /\ page.ids \subseteq Nat
  BY <1>3, PagesAreCut DEF ReadFrom
<1>7. \A i \in 1 .. len : \A m \in pages[i].ids : m <= cursor
  BY <1>1 DEF Exact, WithinCursor
<1> HIDE DEF list, len, cursor, hits
<1>8. Ordered(list)
  <2> SUFFICES ASSUME NEW i \in 1 .. len + 1, NEW j \in 1 .. len + 1, i < j,
                      NEW m \in list[i].ids, NEW n \in list[j].ids
               PROVE  m < n
    BY <1>2 DEF Ordered
  <2>1. i \in 1 .. len /\ list[i] = pages[i]
    BY <1>1, <1>2
  <2>2. CASE j = len + 1
    <3>1. m <= cursor /\ n > cursor /\ m \in Nat /\ n \in Nat
      BY <2>1, <2>2, <1>2, <1>3, <1>5, <1>6, <1>7
    <3> QED BY <3>1, <1>3
  <2>3. CASE j # len + 1
    <3>1. j \in 1 .. len /\ list[j] = pages[j]
      BY <2>3, <1>1, <1>2
    <3> QED BY <3>1, <2>1, <1>1 DEF Exact, Ordered
  <2> QED BY <2>2, <2>3
<1>9. WithinCursor(list)
  <2> SUFFICES ASSUME page.next # None, NEW i \in 1 .. len + 1, NEW m \in list[i].ids
               PROVE  m <= page.next
    BY <1>2, <1>4 DEF WithinCursor
  <2>1. /\ page.next \in page.ids /\ page.next \in Nat /\ page.next > cursor
        /\ \A n \in page.ids : n <= page.next
    BY <1>3, <1>5, <1>6, PagesAreCut DEF ReadFrom, hits, cursor
  <2>2. CASE i = len + 1
    BY <2>1, <2>2, <1>2
  <2>3. CASE i # len + 1
    <3>1. m <= cursor /\ m \in Nat
      BY <2>3, <1>1, <1>2, <1>3, <1>7
    <3> QED BY <3>1, <2>1, <1>3
  <2> QED BY <2>2, <2>3
<1>10. Complete(list)
  <2> SUFFICES ASSUME OneFilter(list), NEW m \in Machines, Steady(list, m), Covers(page, m)
               PROVE  \E i \in 1 .. len + 1 : m \in list[i].ids
    BY <1>2, <1>4 DEF Complete
  <2>1. /\ list[1] = pages[1] /\ page.active = pages[1].active
        /\ \A i \in 1 .. len : pages[i].active = pages[1].active
    <3>1. 1 \in 1 .. len /\ len + 1 \in 1 .. len + 1 /\ 1 .. len \subseteq 1 .. len + 1
      BY <1>1
    <3> QED BY <3>1, <1>2 DEF OneFilter
  <2>2. OneFilter(pages)
    BY <2>1, <1>1 DEF OneFilter
  <2>3. pages[1].at \in Nat /\ pages[len].at \in Nat /\ pages[1].at <= pages[len].at
        /\ pages[len].at <= page.at
    BY <1>1, <1>3, <1>4 DEF Exact
  <2>4. \A c \in pages[1].at .. page.at : Matches(log[c][m], page.active)
    BY <2>1, <1>2 DEF Steady
  <2>5. Steady(pages, m)
    <3>1. \A c \in pages[1].at .. pages[len].at : c \in pages[1].at .. page.at
      BY <2>3, <1>3
    <3> QED BY <3>1, <2>1, <2>4 DEF Steady, len
  <2>6. CASE m <= cursor
    <3>1. Covers(LastOf(pages), m)
      BY <2>6 DEF Covers, cursor
    <3>2. PICK i \in 1 .. len : m \in pages[i].ids
      BY <3>1, <2>2, <2>5, <1>1 DEF Exact, Complete
    <3>3. i \in 1 .. len + 1 /\ list[i] = pages[i]
      BY <1>1, <1>2
    <3> QED BY <3>2, <3>3
  <2>7. CASE m > cursor
    <3>1. Matches(log[page.at][m], page.active)
      BY <2>3, <2>4, <1>3
    <3>2. m \in hits
      BY <3>1, <2>7 DEF hits, Hits
    <3>3. m \in page.ids
      BY <3>2, <1>3, PagesAreCut DEF ReadFrom, Covers, hits, cursor
    <3>4. len + 1 \in 1 .. len + 1 /\ list[len + 1] = page
      BY <1>1, <1>2
    <3> QED BY <3>3, <3>4
  <2>8. m <= cursor \/ m > cursor
    BY <1>3
  <2> QED BY <2>6, <2>7, <2>8
<1>11. list[1].at <= LastOf(list).at
  <2>1. /\ list[1] = pages[1] /\ pages[1].at \in Nat /\ pages[len].at \in Nat
        /\ pages[1].at <= pages[len].at /\ pages[len].at <= page.at
    BY <1>1, <1>2, <1>3, <1>4 DEF Exact
  <2> QED BY <2>1, <1>3, <1>4
<1> QED BY <1>8, <1>9, <1>10, <1>11 DEF Exact, list
-----------------------------------------------------------------------------
(* Requests. An answer is what its query returned, and its header is not   *)
(* newer than its machines; a request for more continues the list as long  *)
(* as nothing interferes.                                                  *)
Read(r) ==
  /\ req[r].stage \in {"header", "answered"} => req[r].header <= now
  /\ req[r].stage = "answered" =>
       /\ ReadFrom(req[r].page, req[r].cursor)
       /\ req[r].header <= req[r].page.at /\ req[r].page.at <= now
  /\ ~req[r].append => req[r].cursor = None

Continues(r) ==
  req[r].append /\ req[r].undisturbed =>
    /\ req[r].cursor = cursorRef
    /\ machinesRef # <<>> =>
         /\ cursorRef # None
         /\ req[r].stage = "answered" => LastOf(machinesRef).at <= req[r].page.at

ListInv ==
  /\ machinesRef = <<>> => cursorRef = None
  /\ machinesRef # <<>> =>
       /\ cursorRef = LastOf(machinesRef).next
       /\ data.hasMore <=> cursorRef # None
       /\ LastOf(machinesRef).at <= now
       /\ clean => Exact(machinesRef)

IInv ==
  /\ TypeOK
  /\ \A r \in Requests : Read(r) /\ Continues(r)
  /\ ListInv

LEMMA AskType ==
  ASSUME NEW append \in BOOLEAN, NEW active \in ActiveFilters, NEW cursor \in Cursors
  PROVE  /\ Ask(append, active, cursor) \in Request
         /\ Ask(append, active, cursor).stage = "sent"
         /\ Ask(append, active, cursor).append = append
         /\ Ask(append, active, cursor).cursor = cursor
<1>1. [active |-> active, ids |-> {}, next |-> None, at |-> 1] \in Page
  BY CollectionsAreNat DEF Page, Cursors
<1> QED BY <1>1, HeadersAreNat DEF Ask, Request, Stages

LEMMA IdleType == Idle \in Request /\ Idle.stage = "idle" /\ ~Idle.append /\ Idle.cursor = None
<1>1. FALSE \in BOOLEAN /\ "" \in ActiveFilters /\ None \in Cursors
  BY DEF ActiveFilters, Cursors
<1> DEFINE blank == Ask(FALSE, "", None)
<1>2. blank \in Request /\ blank.append = FALSE /\ blank.cursor = None
  BY <1>1, AskType
<1>3. Idle = [blank EXCEPT !.stage = "idle", !.undisturbed = FALSE]
  BY DEF Idle
<1> HIDE DEF blank
<1> QED BY <1>2, <1>3 DEF Request, Stages

LEMMA InitInvariant == Init => IInv
<1> SUFFICES ASSUME Init PROVE IInv
  OBVIOUS
<1>1. FALSE \in BOOLEAN /\ "true" \in ActiveFilters /\ None \in Cursors
  BY DEF ActiveFilters, Cursors
<1> DEFINE first == Ask(FALSE, "true", None)
<1>2. first \in Request /\ first.stage = "sent" /\ first.append = FALSE /\ first.cursor = None
  BY <1>1, AskType
<1> HIDE DEF first
<1>3. /\ req \in [Requests -> Request]
      /\ \A r \in Requests : req[r] = first \/ req[r] = Idle
  BY <1>2, IdleType DEF Init, first
<1>4. log \in Seq([Machines -> RowStates]) /\ Len(log) = 1 /\ latest \in {0, 1}
  <2>1. PICK t \in InitialTables : log = <<t.rows>> /\ latest = t.runs
    BY DEF Init
  <2>2. t.rows \in [Machines -> RowStates] /\ t.runs \in {0, 1}
    BY BoundsAssumption
  <2> QED BY <2>1, <2>2
<1>5. TypeOK
  <2>1. machinesRef \in Seq(Page)
    BY DEF Init
  <2>2. latest \in 0 .. Len(log)
    BY <1>4
  <2> QED BY <1>1, <1>3, <1>4, <2>1, <2>2, CollectionsAreNat DEF Init, TypeOK
<1>6. \A r \in Requests : Read(r) /\ Continues(r)
  BY <1>2, <1>3, IdleType DEF Read, Continues
<1> QED BY <1>5, <1>6 DEF IInv, ListInv, Init

(* A request is sent; nothing is applied or reset.                         *)
LEMMA SendSteps ==
  ASSUME IInv, NEW r \in Requests,
         \/ AutoRefresh(r) \/ RefreshClick(r) \/ LoadMoreClick(r)
         \/ \E on \in BOOLEAN : SetInterval(r, on)
  PROVE  IInv'
<1>1. PICK append \in BOOLEAN :
        /\ fetchPage(r, append)
        /\ append /\ machinesRef # <<>> => cursorRef # None
        /\ UNCHANGED <<log, latest, machinesRef, cursorRef, data, status, activeFilter, clean>>
        /\ interval' \in BOOLEAN
  BY DEF AutoRefresh, RefreshClick, LoadMoreClick, SetInterval, IInv, TypeOK, ListInv, tables
<1> DEFINE sent == Ask(append, activeFilter, IF append THEN cursorRef ELSE None)
<1>2. /\ sent \in Request /\ sent.stage = "sent" /\ sent.append = append
      /\ sent.cursor = IF append THEN cursorRef ELSE None
  BY AskType DEF IInv, TypeOK, Cursors
<1> HIDE DEF sent
<1>3. /\ req'[r] = sent /\ \A q \in Requests \ {r} : req'[q] = req[q]
      /\ req' \in [Requests -> Request] /\ loading' = TRUE
  BY <1>1, <1>2 DEF fetchPage, IInv, TypeOK, sent
<1>4. TypeOK'
  BY <1>1, <1>3 DEF IInv, TypeOK
<1>5. \A q \in Requests : Read(q)' /\ Continues(q)'
  BY <1>1, <1>2, <1>3 DEF IInv, Read, Continues, ReadFrom, LastOf, now
<1>6. ListInv'
  BY <1>1 DEF IInv, ListInv, LastOf, now, Exact, Ordered, WithinCursor, Complete, OneFilter,
              Steady, Covers
<1> QED BY <1>4, <1>5, <1>6 DEF IInv
(* What was in flight is disturbed, and is otherwise the same.             *)
LEMMA DisturbedType ==
  ASSUME req \in [Requests -> Request]
  PROVE  /\ Disturbed(req) \in [Requests -> Request]
         /\ \A q \in Requests :
              /\ Disturbed(req)[q].stage = req[q].stage
              /\ Disturbed(req)[q].header = req[q].header
              /\ Disturbed(req)[q].page = req[q].page
              /\ Disturbed(req)[q].append = req[q].append
              /\ Disturbed(req)[q].cursor = req[q].cursor
              /\ Disturbed(req)[q].undisturbed = FALSE
BY DEF Disturbed, Request

(* The choice of a filter begins an empty list.                            *)
LEMMA FilterStep ==
  ASSUME IInv, NEW r \in Requests, NEW active \in Filters, SetFilter(r, active)
  PROVE  IInv'
<1>1. /\ UNCHANGED <<log, latest, data, status, interval>> /\ activeFilter' = active
      /\ loading' = TRUE /\ clean' = TRUE /\ cursorRef' = None /\ machinesRef' = <<>>
      /\ req' = [Disturbed(req) EXCEPT ![r] = Ask(FALSE, active, None)]
  BY DEF SetFilter, tables
<1>2. active \in ActiveFilters /\ None \in Cursors
  BY FiltersAssumption DEF Cursors
<1> DEFINE sent == Ask(FALSE, active, None)
<1>3. sent \in Request /\ sent.stage = "sent" /\ sent.append = FALSE /\ sent.cursor = None
  BY <1>2, AskType
<1> HIDE DEF sent
<1>4. /\ req'[r] = sent /\ \A q \in Requests \ {r} : req'[q] = Disturbed(req)[q]
      /\ req' \in [Requests -> Request]
  BY <1>1, <1>3, DisturbedType DEF IInv, TypeOK, sent
<1>5. TypeOK'
  <2>1. machinesRef' \in Seq(Page)
    BY <1>1
  <2> QED BY <1>1, <1>2, <1>4, <2>1 DEF IInv, TypeOK
<1>6. \A q \in Requests : Read(q)' /\ Continues(q)'
  <2> SUFFICES ASSUME NEW q \in Requests PROVE Read(q)' /\ Continues(q)'
    OBVIOUS
  <2>1. CASE q = r
    BY <2>1, <1>3, <1>4 DEF Read, Continues
  <2>2. CASE q # r
    BY <2>2, <1>1, <1>4, DisturbedType DEF IInv, TypeOK, Read, Continues, ReadFrom, now
  <2> QED BY <2>1, <2>2
<1>7. ListInv'
  BY <1>1 DEF ListInv
<1> QED BY <1>5, <1>6, <1>7 DEF IInv

(* The queries of a page.                                                  *)
LEMMA ServerSteps ==
  ASSUME IInv, NEW r \in Requests, latestCollection(r) \/ queryMachines(r)
  PROVE  IInv'
<1>1. UNCHANGED <<log, latest, machinesRef, cursorRef, data, status, loading, interval, activeFilter,
                  clean>>
  BY DEF latestCollection, queryMachines, tables, ui
<1>2. now \in Collections /\ now \in Nat /\ req[r] \in Request /\ req \in [Requests -> Request]
  BY CollectionsAreNat DEF IInv, TypeOK, now
<1>3. /\ req' \in [Requests -> Request] /\ \A q \in Requests \ {r} : req'[q] = req[q]
      /\ Read(r)' /\ Continues(r)'
  <2>1. CASE latestCollection(r)
    <3>1. /\ req'[r] = [req[r] EXCEPT !.stage = "header", !.header = latest]
          /\ \A q \in Requests \ {r} : req'[q] = req[q]
          /\ req' \in [Requests -> Request]
      <4>1. latest \in Headers
        <5>1. latest \in 0 .. Len(log) /\ Len(log) \in 1 .. MaxCollections
          BY DEF IInv, TypeOK, Collections
        <5>2. MaxCollections \in Nat BY BoundsAssumption
        <5> QED BY <5>1, <5>2 DEF Headers
      <4> QED BY <2>1, <1>2, <4>1 DEF latestCollection, Request, Stages
    <3>2. /\ req'[r].stage = "header" /\ req'[r].header = latest
          /\ req'[r].append = req[r].append /\ req'[r].cursor = req[r].cursor
          /\ req'[r].undisturbed = req[r].undisturbed
      BY <3>1, <1>2 DEF Request
    <3>3. latest <= now
      BY <1>2 DEF IInv, TypeOK, now
    <3> QED BY <3>1, <3>2, <3>3, <1>1, <1>2 DEF IInv, Read, Continues, now
  <2>2. CASE queryMachines(r)
    <3> DEFINE hits == Hits(log[now], req[r].page.active, req[r].cursor)
               page == [req[r].page EXCEPT !.ids = PageIds(hits), !.next = NextCursor(hits),
                                           !.at = now]
    <3>1. req[r].stage = "header" /\ req' = [req EXCEPT ![r].stage = "answered", ![r].page = page]
      BY <2>2 DEF queryMachines
    <3>2. hits \in SUBSET Machines
      BY DEF Hits
    <3>3. req[r].page \in Page
      BY <1>2 DEF Request
    <3>4. /\ page \in Page /\ page.at = now /\ page.active = req[r].page.active
          /\ page.ids = PageIds(hits) /\ page.next = NextCursor(hits)
      BY <3>2, <3>3, <1>2, CursorType DEF Page
    <3>5. ReadFrom(page, req[r].cursor)
      BY <3>4 DEF ReadFrom
    <3> HIDE DEF page, hits
    <3>6. /\ req'[r].stage = "answered" /\ req'[r].page = page
          /\ req'[r].header = req[r].header
          /\ req'[r].append = req[r].append /\ req'[r].cursor = req[r].cursor
          /\ req'[r].undisturbed = req[r].undisturbed
          /\ \A q \in Requests \ {r} : req'[q] = req[q]
          /\ req' \in [Requests -> Request]
      BY <3>1, <3>4, <1>2 DEF Request, Stages
    <3>7. Read(r)'
      BY <3>1, <3>4, <3>5, <3>6, <1>1, <1>2 DEF IInv, Read, ReadFrom, now
    <3>8. Continues(r)'
      BY <3>4, <3>6, <1>1, <1>2 DEF IInv, Continues, ListInv, LastOf, now
    <3> QED BY <3>6, <3>7, <3>8
  <2> QED BY <2>1, <2>2
<1>4. TypeOK'
  BY <1>1, <1>3 DEF IInv, TypeOK
<1>5. \A q \in Requests : Read(q)' /\ Continues(q)'
  BY <1>1, <1>3 DEF IInv, Read, Continues, ReadFrom, LastOf, now
<1>6. ListInv'
  BY <1>1 DEF IInv, ListInv, LastOf, now, Exact, Ordered, WithinCursor, Complete, OneFilter,
              Steady, Covers
<1> QED BY <1>4, <1>5, <1>6 DEF IInv
(* Committed states stay as they were read.                                *)
LEMMA CommitStep ==
  ASSUME IInv, Commit \/ CommitLate
  PROVE  IInv'
<1>1. PICK s \in Snapshots, kept \in SUBSET Machines :
        log' = Append(log, Ingest(log[now], s, kept))
  BY DEF Commit, CommitLate
<1> DEFINE row == Ingest(log[now], s, kept)
<1>2. /\ UNCHANGED <<req, machinesRef, cursorRef, data, status, loading, interval,
                     activeFilter, clean>>
      /\ now < MaxCollections /\ latest' \in {latest, now + 1}
  BY DEF Commit, CommitLate, ui
<1>3. /\ log \in Seq([Machines -> RowStates]) /\ now \in Collections /\ now \in Nat
      /\ now \in 1 .. now /\ MaxCollections \in Nat
  BY BoundsAssumption, CollectionsAreNat DEF IInv, TypeOK, now, Collections
<1>4. row \in [Machines -> RowStates]
  <2>1. log[now] \in [Machines -> RowStates]
    BY <1>3, ElementOfSeq DEF now
  <2> QED BY <2>1 DEF RowStates, Ingest
<1>5. /\ log' \in Seq([Machines -> RowStates]) /\ now' = now + 1
      /\ \A c \in 1 .. now : log'[c] = log[c]
  <2>1. log' = Append(log, row)
    BY <1>1
  <2> HIDE DEF row
  <2> QED BY <2>1, <1>3, <1>4, AppendProperties DEF now
<1> HIDE DEF row
<1>6. now' \in Collections /\ now <= now'
  BY <1>2, <1>3, <1>5 DEF Collections
<1>7. TypeOK'
  <2>1. latest' \in 0 .. now'
    BY <1>2, <1>3, <1>5 DEF IInv, TypeOK, now
  <2> QED BY <1>2, <1>5, <1>6, <2>1 DEF IInv, TypeOK, now
<1>8. \A q \in Requests : Read(q)' /\ Continues(q)'
  <2> SUFFICES ASSUME NEW q \in Requests PROVE Read(q)' /\ Continues(q)'
    OBVIOUS
  <2>1. /\ req[q] \in Request /\ req[q].header \in Nat /\ req[q].page.at \in Nat
        /\ req[q].page.at >= 1
    <3>1. req[q] \in Request BY DEF IInv, TypeOK
    <3>2. req[q].header \in Headers /\ req[q].page \in Page BY <3>1 DEF Request
    <3>3. req[q].page.at \in Collections BY <3>2 DEF Page
    <3>4. req[q].page.at \in Nat /\ req[q].page.at >= 1
      BY <3>3, BoundsAssumption DEF Collections
    <3>5. req[q].header \in Nat BY <3>2, HeadersAreNat
    <3> QED BY <3>1, <3>4, <3>5
  <2>2. Read(q)'
    <3>1. ASSUME req[q].stage = "answered"
          PROVE  ReadFrom(req[q].page, req[q].cursor)'
      <4>1. req[q].page.at \in 1 .. now
        BY <3>1, <2>1, <1>3 DEF IInv, Read
      <4>2. log'[req[q].page.at] = log[req[q].page.at]
        BY <4>1, <1>5
      <4> QED BY <3>1, <4>2, <1>2 DEF IInv, Read, ReadFrom
    <3> QED BY <3>1, <2>1, <1>2, <1>3, <1>5 DEF IInv, Read
  <2>3. Continues(q)'
    BY <1>2 DEF IInv, Continues, LastOf
  <2> QED BY <2>2, <2>3
<1>9. ASSUME machinesRef # <<>>
      PROVE  /\ LastOf(machinesRef).at <= now'
             /\ clean => Exact(machinesRef)'
  <2> DEFINE pages == machinesRef
  <2>1. /\ Len(pages) \in Nat \ {0} /\ 1 \in 1 .. Len(pages) /\ Len(pages) \in 1 .. Len(pages)
        /\ \A i \in 1 .. Len(pages) : pages[i] \in Page
    BY <1>9, EmptySeq, ElementOfSeq DEF IInv, TypeOK
  <2>2. /\ pages[1].at \in Nat /\ pages[1].at >= 1 /\ LastOf(pages).at \in Nat
        /\ LastOf(pages).at <= now
    BY <1>9, <2>1 DEF Page, Collections, LastOf, IInv, ListInv
  <2>3. \A c \in pages[1].at .. LastOf(pages).at : log'[c] = log[c]
    BY <2>2, <1>3, <1>5
  <2>4. \A m \in Machines : Steady(pages, m)' <=> Steady(pages, m)
    BY <2>3, <1>2 DEF Steady, LastOf
  <2>5. clean => Exact(pages)'
    BY <1>2, <1>9, <2>4
       DEF IInv, ListInv, Exact, Ordered, WithinCursor, Complete, OneFilter, Covers, LastOf
  <2> QED BY <2>2, <2>5, <1>3, <1>5
<1>10. ListInv'
  BY <1>2, <1>9 DEF IInv, ListInv, LastOf
<1> QED BY <1>7, <1>8, <1>10 DEF IInv

LEMMA FailStep ==
  ASSUME IInv, NEW r \in Requests, Fail(r)
  PROVE  IInv'
<1>1. /\ UNCHANGED <<log, latest, machinesRef, cursorRef, data, interval, activeFilter, clean>>
      /\ status' = "offline" /\ loading' = FALSE
      /\ req' = [req EXCEPT ![r] = Idle]
  BY DEF Fail, tables
<1>2. /\ req'[r] = Idle /\ \A q \in Requests \ {r} : req'[q] = req[q]
      /\ req' \in [Requests -> Request]
  BY <1>1, IdleType DEF IInv, TypeOK
<1>3. TypeOK'
  BY <1>1, <1>2 DEF IInv, TypeOK
<1>4. \A q \in Requests : Read(q)' /\ Continues(q)'
  BY <1>1, <1>2, IdleType DEF IInv, Read, Continues, ReadFrom, LastOf, now
<1>5. ListInv'
  BY <1>1 DEF IInv, ListInv, LastOf, now, Exact, Ordered, WithinCursor, Complete, OneFilter,
              Steady, Covers
<1> QED BY <1>3, <1>4, <1>5 DEF IInv

(* A response is applied: the list stays exact when it was, and nothing    *)
(* came between.                                                           *)
LEMMA ReceiveStep ==
  ASSUME IInv, NEW r \in Requests, Receive(r)
  PROVE  IInv'
<1> DEFINE page == req[r].page
           list == IF req[r].append THEN Append(machinesRef, page) ELSE <<page>>
<1>1. /\ UNCHANGED <<log, latest, interval, activeFilter>>
      /\ status' = "online" /\ loading' = FALSE
      /\ machinesRef' = list /\ cursorRef' = page.next
      /\ clean' = (req[r].append => clean /\ req[r].undisturbed)
      /\ data' = [pages |-> list, header |-> req[r].header, hasMore |-> page.next # None]
      /\ req' = [Disturbed(req) EXCEPT ![r] = Idle]
      /\ req[r].stage = "answered"
  BY DEF Receive, tables
<1>2. /\ req[r] \in Request /\ page \in Page /\ req[r].header \in Headers
      /\ page.next \in Cursors /\ page.at <= now /\ ReadFrom(page, req[r].cursor)
      /\ req[r].append \in BOOLEAN /\ req[r].undisturbed \in BOOLEAN /\ clean \in BOOLEAN
      /\ machinesRef \in Seq(Page)
  BY <1>1 DEF IInv, TypeOK, Request, Page, Read
<1>3. list \in Seq(Page) /\ list # <<>> /\ LastOf(list) = page
  <2>1. CASE req[r].append
    BY <2>1, <1>2, AppendProperties DEF LastOf
  <2>2. CASE ~req[r].append
    BY <2>2, <1>2 DEF LastOf
  <2> QED BY <2>1, <2>2
<1>4. clean' => Exact(list)
  <2>1. CASE ~req[r].append
    <3>1. req[r].cursor = None
      BY <2>1 DEF IInv, Read
    <3>2. Exact(<<page>>)
      BY <3>1, <1>2, FirstPageIsExact
    <3> QED BY <2>1, <3>2
  <2>2. CASE req[r].append /\ clean /\ req[r].undisturbed /\ machinesRef = <<>>
    <3>1. req[r].cursor = None
      BY <2>2 DEF IInv, Continues, ListInv
    <3>2. Exact(<<page>>)
      BY <3>1, <1>2, FirstPageIsExact
    <3>3. list = <<page>>
      BY <2>2
    <3> QED BY <3>2, <3>3
  <2>3. CASE req[r].append /\ clean /\ req[r].undisturbed /\ machinesRef # <<>>
    <3>1. /\ req[r].cursor = LastOf(machinesRef).next /\ LastOf(machinesRef).next # None
          /\ LastOf(machinesRef).at <= page.at /\ Exact(machinesRef)
      BY <2>3, <1>1 DEF IInv, Continues, ListInv
    <3>2. Exact(Append(machinesRef, page))
      BY <2>3, <3>1, <1>2, NextPageIsExact
    <3> QED BY <2>3, <3>2
  <2> QED BY <2>1, <2>2, <2>3, <1>1, <1>2
<1> HIDE DEF page, list
<1>5. /\ req'[r] = Idle /\ \A q \in Requests \ {r} : req'[q] = Disturbed(req)[q]
      /\ req' \in [Requests -> Request]
  BY <1>1, IdleType, DisturbedType DEF IInv, TypeOK
<1>6. TypeOK'
  <2>1. data' \in Shown
    BY <1>1, <1>2, <1>3 DEF Shown
  <2>2. clean' \in BOOLEAN
    BY <1>1
  <2> QED BY <1>1, <1>2, <1>3, <1>5, <2>1, <2>2 DEF IInv, TypeOK
<1>7. \A q \in Requests : Read(q)' /\ Continues(q)'
  <2> SUFFICES ASSUME NEW q \in Requests PROVE Read(q)' /\ Continues(q)'
    OBVIOUS
  <2>1. CASE q = r
    BY <2>1, <1>5, IdleType DEF Read, Continues
  <2>2. CASE q # r
    BY <2>2, <1>1, <1>5, DisturbedType DEF IInv, TypeOK, Read, Continues, ReadFrom, now
  <2> QED BY <2>1, <2>2
<1>8. ListInv'
  <2>1. clean' => Exact(machinesRef)'
    BY <1>1, <1>4 DEF Exact, Ordered, WithinCursor, Complete, OneFilter, Steady, Covers, LastOf
  <2>2. /\ machinesRef' # <<>> /\ cursorRef' = LastOf(machinesRef').next
        /\ data'.hasMore <=> cursorRef' # None
        /\ LastOf(machinesRef').at <= now'
    BY <1>1, <1>2, <1>3 DEF now
  <2> QED BY <2>1, <2>2 DEF ListInv, LastOf
<1> QED BY <1>6, <1>7, <1>8 DEF IInv

-----------------------------------------------------------------------------
LEMMA StepInvariant == IInv /\ [Next]_vars => IInv'
<1> SUFFICES ASSUME IInv, [Next]_vars PROVE IInv'
  OBVIOUS
<1>1. ASSUME NEW r \in Requests,
             \/ AutoRefresh(r) \/ RefreshClick(r) \/ LoadMoreClick(r)
             \/ \E on \in BOOLEAN : SetInterval(r, on)
      PROVE  IInv'
  BY <1>1, SendSteps
<1>2. ASSUME NEW r \in Requests, NEW active \in Filters, SetFilter(r, active) PROVE IInv'
  BY <1>2, FilterStep
<1>3. ASSUME NEW r \in Requests, latestCollection(r) \/ queryMachines(r) PROVE IInv'
  BY <1>3, ServerSteps
<1>4. ASSUME NEW r \in Requests, Receive(r) \/ Fail(r) PROVE IInv'
  BY <1>4, ReceiveStep, FailStep
<1>5. CASE Commit \/ CommitLate
  BY <1>5, CommitStep
<1>6. CASE UNCHANGED vars
  BY <1>6 DEF vars, IInv, TypeOK, Read, Continues, ReadFrom, ListInv, LastOf, now, Exact,
              Ordered, WithinCursor, Complete, OneFilter, Steady, Covers
<1> QED BY <1>1, <1>2, <1>3, <1>4, <1>5, <1>6 DEF Next

LEMMA Invariance == Spec => []IInv
BY InitInvariant, StepInvariant, PTL DEF Spec

(* The console's state is well typed, the cursor of a page in particular   *)
(* is a machine or none (useTopology.js, readmodel/store.go).              *)
THEOREM TypeCorrect == Spec => []TypeOK
<1>1. IInv => TypeOK BY DEF IInv
<1> QED BY <1>1, Invariance, PTL

(* Paging by the last id of a page repeats nobody and skips nobody who     *)
(* matched all the while, whatever ingestion commits between the pages     *)
(* (readmodel/store.go, useTopology.js).                                   *)
THEOREM ExactPaging == Spec => []PagingIsExact
<1>1. IInv => PagingIsExact
  BY DEF IInv, ListInv, Exact, Ordered, Complete, LastOf, PagingIsExact
<1> QED BY <1>1, Invariance, PTL

(* A page's machines are never older than the collection in its header,    *)
(* though they are read by another query (readmodel/store.go).             *)
THEOREM HeaderNeverAhead == Spec => []HeaderIsNeverAhead
<1>1. IInv => HeaderIsNeverAhead
  <2> SUFFICES ASSUME IInv, NEW r \in Requests, req[r].stage = "answered",
                      NEW m \in req[r].page.ids
               PROVE  \E c \in req[r].header .. now :
                        c # 0 /\ Matches(log[c][m], req[r].page.active)
    BY DEF HeaderIsNeverAhead
  <2> DEFINE hits == Hits(log[req[r].page.at], req[r].page.active, req[r].cursor)
  <2>1. hits \in SUBSET Machines
    BY DEF Hits
  <2>2. m \in hits
    BY <2>1, PagesAreCut DEF IInv, Read, ReadFrom
  <2>3. Matches(log[req[r].page.at][m], req[r].page.active)
    BY <2>2 DEF Hits
  <2>4. req[r].page.at \in req[r].header .. now /\ req[r].page.at # 0
    <3>1. req[r] \in Request /\ Len(log) \in Nat
      BY CollectionsAreNat DEF IInv, TypeOK
    <3>2. req[r].header \in Nat /\ req[r].page \in Page
      BY <3>1, HeadersAreNat DEF Request
    <3>3. req[r].page.at \in Nat /\ req[r].page.at # 0
      BY <3>2, CollectionsAreNat DEF Page, Collections
    <3>4. req[r].header <= req[r].page.at /\ req[r].page.at <= Len(log)
      BY DEF IInv, Read, now
    <3> QED BY <3>1, <3>2, <3>3, <3>4 DEF now
  <2> QED BY <2>3, <2>4
<1> QED BY <1>1, Invariance, PTL
-----------------------------------------------------------------------------
(* Liveness. The provers do not compute ENABLED: that a request in flight  *)
(* can always take its next step or fail, and that the timer can fire when *)
(* a slot is free, is a hypothesis of the theorems below.                  *)
CanProgress(r) == ENABLED <<Progress(r)>>_vars
CanRefresh == ENABLED <<Refresh>>_vars

RequestsCanStep ==
  /\ \A r \in Requests : r \in InFlight => CanProgress(r)
  /\ interval /\ (\E r \in Requests : r \notin InFlight) => CanRefresh

At(r, stage) == req[r].stage = stage
SameQuestion(r) ==
  req'[r].append = req[r].append /\ req'[r].page.active = req[r].page.active

(* A request's own step brings it one stage on, or ends it and the loading *)
(* with it.                                                                *)
LEMMA OwnStep ==
  ASSUME IInv, NEW r \in Requests, Progress(r)
  PROVE  \/ At(r, "sent") /\ At(r, "header")' /\ SameQuestion(r)
         \/ At(r, "header") /\ At(r, "answered")' /\ SameQuestion(r)
         \/ /\ At(r, "idle")' /\ ~At(r, "idle") /\ ~loading'
            /\ status' = "offline" \/ (At(r, "answered") /\ Receive(r))
<1>1. req \in [Requests -> Request] /\ req[r] \in Request /\ req[r].page \in Page
  BY DEF IInv, TypeOK, Request
<1>2. CASE latestCollection(r)
  BY <1>1, <1>2 DEF latestCollection, At, SameQuestion, Request
<1>3. CASE queryMachines(r)
  <2> DEFINE hits == Hits(log[now], req[r].page.active, req[r].cursor)
             page == [req[r].page EXCEPT !.ids = PageIds(hits), !.next = NextCursor(hits), !.at = now]
  <2>1. req' = [req EXCEPT ![r].stage = "answered", ![r].page = page]
    BY <1>3 DEF queryMachines
  <2>2. page.active = req[r].page.active
    BY <1>1 DEF Page
  <2>3. req[r].stage = "header"
    BY <1>3 DEF queryMachines
  <2> HIDE DEF page
  <2> QED BY <1>1, <2>1, <2>2, <2>3 DEF At, SameQuestion, Request
<1>4. CASE Receive(r)
  <2>1. req' = [Disturbed(req) EXCEPT ![r] = Idle] /\ At(r, "answered") /\ loading' = FALSE
    BY <1>4 DEF Receive, At
  <2>2. req'[r] = Idle
    BY <1>1, <2>1, DisturbedType
  <2> QED BY <1>4, <2>1, <2>2, IdleType DEF At
<1>5. CASE Fail(r)
  BY <1>1, <1>5, IdleType DEF Fail, At, InFlight
<1> QED BY <1>2, <1>3, <1>4, <1>5 DEF Progress

(* What another step does to it: at most it sends it, if it was free.      *)
LEMMA OtherStep ==
  ASSUME IInv, NEW r \in Requests, [Next]_vars, ~Progress(r)
  PROVE  \/ req'[r].stage = req[r].stage /\ SameQuestion(r)
         \/ At(r, "idle") /\ At(r, "sent")' /\ req'[r].page.active = activeFilter'
<1>1. req \in [Requests -> Request] /\ activeFilter \in ActiveFilters /\ cursorRef \in Cursors
  BY DEF IInv, TypeOK
<1>2. ASSUME NEW q \in Requests, NEW append \in BOOLEAN, fetchPage(q, append),
             UNCHANGED activeFilter
      PROVE  \/ req'[r] = req[r]
             \/ At(r, "idle") /\ At(r, "sent")' /\ req'[r].page.active = activeFilter'
  <2>1. CASE q = r
    BY <1>1, <1>2, <2>1 DEF fetchPage, At, InFlight, Ask
  <2>2. CASE q # r
    BY <1>1, <1>2, <2>2 DEF fetchPage
  <2> QED BY <2>1, <2>2
<1>3. ASSUME NEW q \in Requests,
             \/ AutoRefresh(q) \/ RefreshClick(q) \/ LoadMoreClick(q)
             \/ \E on \in BOOLEAN : SetInterval(q, on)
      PROVE  \/ req'[r] = req[r]
             \/ At(r, "idle") /\ At(r, "sent")' /\ req'[r].page.active = activeFilter'
  <2>1. \E append \in BOOLEAN : fetchPage(q, append) /\ UNCHANGED activeFilter
    BY <1>3 DEF AutoRefresh, RefreshClick, LoadMoreClick, SetInterval
  <2> QED BY <1>2, <2>1
<1>4. ASSUME NEW q \in Requests, NEW active \in Filters, SetFilter(q, active)
      PROVE  \/ req'[r].stage = req[r].stage /\ SameQuestion(r)
             \/ At(r, "idle") /\ At(r, "sent")' /\ req'[r].page.active = activeFilter'
  <2>1. /\ req' = [Disturbed(req) EXCEPT ![q] = Ask(FALSE, active, None)]
        /\ activeFilter' = active /\ At(q, "idle")
    BY <1>4 DEF SetFilter, At, InFlight
  <2>2. CASE q = r
    BY <1>1, <2>1, <2>2, DisturbedType DEF At, Ask
  <2>3. CASE q # r
    <3>1. req'[r] = Disturbed(req)[r]
      BY <1>1, <2>1, <2>3, DisturbedType
    <3> QED BY <1>1, <3>1, DisturbedType DEF SameQuestion
  <2> QED BY <2>2, <2>3
<1>5. ASSUME NEW q \in Requests, Progress(q)
      PROVE  req'[r].stage = req[r].stage /\ SameQuestion(r)
  <2>1. q # r
    BY <1>5
  <2>2. CASE Receive(q)
    <3>1. req' = [Disturbed(req) EXCEPT ![q] = Idle]
      BY <2>2 DEF Receive
    <3>2. req'[r] = Disturbed(req)[r]
      BY <1>1, <2>1, <3>1, DisturbedType
    <3> QED BY <1>1, <3>2, DisturbedType DEF SameQuestion
  <2>3. CASE latestCollection(q) \/ queryMachines(q) \/ Fail(q)
    BY <1>1, <2>1, <2>3 DEF latestCollection, queryMachines, Fail, SameQuestion
  <2> QED BY <1>5, <2>2, <2>3 DEF Progress
<1>6. CASE Commit \/ CommitLate \/ UNCHANGED vars
  BY <1>6 DEF Commit, CommitLate, vars, SameQuestion
<1> QED BY <1>3, <1>4, <1>5, <1>6 DEF Next, SameQuestion, Progress

(* Loading is never on with nothing in flight that would end it.           *)
LoadingIsServed == loading => InFlight # {}

LEMMA LoadingStep == IInv /\ LoadingIsServed /\ [Next]_vars => LoadingIsServed'
<1> SUFFICES ASSUME IInv, LoadingIsServed, [Next]_vars, loading'
             PROVE  \E r \in Requests : ~At(r, "idle")'
  BY DEF LoadingIsServed, InFlight, At
<1>1. req \in [Requests -> Request] /\ activeFilter \in ActiveFilters /\ cursorRef \in Cursors
  BY DEF IInv, TypeOK
<1>2. CASE loading
  <2>1. PICK r \in Requests : ~At(r, "idle")
    BY <1>2 DEF LoadingIsServed, InFlight, At
  <2>2. CASE Progress(r)
    BY <2>1, <2>2, OwnStep DEF At
  <2>3. CASE ~Progress(r)
    BY <2>1, <2>3, OtherStep DEF At
  <2> QED BY <2>2, <2>3
<1>3. CASE ~loading
  <2>1. ASSUME NEW r \in Requests, NEW append \in BOOLEAN, fetchPage(r, append)
        PROVE  ~At(r, "idle")'
    BY <1>1, <2>1 DEF fetchPage, Ask, At
  <2>2. ASSUME NEW r \in Requests, NEW active \in Filters, SetFilter(r, active)
        PROVE  ~At(r, "idle")'
    BY <1>1, <2>2, DisturbedType DEF SetFilter, Ask, At
  <2>3. ASSUME NEW r \in Requests,
               \/ AutoRefresh(r) \/ RefreshClick(r) \/ LoadMoreClick(r)
               \/ \E on \in BOOLEAN : SetInterval(r, on)
        PROVE  ~At(r, "idle")'
    <3>1. \E append \in BOOLEAN : fetchPage(r, append)
      BY <2>3 DEF AutoRefresh, RefreshClick, LoadMoreClick, SetInterval
    <3> QED BY <2>1, <3>1
  <2>4. ASSUME NEW r \in Requests, Progress(r)
        PROVE  FALSE
    BY <1>3, <2>4 DEF Progress, latestCollection, queryMachines, Receive, Fail, ui
  <2>5. CASE Commit \/ CommitLate \/ UNCHANGED vars
    BY <1>3, <2>5 DEF Commit, CommitLate, vars, ui
  <2> QED BY <2>2, <2>3, <2>4, <2>5 DEF Next, Progress
<1> QED BY <1>2, <1>3

LEMMA LoadingInvariance == Spec => []LoadingIsServed
<1>1. Init => LoadingIsServed
  <2> SUFFICES ASSUME Init PROVE LoadingIsServed
    OBVIOUS
  <2>1. PICK q \in Requests :
          req = [r \in Requests |-> IF r = q THEN Ask(FALSE, "true", None) ELSE Idle]
    BY DEF Init
  <2>2. req[q].stage = "sent"
    BY <2>1 DEF Ask
  <2> QED BY <2>2 DEF LoadingIsServed, InFlight
<1> QED BY <1>1, LoadingStep, Invariance, PTL DEF Spec

(* A request in flight ends, and the loading with it.                      *)
LEMMA RequestsEnd ==
  ASSUME NEW r \in Requests
  PROVE  Spec /\ []RequestsCanStep => [](~At(r, "idle") => <>(At(r, "idle") /\ ~loading))
<1> DEFINE Ended == At(r, "idle") /\ ~loading
<1>1. IInv => At(r, "idle") \/ At(r, "sent") \/ At(r, "header") \/ At(r, "answered")
  BY DEF IInv, TypeOK, Request, Stages, At
<1>2. /\ IInv /\ At(r, "sent") /\ [Next]_vars => At(r, "sent")' \/ At(r, "header")' \/ Ended'
      /\ IInv /\ At(r, "header") /\ [Next]_vars => At(r, "header")' \/ At(r, "answered")' \/ Ended'
      /\ IInv /\ At(r, "answered") /\ [Next]_vars => At(r, "answered")' \/ Ended'
  BY OwnStep, OtherStep DEF At
<1>3. /\ IInv /\ At(r, "sent") /\ <<Progress(r)>>_vars => At(r, "header")' \/ Ended'
      /\ IInv /\ At(r, "header") /\ <<Progress(r)>>_vars => At(r, "answered")' \/ Ended'
      /\ IInv /\ At(r, "answered") /\ <<Progress(r)>>_vars => Ended'
  BY OwnStep DEF At
<1>4. RequestsCanStep /\ ~At(r, "idle") => CanProgress(r)
  BY DEF RequestsCanStep, InFlight, At
<1>5. At(r, "sent") \/ At(r, "header") \/ At(r, "answered") => ~At(r, "idle")
  BY DEF At
<1>6. Fairness => RequestFairness(r)
  BY DEF Fairness
<1> HIDE DEF Ended
<1>7. Spec /\ []RequestsCanStep => [](~At(r, "idle") => <>Ended)
  BY <1>1, <1>2, <1>3, <1>4, <1>5, <1>6, Invariance, PTL DEF Spec, RequestFairness, CanProgress
<1> QED BY <1>7 DEF Ended

(* Whatever is in flight, answered or failed, and however often the timer  *)
(* and the user send more, the refresh button is free again (useTopology:  *)
(* the finally of fetchPage).                                              *)
THEOREM LoadingAlwaysEnds == Spec /\ []RequestsCanStep => LoadingEnds
<1> DEFINE Free == ~loading
<1>1. ASSUME NEW r \in Requests
      PROVE  Spec /\ []RequestsCanStep => [](~At(r, "idle") => <>Free)
  BY RequestsEnd, PTL
<1>2. Spec /\ []RequestsCanStep => \A r \in Requests : [](~At(r, "idle") => <>Free)
  BY <1>1
<1>3. (\A r \in Requests : [](~At(r, "idle") => <>Free))
        => [](\A r \in Requests : (~At(r, "idle") => <>Free))
  OBVIOUS
<1>4. (\A r \in Requests : (~At(r, "idle") => <>Free))
        => ((\E r \in Requests : ~At(r, "idle")) => <>Free)
  OBVIOUS
<1>5. LoadingIsServed => Free \/ \E r \in Requests : ~At(r, "idle")
  BY DEF LoadingIsServed, InFlight, At
<1>6. Spec /\ []RequestsCanStep => []<>Free
  BY <1>2, <1>3, <1>4, <1>5, LoadingInvariance, PTL
<1> QED BY <1>6 DEF LoadingEnds
-----------------------------------------------------------------------------
(* The filter. A request in flight carries the filter of when it was sent; *)
(* it is late when another one has been selected since.                    *)
AskedFor(r, f) == At(r, "idle") \/ req[r].page.active = f

(* Of the requests that another filter sent, each ends, and once a filter  *)
(* stays selected no control and no timer sends another one for any other. *)
LateRequestsEnd ==
  \A f \in Filters, r \in Requests :
    <>[](activeFilter = f) => <>[]AskedFor(r, f)

THEOREM LateRequestsDieOut == Spec /\ []RequestsCanStep => LateRequestsEnd
<1> SUFFICES ASSUME NEW f \in Filters, NEW r \in Requests
             PROVE  Spec /\ []RequestsCanStep =>
                      (<>[](activeFilter = f) => <>[]AskedFor(r, f))
  BY DEF LateRequestsEnd
<1> DEFINE Selected == activeFilter = f
<1>1. IInv /\ AskedFor(r, f) /\ [Next]_vars /\ Selected' => AskedFor(r, f)'
  <2> SUFFICES ASSUME IInv, AskedFor(r, f), [Next]_vars, Selected' PROVE AskedFor(r, f)'
    OBVIOUS
  <2>1. CASE Progress(r)
    BY <2>1, OwnStep DEF AskedFor, At, SameQuestion
  <2>2. CASE ~Progress(r)
    BY <2>2, OtherStep DEF AskedFor, At, SameQuestion
  <2> QED BY <2>1, <2>2
<1>2. At(r, "idle") => AskedFor(r, f)
  BY DEF AskedFor
<1> HIDE DEF Selected
<1>3. Spec /\ []RequestsCanStep => (<>[]Selected => <>[]AskedFor(r, f))
  BY <1>1, <1>2, RequestsEnd, Invariance, PTL DEF Spec
<1> QED BY <1>3 DEF Selected

(* The console as FilterPrevails leaves it, and nothing late in flight.    *)
Chosen(f) ==
  /\ activeFilter = f /\ interval /\ status = "online"
  /\ \A r \in Requests : AskedFor(r, f)

ShowsOnly(f) == data # None /\ \A i \in DOMAIN data.pages : data.pages[i].active = f
ListsOnly(f) == \A i \in DOMAIN machinesRef : machinesRef[i].active = f

Refreshing(r, stage) == At(r, stage) /\ ~req[r].append
Refreshes(r) == ~At(r, "idle") /\ ~req[r].append

(* A response applied while one filter is chosen is the whole of the list  *)
(* or adds a page of that filter to it.                                    *)
LEMMA Applied ==
  ASSUME IInv, NEW f, NEW r \in Requests, Receive(r), req[r].page.active = f,
         ~req[r].append \/ ListsOnly(f)
  PROVE  (ShowsOnly(f) /\ ListsOnly(f))'
<1> DEFINE page == req[r].page
<1>1. /\ req[r] \in Request /\ page \in Page /\ page.active = f
      /\ machinesRef \in Seq(Page)
  BY DEF IInv, TypeOK, Request
<1>2. /\ machinesRef' = IF req[r].append THEN Append(machinesRef, page) ELSE <<page>>
      /\ data' = [pages |-> machinesRef', header |-> req[r].header,
                  hasMore |-> page.next # None]
  BY DEF Receive, tables
<1> HIDE DEF page
<1>3. machinesRef' \in Seq(Page) /\ ListsOnly(f)'
  BY <1>1, <1>2 DEF ListsOnly
<1>4. data' \in Shown /\ data'.pages = machinesRef'
  BY <1>1, <1>2, <1>3 DEF Shown, Request
<1> QED BY <1>3, <1>4, ShownAssumption DEF ShowsOnly, ListsOnly

LEMMA ChosenStep ==
  ASSUME NEW f \in Filters, IInv, Chosen(f), Chosen(f)', [Next]_vars,
         ShowsOnly(f), ListsOnly(f)
  PROVE  (ShowsOnly(f) /\ ListsOnly(f))'
<1>1. ASSUME NEW r \in Requests, Receive(r) PROVE (ShowsOnly(f) /\ ListsOnly(f))'
  <2>1. req[r].page.active = f
    BY <1>1 DEF Receive, Chosen, AskedFor, At
  <2> QED BY <1>1, <2>1, Applied
<1>2. ASSUME NEW r \in Requests, NEW active \in Filters, SetFilter(r, active) PROVE FALSE
  BY <1>2 DEF SetFilter, Chosen
<1>3. ASSUME ~\E r \in Requests : Receive(r) PROVE UNCHANGED <<data, machinesRef>>
  <2>1. ASSUME NEW r \in Requests,
               \/ AutoRefresh(r) \/ RefreshClick(r) \/ LoadMoreClick(r)
               \/ \E on \in BOOLEAN : SetInterval(r, on)
        PROVE  UNCHANGED <<data, machinesRef>>
    BY <2>1 DEF AutoRefresh, RefreshClick, LoadMoreClick, SetInterval
  <2>2. ASSUME NEW r \in Requests, latestCollection(r) \/ queryMachines(r) \/ Fail(r)
        PROVE  UNCHANGED <<data, machinesRef>>
    BY <2>2 DEF latestCollection, queryMachines, Fail, ui
  <2>3. CASE Commit \/ CommitLate \/ UNCHANGED vars
    BY <2>3 DEF Commit, CommitLate, vars, ui
  <2> QED BY <1>2, <1>3, <2>1, <2>2, <2>3, Zenon DEF Next
<1> QED BY <1>1, <1>3 DEF ShowsOnly, ListsOnly

(* What FilterPrevails says of the shown pages, once nothing late is in    *)
(* flight any more. LateRequestsDieOut says that of every single request;  *)
(* that it is then true of all of them at once takes an induction over the *)
(* finite set they are.                                                    *)
FreshAnswersPrevail == \A f \in Filters : <>[]Chosen(f) => <>[]ShowsOnly(f)

(* The timer sends a refresh in the end, though every slot may be taken    *)
(* when it fires, and its response replaces whatever a late one left       *)
(* (useTopology.js, fetchPage and the interval effect).                    *)
THEOREM AnswersPrevail == Spec /\ []RequestsCanStep => FreshAnswersPrevail
<1> SUFFICES ASSUME NEW f \in Filters
             PROVE  Spec /\ []RequestsCanStep => (<>[]Chosen(f) => <>[]ShowsOnly(f))
  BY DEF FreshAnswersPrevail
<1> DEFINE Good == ShowsOnly(f) /\ ListsOnly(f)
           Someone == \E r \in Requests : Refreshes(r)
           Slot == \E r \in Requests : At(r, "idle")
<1>1. Good => ShowsOnly(f)
  OBVIOUS
<1>2. IInv /\ Chosen(f) /\ Chosen(f)' /\ Good /\ [Next]_vars => Good'
  BY ChosenStep
<1>3. ASSUME NEW r \in Requests
      PROVE  Spec /\ []RequestsCanStep => []([]Chosen(f) => (Refreshes(r) => <>Good))
  <2>1. IInv /\ Refreshes(r) =>
          Refreshing(r, "sent") \/ Refreshing(r, "header") \/ Refreshing(r, "answered")
    BY DEF IInv, TypeOK, Request, Stages, At, Refreshes, Refreshing
  <2>2. /\ IInv /\ Refreshing(r, "sent") /\ Chosen(f) /\ Chosen(f)' /\ [Next]_vars =>
             Refreshing(r, "sent")' \/ Refreshing(r, "header")'
        /\ IInv /\ Refreshing(r, "sent") /\ Chosen(f) /\ Chosen(f)' /\ <<Progress(r)>>_vars =>
             Refreshing(r, "header")'
    BY OwnStep, OtherStep DEF At, Refreshing, SameQuestion, Chosen
  <2>3. /\ IInv /\ Refreshing(r, "header") /\ Chosen(f) /\ Chosen(f)' /\ [Next]_vars =>
             Refreshing(r, "header")' \/ Refreshing(r, "answered")'
        /\ IInv /\ Refreshing(r, "header") /\ Chosen(f) /\ Chosen(f)' /\ <<Progress(r)>>_vars =>
             Refreshing(r, "answered")'
    BY OwnStep, OtherStep DEF At, Refreshing, SameQuestion, Chosen
  <2>4. ASSUME IInv, Refreshing(r, "answered"), Chosen(f), Chosen(f)', Progress(r)
        PROVE  Good'
    <3>1. Receive(r)
      BY <2>4, OwnStep DEF At, Refreshing, Chosen
    <3>2. req[r].page.active = f
      BY <2>4 DEF Refreshing, Chosen, AskedFor, At
    <3> QED BY <2>4, <3>1, <3>2, Applied DEF Refreshing
  <2>5. /\ IInv /\ Refreshing(r, "answered") /\ Chosen(f) /\ Chosen(f)' /\ [Next]_vars =>
             Refreshing(r, "answered")' \/ Good'
        /\ IInv /\ Refreshing(r, "answered") /\ Chosen(f) /\ Chosen(f)' /\ <<Progress(r)>>_vars =>
             Good'
    <3> HIDE DEF Good
    <3> QED BY <2>4, OtherStep DEF At, Refreshing, SameQuestion
  <2>6. /\ RequestsCanStep /\ Refreshing(r, "sent") => CanProgress(r)
        /\ RequestsCanStep /\ Refreshing(r, "header") => CanProgress(r)
        /\ RequestsCanStep /\ Refreshing(r, "answered") => CanProgress(r)
    BY DEF RequestsCanStep, InFlight, At, Refreshing
  <2>7. Fairness => RequestFairness(r)
    BY DEF Fairness
  <2> HIDE DEF Good
  <2> QED BY <2>1, <2>2, <2>3, <2>5, <2>6, <2>7, Invariance, PTL
          DEF Spec, RequestFairness, CanProgress
<1> HIDE DEF Good
<1>4. Spec /\ []RequestsCanStep => []([]Chosen(f) => (Someone => <>Good))
  <2>1. Spec /\ []RequestsCanStep =>
          \A r \in Requests : []([]Chosen(f) => (Refreshes(r) => <>Good))
    BY <1>3
  <2>2. (\A r \in Requests : []([]Chosen(f) => (Refreshes(r) => <>Good)))
          => [](\A r \in Requests : ([]Chosen(f) => (Refreshes(r) => <>Good)))
    OBVIOUS
  <2>3. (\A r \in Requests : ([]Chosen(f) => (Refreshes(r) => <>Good)))
          => ([]Chosen(f) => (Someone => <>Good))
    OBVIOUS
  <2> QED BY <2>1, <2>2, <2>3, PTL
<1>5. Spec /\ []RequestsCanStep => []<>Slot
  <2>1. Init => Requests # {}
    BY DEF Init
  <2>2. ASSUME NEW r \in Requests
        PROVE  Spec /\ []RequestsCanStep => []<>Slot
    <3>1. At(r, "idle") => Slot
      OBVIOUS
    <3> HIDE DEF Slot
    <3> QED BY <3>1, RequestsEnd, PTL
  <2>3. Requests # {} => (Spec /\ []RequestsCanStep => []<>Slot)
    BY <2>2
  <2> HIDE DEF Slot
  <2> QED BY <2>1, <2>3, PTL DEF Spec
<1>6. RequestsCanStep /\ Chosen(f) /\ Slot => CanRefresh
  BY DEF RequestsCanStep, InFlight, At, Chosen
<1>7. IInv /\ <<Refresh>>_vars => Someone'
  <2> SUFFICES ASSUME IInv, NEW r \in Requests, AutoRefresh(r)
               PROVE  Refreshes(r)'
    BY DEF Refresh
  <2>1. req \in [Requests -> Request]
    BY DEF IInv, TypeOK
  <2> QED BY <2>1 DEF AutoRefresh, fetchPage, Ask, Refreshes, At
<1> HIDE DEF Someone, Slot
<1>8. Fairness => TimerFairness
  BY DEF Fairness
<1> QED BY <1>1, <1>2, <1>4, <1>5, <1>6, <1>7, <1>8, Invariance, PTL
        DEF Spec, TimerFairness, CanRefresh
=============================================================================
