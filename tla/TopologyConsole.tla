-------------------------- MODULE TopologyConsole ---------------------------
(***************************************************************************)
(* The web console's data: the hook useTopology with the controls of       *)
(* Toolbar and MachineTable that drive it, composed with the read model    *)
(* that answers it while ingestion commits. A request is never aborted and *)
(* responses carry no sequence number, so several may be in flight and be  *)
(* applied in any order.                                                   *)
(*                                                                         *)
(* A page is the set of its machine ids with the query and the database    *)
(* states it was read from; machinesRef is the sequence of pages that the  *)
(* code's array concatenates. Selection, search and drawing are in         *)
(* TopologyView.                                                           *)
(***************************************************************************)
EXTENDS ReadModel, Sequences

CONSTANTS
  Filters,         \* the choices of the filter control, "true" among them
  Requests,        \* bound: requests in flight at once
  InitialTables,   \* the tables a console may be opened on: the machines
                   \* and whether a run is stored, 1, or none is, 0
  Snapshots,       \* what a collection may see, see Commit
  MaxCollections,  \* bound: collections committed
  MaxPages         \* bound: pages shown or being added

ASSUME FiltersAssumption == Filters \subseteq ActiveFilters /\ "true" \in Filters
ASSUME BoundsAssumption ==
  /\ MaxCollections \in Nat \ {0} /\ MaxPages \in Nat
  /\ InitialTables \subseteq [rows : [Machines -> RowStates], runs : {0, 1}]
  /\ Snapshots \subseteq [seen : SUBSET Machines, complete : BOOLEAN]

VARIABLES
  log,           \* log[c]: the machines table after the c-th commit; history
  latest,        \* the commit whose run completed last, 0 without a run
  req,           \* what each request in flight knows, see Request
  machinesRef,   \* machinesRef.current as the sequence of its pages
  cursorRef,     \* cursorRef.current
  data,          \* the state shown, None before the first response
  status,        \* connecting, online or offline
  loading,       \* the refresh button is disabled
  interval,      \* auto-refresh is on
  activeFilter,  \* the filter selected
  clean          \* history: machinesRef was built by undisturbed requests

vars == <<log, latest, req, machinesRef, cursorRef, data, status, loading, interval,
          activeFilter, clean>>

tables == <<log, latest>>

ui == <<machinesRef, cursorRef, data, status, loading, interval, activeFilter, clean>>

Collections == 1 .. MaxCollections
Cursors == Machines \cup {None}

(* The collection a page names as the latest; 0 stands for a page without. *)
Headers == 0 .. MaxCollections

(* A page: the filter it was asked for, the machines it returned, and the  *)
(* last commit when they were read.                                        *)
Page == [active : ActiveFilters, ids : SUBSET Machines, next : Cursors, at : Collections]

(* A request and its page as far as the server has read it, with the       *)
(* collection the page's header names. undisturbed is history: nothing was *)
(* applied or reset since the request was sent.                            *)
Stages == {"idle", "sent", "header", "answered"}

Request ==
  [stage : Stages, append : BOOLEAN, cursor : Cursors, header : Headers,
   page : Page, undisturbed : BOOLEAN]

Ask(append, active, cursor) ==
  [stage |-> "sent", append |-> append, cursor |-> cursor, header |-> 0,
   page |-> [active |-> active, ids |-> {}, next |-> None, at |-> 1],
   undisturbed |-> TRUE]

Idle == [Ask(FALSE, "", None) EXCEPT !.stage = "idle", !.undisturbed = FALSE]

Shown == [pages : Seq(Page), header : Headers, hasMore : BOOLEAN]

ASSUME ShownAssumption == None \notin Shown

now == Len(log)

TypeOK ==
  /\ log \in Seq([Machines -> RowStates]) /\ Len(log) \in Collections
  /\ latest \in 0 .. Len(log)
  /\ req \in [Requests -> Request]
  /\ machinesRef \in Seq(Page)
  /\ cursorRef \in Cursors
  /\ data \in Shown \cup {None}
  /\ status \in {"connecting", "online", "offline"}
  /\ loading \in BOOLEAN /\ interval \in BOOLEAN /\ clean \in BOOLEAN
  /\ activeFilter \in ActiveFilters

(* The first render has run both effects.                                  *)
Init ==
  /\ \E t \in InitialTables : log = <<t.rows>> /\ latest = t.runs
  /\ \E q \in Requests :
       req = [r \in Requests |-> IF r = q THEN Ask(FALSE, "true", None) ELSE Idle]
  /\ machinesRef = <<>>
  /\ cursorRef = None
  /\ data = None
  /\ status = "connecting"
  /\ loading = TRUE
  /\ interval = TRUE
  /\ activeFilter = "true"
  /\ clean = TRUE

-----------------------------------------------------------------------------
(* The controls. fetchPage sends without looking at what is in flight.     *)

InFlight == {r \in Requests : req[r].stage # "idle"}

fetchPage(r, append) ==
  /\ r \notin InFlight
  /\ req' = [req EXCEPT ![r] =
       Ask(append, activeFilter, IF append THEN cursorRef ELSE None)]
  /\ loading' = TRUE

(* Mutant: the timer keeps the fetchPage of the first rendering.           *)
AutoRefreshStale(r) ==
  /\ interval
  /\ r \notin InFlight
  /\ req' = [req EXCEPT ![r] = Ask(FALSE, "true", None)]
  /\ loading' = TRUE
  /\ UNCHANGED <<tables, machinesRef, cursorRef, data, status, interval, activeFilter, clean>>

(* The auto-refresh timer fires.                                           *)
AutoRefresh(r) ==
  /\ interval
  /\ fetchPage(r, FALSE)
  /\ UNCHANGED <<tables, machinesRef, cursorRef, data, status, interval, activeFilter, clean>>

(* The refresh button, disabled while loading.                             *)
RefreshClick(r) ==
  /\ ~loading
  /\ fetchPage(r, FALSE)
  /\ UNCHANGED <<tables, machinesRef, cursorRef, data, status, interval, activeFilter, clean>>

(* The button below the table, shown by what was last received.            *)
LoadMoreClick(r) ==
  /\ data # None /\ data.hasMore
  /\ Len(machinesRef) + Cardinality({q \in InFlight : req[q].append}) < MaxPages
  /\ fetchPage(r, TRUE)
  /\ UNCHANGED <<tables, machinesRef, cursorRef, data, status, interval, activeFilter, clean>>

(* An interval is chosen: the effect refreshes at once and arms the timer. *)
SetInterval(r, on) ==
  /\ on # interval
  /\ interval' = on
  /\ fetchPage(r, FALSE)
  /\ UNCHANGED <<tables, machinesRef, cursorRef, data, status, activeFilter, clean>>

(* Whatever is in flight when a response is applied or the list is reset   *)
(* has been disturbed.                                                     *)
Disturbed(requests) == [r \in Requests |-> [requests[r] EXCEPT !.undisturbed = FALSE]]

(* A filter is chosen: fetchPage is made anew, so the first effect sends a *)
(* refresh with it and re-arms the timer, and the second resets the refs.  *)
(* What is shown stays until a response comes.                             *)
SetFilter(r, active) ==
  /\ active # activeFilter
  /\ activeFilter' = active
  /\ r \notin InFlight
  /\ req' = [Disturbed(req) EXCEPT ![r] = Ask(FALSE, active, None)]
  /\ loading' = TRUE
  /\ cursorRef' = None
  /\ machinesRef' = <<>>
  /\ clean' = TRUE
  /\ UNCHANGED <<tables, data, status, interval>>

-----------------------------------------------------------------------------
(* The server. Each query sees what is committed when it runs.             *)

(* Mutant: the header is read after the machines.                          *)
queryMachinesFirst(r) ==
  /\ req[r].stage = "header"
  /\ LET before == IF req[r].header = 0 THEN 1 ELSE req[r].header
         hits == Hits(log[before], req[r].page.active, req[r].cursor)
     IN  req' = [req EXCEPT ![r].stage = "answered", ![r].header = latest,
                   ![r].page = [@ EXCEPT !.ids = PageIds(hits), !.next = NextCursor(hits),
                                         !.at = before]]
  /\ UNCHANGED <<tables, ui>>

(* The run that completed last, whenever it was committed. Without a run   *)
(* the page has no header and is read all the same.                        *)
latestCollection(r) ==
  /\ req[r].stage = "sent"
  /\ req' = [req EXCEPT ![r].stage = "header", ![r].header = latest]
  /\ UNCHANGED <<tables, ui>>

queryMachines(r) ==
  /\ req[r].stage = "header"
  /\ LET hits == Hits(log[now], req[r].page.active, req[r].cursor)
     IN  req' = [req EXCEPT ![r].stage = "answered",
                   ![r].page = [@ EXCEPT !.ids = PageIds(hits), !.next = NextCursor(hits),
                                         !.at = now]]
  /\ UNCHANGED <<tables, ui>>

(* What ingestion (TopologyStore) makes of the machines table: those seen  *)
(* are active, the others that have a row are marked if the collection was *)
(* complete; rows whose guards do not let it through are kept.             *)
Ingest(rows, s, kept) ==
  [m \in Machines |->
     IF m \in kept THEN rows[m]
     ELSE IF m \in s.seen THEN "active"
     ELSE IF s.complete /\ rows[m] = "active" THEN "inactive"
     ELSE rows[m]]

(* A collection that completed after all that are stored is committed.     *)
Commit ==
  /\ now < MaxCollections
  /\ \E s \in Snapshots : log' = Append(log, Ingest(log[now], s, {}))
  /\ latest' = now + 1
  /\ UNCHANGED <<req, ui>>

(* One that completed before the latest is committed late: rows that a     *)
(* later one has touched may be kept.                                      *)
CommitLate ==
  /\ now < MaxCollections
  /\ latest # 0
  /\ \E s \in Snapshots, kept \in SUBSET {m \in Machines : log[now][m] # "unknown"} :
       log' = Append(log, Ingest(log[now], s, kept))
  /\ UNCHANGED <<latest, req, ui>>

-----------------------------------------------------------------------------
(* The end of a request.                                                   *)

(* Mutant: loading ends only when nothing else is in flight.               *)
ReceiveLoading(r) ==
  /\ req[r].stage = "answered"
  /\ LET page == req[r].page
     IN  /\ machinesRef' = IF req[r].append THEN Append(machinesRef, page) ELSE <<page>>
         /\ clean' = (req[r].append => clean /\ req[r].undisturbed)
         /\ cursorRef' = page.next
         /\ data' = [pages |-> machinesRef', header |-> req[r].header,
                     hasMore |-> page.next # None]
  /\ req' = [Disturbed(req) EXCEPT ![r] = Idle]
  /\ status' = "online"
  /\ loading' = (InFlight # {r})
  /\ UNCHANGED <<tables, interval, activeFilter>>

(* A response is applied, whatever was applied since it was asked for.     *)
Receive(r) ==
  /\ req[r].stage = "answered"
  /\ LET page == req[r].page
     IN  /\ machinesRef' = IF req[r].append THEN Append(machinesRef, page) ELSE <<page>>
         /\ clean' = (req[r].append => clean /\ req[r].undisturbed)
         /\ cursorRef' = page.next
         /\ data' = [pages |-> machinesRef', header |-> req[r].header,
                     hasMore |-> page.next # None]
  /\ req' = [Disturbed(req) EXCEPT ![r] = Idle]
  /\ status' = "online"
  /\ loading' = FALSE
  /\ UNCHANGED <<tables, interval, activeFilter>>

(* A query, the session, the connection or the answer's decoding fails.    *)
Fail(r) ==
  /\ r \in InFlight
  /\ req' = [req EXCEPT ![r] = Idle]
  /\ status' = "offline"
  /\ loading' = FALSE
  /\ UNCHANGED <<tables, machinesRef, cursorRef, data, interval, activeFilter, clean>>

(* The next step of a request in flight, and the timer.                    *)
Progress(r) == latestCollection(r) \/ queryMachines(r) \/ Receive(r) \/ Fail(r)
Refresh == \E r \in Requests : AutoRefresh(r)

Next ==
  \/ \E r \in Requests :
       \/ AutoRefresh(r) \/ RefreshClick(r) \/ LoadMoreClick(r)
       \/ \E on \in BOOLEAN : SetInterval(r, on)
       \/ \E active \in Filters : SetFilter(r, active)
       \/ latestCollection(r) \/ queryMachines(r)
       \/ Receive(r) \/ Fail(r)
  \/ Commit \/ CommitLate

(* Every request ends: the server's write deadline closes a connection it  *)
(* has not answered. The timer fires whatever is in flight, so that it may *)
(* find no free slot is the model's bound and not the console's.           *)
RequestFairness(r) == WF_vars(Progress(r))
TimerFairness == SF_vars(Refresh)

Fairness == (\A r \in Requests : RequestFairness(r)) /\ TimerFairness

Spec == Init /\ [][Next]_vars /\ Fairness

-----------------------------------------------------------------------------
(* Whoever matched the filter in every state from the reading of the first *)
(* page to that of the last.                                               *)
Steady(pages, m) ==
  \A c \in pages[1].at .. pages[Len(pages)].at : Matches(log[c][m], pages[1].active)

Covers(page, m) == page.next = None \/ m <= page.next

OneFilter(pages) == \A i \in DOMAIN pages : pages[i].active = pages[1].active

(* A list put together by undisturbed requests of one filter lists nobody  *)
(* twice, is in order, and has skipped no machine that matched all the     *)
(* while, though machines came and went between its pages.                 *)
PagingIsExact ==
  clean /\ machinesRef # <<>> /\ OneFilter(machinesRef) =>
    /\ \A i, j \in DOMAIN machinesRef : i < j =>
         \A m \in machinesRef[i].ids, n \in machinesRef[j].ids : m < n
    /\ \A m \in Machines :
         Steady(machinesRef, m) /\ Covers(machinesRef[Len(machinesRef)], m) =>
           \E i \in DOMAIN machinesRef : m \in machinesRef[i].ids

(* A page never names a collection as the latest and shows, under it, a    *)
(* machine as it was before that collection was committed: what a page     *)
(* mixes is only newer, also when collections are committed late.          *)
HeaderIsNeverAhead ==
  \A r \in Requests : req[r].stage = "answered" =>
    \A m \in req[r].page.ids :
      \E c \in req[r].header .. now : c # 0 /\ Matches(log[c][m], req[r].page.active)

(* Loading ends, again and again, also when requests fail.                 *)
LoadingEnds == []<>~loading

(* With auto-refresh on and the server answering, the filter that stays    *)
(* selected is in the end the filter of all that is shown, whatever late   *)
(* response of another filter was applied meanwhile.                       *)
FilterPrevails ==
  \A f \in Filters :
    <>[](activeFilter = f /\ interval /\ status = "online") =>
      <>[](data # None /\ \A i \in DOMAIN data.pages : data.pages[i].active = f)
=============================================================================
