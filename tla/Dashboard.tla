------------------------------ MODULE Dashboard ------------------------------
(***************************************************************************)
(* The table of the dashboard (renderSecretsTable of client/src/pages/     *)
(* dashboard.ts) over the account's list of secrets.  It shows the first   *)
(* page from the start; tabs and "Load more" fetch others, deletions mark  *)
(* rows.  Nothing keeps a fetch from being answered after a later one.     *)
(***************************************************************************)
EXTENDS SecretListing

CONSTANTS Tabs, MaxFetch  \* the tabs that are used, how many fetches there are

DashboardAssumption == Tabs \subseteq Tab /\ MaxFetch \in Nat

VARIABLES
    currentStatus,
    currentCursor,
    isLoadingMore,
    pageRows,
    fetches,  \* the calls of fetchPage not yet answered
    fetched,  \* how many there were
    deleting, \* the secrets whose deletion is under way, and how far it is
    steady,   \* history: what the tab has listed, and cursors discerned, all the
              \* time since it was chosen
    tidy      \* history: the tab's first page came, and since then no call of a
              \* former tab has

table == <<currentStatus, currentCursor, isLoadingMore, pageRows>>
tableVars == <<listing, table, fetches, fetched, deleting, steady, tidy>>

(* To a cursor, which knows the millisecond, those created in one look alike,
   unless at its very start. *)
Discerned(id) ==
    \A other \in Existing \ {id} :
        rows[other].at \div PerMs = rows[id].at \div PerMs =>
            rows[other].at = rows[id].at /\ rows[id].at % PerMs = 0

DashboardInit ==
    /\ ListingInit
    /\ currentStatus = "all"
    /\ pageRows = GetUserSecrets("all", Null).secrets
    /\ currentCursor = GetUserSecrets("all", Null).next
    /\ isLoadingMore = FALSE
    /\ fetches = {}
    /\ fetched = 0
    /\ deleting = {}
    /\ steady = {id \in Existing : Discerned(id)}
    /\ tidy = TRUE

-----------------------------------------------------------------------------
(* fetchPage.  A call is the tab's own if it was made since the tab was chosen,
   for the rows of that tab: history, too. *)
Fetches(under, tab, cursor, empty, own) ==
    /\ fetched < MaxFetch
    /\ fetched' = fetched + 1
    /\ fetches' = under \cup
         {[n |-> fetched', tab |-> tab, cursor |-> cursor,
           first |-> cursor = Null /\ empty, own |-> own, reply |-> Null]}

(* Faulty: a second click while the first is loading. *)
LoadMoreAgain ==
    /\ currentCursor # Null
    /\ isLoadingMore' = TRUE
    /\ Fetches(fetches, currentStatus, currentCursor, pageRows = <<>>, tidy)
    /\ UNCHANGED <<listing, currentStatus, currentCursor, pageRows, deleting, steady, tidy>>

LoadMore ==
    /\ ~ isLoadingMore /\ currentCursor # Null
    /\ isLoadingMore' = TRUE
    /\ Fetches(fetches, currentStatus, currentCursor, pageRows = <<>>, tidy)
    /\ UNCHANGED <<listing, currentStatus, currentCursor, pageRows, deleting, steady, tidy>>

ClickTab(tab) ==
    /\ tab # currentStatus
    /\ currentStatus' = tab
    /\ currentCursor' = Null
    /\ isLoadingMore' = FALSE
    /\ pageRows' = <<>>
    /\ Fetches({[f EXCEPT !.own = FALSE] : f \in fetches}, tab, Null, TRUE, TRUE)
    /\ tidy' = FALSE
    /\ steady' = {id \in Existing : Matches(rows[id], tab) /\ Discerned(id)}
    /\ UNCHANGED <<listing, deleting>>

ServePage(f) ==
    /\ f.reply = Null
    /\ fetches' = (fetches \ {f}) \cup
         {[f EXCEPT !.reply = GetUserSecrets(f.tab, f.cursor)]}
    /\ UNCHANGED <<listing, table, fetched, deleting, steady, tidy>>

(* Faulty: whether it was the first page is not asked before the await. *)
AnsweredLater(f) ==
    /\ f.reply # Null
    /\ fetches' = fetches \ {f}
    /\ pageRows' = IF pageRows = <<>> THEN f.reply.secrets ELSE pageRows \o f.reply.secrets
    /\ currentCursor' = f.reply.next
    /\ isLoadingMore' = FALSE
    /\ tidy' = (f.own /\ (tidy \/ f.first))
    /\ UNCHANGED <<listing, currentStatus, fetched, deleting, steady>>

(* The page that was fetched replaces the rows or is appended to what is
   there by now. *)
Answered(f) ==
    /\ f.reply # Null
    /\ fetches' = fetches \ {f}
    /\ pageRows' = IF f.first \/ pageRows = <<>> THEN f.reply.secrets
                                                 ELSE pageRows \o f.reply.secrets
    /\ currentCursor' = f.reply.next
    /\ isLoadingMore' = FALSE
    /\ tidy' = (f.own /\ (tidy \/ f.first))
    /\ UNCHANGED <<listing, currentStatus, fetched, deleting, steady>>

(* A toast; the rows and the cursor stay as they are.  A call of a former tab
   lets "Load more" be clicked while another one is loading. *)
FetchFails(f) ==
    /\ fetches' = fetches \ {f}
    /\ isLoadingMore' = FALSE
    /\ tidy' = (tidy /\ (f.own \/ ~ isLoadingMore))
    /\ UNCHANGED <<listing, currentStatus, currentCursor, pageRows, fetched, deleting, steady>>

-----------------------------------------------------------------------------
(* handleDelete *)

(* The button of a row that is shown as active, and then the modal's, which
   closes before the answer: several deletions may be under way. *)
ConfirmDelete ==
    /\ \E i \in 1 .. Len(pageRows) :
        /\ pageRows[i].status = "active"
        /\ deleting' = deleting \cup {[id |-> pageRows[i].id, done |-> FALSE]}
    /\ UNCHANGED <<listing, table, fetches, fetched, steady, tidy>>

(* What remains of the steady rows when the rows have become these. *)
Stay == steady' = {id \in steady : /\ rows'[id] # Gone
                                   /\ Matches(rows'[id], currentStatus)
                                   /\ Discerned(id)'}

ServeDelete(d) ==
    /\ ~ d.done
    /\ Deletable(d.id)
    /\ SetsStatus(d.id, "deleted")
    /\ Stay
    /\ deleting' = (deleting \ {d}) \cup {[d EXCEPT !.done = TRUE]}
    /\ UNCHANGED <<table, fetches, fetched, tidy>>

(* The first of the rows that has the id. *)
Marked(items, id) ==
    [i \in 1 .. Len(items) |->
        IF items[i].id = id /\ \A j \in 1 .. i - 1 : items[j].id # id
        THEN [items[i] EXCEPT !.status = "deleted"] ELSE items[i]]

DeleteAnswered(d) ==
    /\ d.done
    /\ pageRows' = Marked(pageRows, d.id)
    /\ deleting' = deleting \ {d}
    /\ UNCHANGED <<listing, currentStatus, currentCursor, isLoadingMore, fetches, fetched,
                   steady, tidy>>

(* 404, or the request or its answer is lost. *)
DeleteFails(d) ==
    /\ deleting' = deleting \ {d}
    /\ UNCHANGED <<listing, table, fetches, fetched, steady, tidy>>

(* Elsewhere: created, viewed, expired, destroyed. *)
RowsMove ==
    /\ \E id \in Id : Creates(id) \/ Changes(id) \/ Vanishes(id)
    /\ Stay
    /\ UNCHANGED <<table, fetches, fetched, deleting, tidy>>

TableNext ==
    \/ LoadMore
    \/ \E tab \in Tabs : ClickTab(tab)
    \/ \E f \in fetches : ServePage(f) \/ Answered(f) \/ FetchFails(f)
    \/ ConfirmDelete
    \/ \E d \in deleting : ServeDelete(d) \/ DeleteAnswered(d) \/ DeleteFails(d)
    \/ RowsMove

TableSpec == DashboardInit /\ [][TableNext]_tableVars

-----------------------------------------------------------------------------
(* Properties. *)

(* Pages that are fetched while secrets are created, viewed, deleted and gone
   make one list: each secret once, newest first, and of the tab's status or
   deleted here.  So it is from the tab's first page on, whatever came before
   it, until a call of a former tab comes back after it. *)
ShownInOrder ==
    tidy =>
        /\ \A i, j \in 1 .. Len(pageRows) : i < j => Newer(pageRows[i], pageRows[j])
        /\ \A i \in 1 .. Len(pageRows) : Matches(pageRows[i], currentStatus)
                                         \/ pageRows[i].status = "deleted"

(* secrets.service.ts:381: "nextCursor is null on the last page": without one,
   the table has, for as long, every secret that the tab listed all the time,
   and that a cursor could tell from its neighbours. *)
AllListed ==
    tidy /\ currentCursor = Null =>
        steady \subseteq {pageRows[i].id : i \in 1 .. Len(pageRows)}

==============================================================================
