---------------------------- MODULE SecretListing ----------------------------
(***************************************************************************)
(* The list of an account's secrets, page by page: getUserSecrets and      *)
(* deleteUserSecret of server/src/services/secrets.service.ts, and what    *)
(* happens to the rows elsewhere.                                          *)
(***************************************************************************)
EXTENDS Integers, Sequences, FiniteSets

CONSTANTS
    Id,        \* ids of secrets; their order is that of the ids as text
    LastTime,  \* the latest createdAt, in the ticks of the database
    PerMs,     \* how many ticks of the database make a tick of a JavaScript Date
    PageSize,  \* DASHBOARD_PAGE_SIZE
    Elsewhere, \* the statuses that secrets get elsewhere
    Null,      \* no row yet, no cursor, no answer yet
    Gone       \* the row of a secret that was there; an id is not used again

Status == {"active", "viewed", "expired", "deleted"}

Tab == Status \cup {"all"}

Time == 0 .. LastTime

Row == [at : Time, status : Status]

(* What the list shows of a row, and where it goes on from. *)
SecretItem == [id : Id, at : Time, status : Status]
Cursor == [id : Id, at : Time]
ListResponse == [secrets : Seq(SecretItem), next : Cursor \cup {Null}]

ListingAssumption ==
    /\ Id \subseteq Nat /\ IsFiniteSet(Id) /\ Null \notin Id
    /\ LastTime \in Nat /\ PerMs \in Nat \ {0} /\ PageSize \in Nat \ {0}
    /\ Elsewhere \subseteq Status
    /\ Null \notin Row \cup Cursor /\ Null \notin ListResponse /\ Gone \notin Row

VARIABLES
    rows, \* the account's rows of table secrets
    now

listing == <<rows, now>>

Existing == {id \in Id : rows[id] \notin {Null, Gone}}

ListingInit ==
    /\ now \in Time
    /\ rows \in [Id -> [at : 0 .. now, status : {"active"}] \cup {Null}]

-----------------------------------------------------------------------------
(* getUserSecrets *)

Matches(row, tab) == tab = "all" \/ row.status = tab

Newer(a, b) == a.at > b.at \/ (a.at = b.at /\ a.id > b.id)

(* Faulty: no tie-break. *)
CursorOfTime(item) == [id |-> 0, at |-> item.at]

(* encodeCursor writes createdAt as a Date has it, to the millisecond. *)
CursorOf(item) == [id |-> item.id, at |-> (item.at \div PerMs) * PerMs]

Beyond(item, cursor) == cursor = Null \/ Newer(cursor, item)

Items(tab) ==
    {[id |-> id, at |-> rows[id].at, status |-> rows[id].status] :
        id \in {i \in Existing : Matches(rows[i], tab)}}

NewestFirst(items) ==
    CHOOSE s \in [1 .. Cardinality(items) -> items] :
        \A i, j \in 1 .. Cardinality(items) : i < j => Newer(s[i], s[j])

(* One row more than a page tells whether there is a next one. *)
GetUserSecrets(tab, cursor) ==
    LET found == NewestFirst({i \in Items(tab) : Beyond(i, cursor)}) IN
    IF Len(found) > PageSize
    THEN [secrets |-> SubSeq(found, 1, PageSize), next |-> CursorOf(found[PageSize])]
    ELSE [secrets |-> found, next |-> Null]

-----------------------------------------------------------------------------
(* The rows. *)

SetsStatus(id, status) == rows' = [rows EXCEPT ![id].status = status] /\ UNCHANGED now

(* deleteUserSecret; the row stays. *)
Deletable(id) == id \in Existing /\ rows[id].status = "active"

Creates(id) ==
    /\ rows[id] = Null
    /\ now' \in {now, now + 1} \cap Time
    /\ rows' = [rows EXCEPT ![id] = [at |-> now', status |-> "active"]]

Changes(id) ==
    /\ Deletable(id)
    /\ \E status \in Elsewhere : SetsStatus(id, status)

(* The last wrong password, a reading after expiry. *)
Vanishes(id) ==
    /\ id \in Existing
    /\ rows' = [rows EXCEPT ![id] = Gone]
    /\ UNCHANGED now

==============================================================================
