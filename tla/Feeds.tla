------------------------------- MODULE Feeds --------------------------------
(***************************************************************************)
(* The paged lists: order history, notifications and points of a customer, *)
(* orders of the staff, users and promocodes of the admin.  Every page is  *)
(* a query of its own with OFFSET and LIMIT (READ COMMITTED), and rows are *)
(* committed and change between two pages.  created_at and updated_at are  *)
(* now(), the start of the transaction that writes them.                   *)
(***************************************************************************)
EXTENDS Integers, Sequences, SequencesExt, FiniteSets

CONSTANTS
  PerPage,        \* per_page of the reader
  Rows,           \* rows of the table that is read
  MaxWrites       \* bound: transactions that begin, and changes of a row

ASSUME FeedsAssumption ==
  PerPage \in Nat \ {0} /\ Rows \in SUBSET Nat /\ IsFiniteSet(Rows)

VARIABLES
  feed,         \* which list is read
  feedRow,      \* per row: what is committed of it
  feedWriter,   \* a transaction with rows still uncommitted
  walk,         \* the reader: its next page, what it was shown
  stable,       \* history: rows in the list all along, with the same key
  left,         \* history: some row has left the list
  feedClock, writes

feedVars == <<feed, feedRow, feedWriter, walk, stable, left, feedClock, writes>>

OwnFeeds == {"orders", "points", "notices"}
StaffFeeds == {"active", "finished", "failed"}
AdminFeeds == {"users", "promocodes"}
FeedNames == OwnFeeds \cup StaffFeeds \cup AdminFeeds

NoRow == [is |-> "absent"]
IdleFeedWriter == [is |-> "idle"]

FeedsInit ==
  /\ feed \in FeedNames
  /\ feedRow = [r \in Rows |-> NoRow]
  /\ feedWriter = IdleFeedWriter
  /\ walk = [page |-> 1, shown |-> {}, ended |-> FALSE]
  /\ stable = {} /\ left = FALSE /\ feedClock = 1 /\ writes = 0

-----------------------------------------------------------------------------
(* Which rows a list has, and in which order                               *)

\* Orders not yet final, orders with a final status, orders of payments whose
\* refund failed.
ListedForStaff(x) ==
  \/ feed = "active" /\ x.is = "open"
  \/ feed = "finished" /\ x.is = "finished"
  \/ feed = "failed" /\ x.is = "failed"

\* Of the admin's filters, one state of an account, and one of a promocode, which
\* is computed for the moment of the query.
ListedUser(x) == feed = "users" /\ x.is = "open"
ListedPromocode(x) == feed = "promocodes" /\ x.is = "open"

\* What is the customer's own stays so.
Listed(x) ==
  /\ x.is # "absent"
  /\ \/ feed \in OwnFeeds
     \/ ListedForStaff(x) \/ ListedUser(x) \/ ListedPromocode(x)
InFeed == {r \in Rows : Listed(feedRow[r])}

\* The finished and the failed go by updated_at.
KeyOfRow(x) == IF feed \in {"finished", "failed"} THEN x.updated ELSE x.created

\* ORDER BY the key DESC and nothing else.
NewestFirst(r, s) == KeyOfRow(feedRow[r]) > KeyOfRow(feedRow[s])

\* Mutant: notifications of one transaction in any order.
NewestNoticeFirstByTime(r, s) == KeyOfRow(feedRow[r]) > KeyOfRow(feedRow[s])
\* created_at DESC, id DESC
NewestNoticeFirst(r, s) ==
  \/ KeyOfRow(feedRow[r]) > KeyOfRow(feedRow[s])
  \/ KeyOfRow(feedRow[r]) = KeyOfRow(feedRow[s]) /\ r > s
Ahead(r, s) == IF feed = "notices" THEN NewestNoticeFirst(r, s) ELSE NewestFirst(r, s)

\* PostgreSQL may return the rows in any order that agrees with the keys.
Sorted ==
  {q \in SetToSeqs(InFeed) : \A i, j \in DOMAIN q : i < j => ~Ahead(q[j], q[i])}
PageOf(q, n) == SubSeq(q, (n - 1) * PerPage + 1,
                       IF n * PerPage < Len(q) THEN n * PerPage ELSE Len(q))

-----------------------------------------------------------------------------
(* The writers                                                             *)

\* One order, user or promocode to a transaction.  Notifications, or the
\* accruals of orders that the auto-close job ends, may share one and its now().
BeginRows(rs) ==
  /\ feedWriter = IdleFeedWriter /\ writes < MaxWrites
  /\ rs # {} /\ \A r \in rs : feedRow[r] = NoRow
  /\ Cardinality(rs) > 1 => feed \in {"notices", "points"}
  /\ feedWriter' = [is |-> "open", rows |-> rs, at |-> feedClock]
  /\ feedClock' = feedClock + 1 /\ writes' = writes + 1
  /\ UNCHANGED <<feed, feedRow, walk, stable, left>>

CommitRows ==
  /\ feedWriter # IdleFeedWriter
  /\ feedRow' = [r \in Rows |-> IF r \in feedWriter.rows
                   THEN [is |-> "open", created |-> feedWriter.at, updated |-> feedWriter.at]
                   ELSE feedRow[r]]
  /\ feedWriter' = IdleFeedWriter
  /\ UNCHANGED <<feed, walk, stable, left, feedClock, writes>>

\* A short transaction that inserts a row and commits, past the one that is open.
InsertRow(r) ==
  /\ writes < MaxWrites /\ feedRow[r] = NoRow
  /\ feedWriter # IdleFeedWriter => r \notin feedWriter.rows
  /\ feedRow' = [feedRow EXCEPT ![r] =
                   [is |-> "open", created |-> feedClock, updated |-> feedClock]]
  /\ feedClock' = feedClock + 1 /\ writes' = writes + 1
  /\ UNCHANGED <<feed, feedWriter, walk, stable, left>>

\* A transaction changes rows: orders end one by one, or together in the
\* auto-close job; an account is blocked, a promocode expires.  A row of the
\* ledger or of the notifications never changes.
ChangeRows(rs, is) ==
  /\ writes < MaxWrites
  /\ rs # {} /\ \A r \in rs : feedRow[r] # NoRow /\ feedRow[r].is # is
  /\ Cardinality(rs) > 1 => is = "finished"
  /\ feed \notin {"notices", "points"}
  /\ feedRow' = [r \in Rows |-> IF r \in rs
                   THEN [feedRow[r] EXCEPT !.is = is, !.updated = feedClock] ELSE feedRow[r]]
  /\ left' = (left \/ \E r \in rs : Listed(feedRow[r]) /\ ~Listed(feedRow'[r]))
  /\ stable' = {r \in stable : /\ Listed(feedRow'[r])
                               /\ KeyOfRow(feedRow'[r]) = KeyOfRow(feedRow[r])}
  /\ feedClock' = feedClock + 1 /\ writes' = writes + 1
  /\ UNCHANGED <<feed, feedWriter, walk>>

-----------------------------------------------------------------------------
(* The reader                                                              *)

ReadPage ==
  /\ ~walk.ended
  /\ \E q \in Sorted :
       LET p == PageOf(q, walk.page) IN
       walk' = [page |-> walk.page + 1, shown |-> walk.shown \cup Range(p),
                ended |-> Len(p) < PerPage]
  /\ stable' = IF walk.page = 1 THEN InFeed ELSE stable
  /\ left' = IF walk.page = 1 THEN FALSE ELSE left
  /\ UNCHANGED <<feed, feedRow, feedWriter, feedClock, writes>>

ListOrders == feed = "orders" /\ ReadPage
ListTransactions == feed = "points" /\ ReadPage
ListNotifications == feed = "notices" /\ ReadPage
ListOrdersForStaff == feed \in StaffFeeds /\ ReadPage
ListUsers == feed = "users" /\ ReadPage
ListPromocodes == feed = "promocodes" /\ ReadPage

FeedsNext ==
  \/ \E rs \in SUBSET Rows : BeginRows(rs)
  \/ CommitRows
  \/ \E r \in Rows : InsertRow(r)
  \/ \E rs \in SUBSET Rows, is \in {"finished", "failed"} : ChangeRows(rs, is)
  \/ ListOrders \/ ListTransactions \/ ListNotifications
  \/ ListOrdersForStaff \/ ListUsers \/ ListPromocodes

FeedsSpec == FeedsInit /\ [][FeedsNext]_feedVars

-----------------------------------------------------------------------------
\* A reader who turns the pages to the end has been shown every row that was
\* there all along, unless a row left the list meanwhile (which moves the rest
\* one place up, past the next OFFSET) or rows with one timestamp stand in a list
\* that leaves open which comes first: the points, and the finished orders,
\* which the auto-close job writes together.  Nothing leaves the lists of a
\* customer: orders and notifications are shown without fail.
NoRowSkipped ==
  walk.ended /\ ~left =>
    \A r \in stable \ walk.shown :
      /\ feed \in {"points", "finished"}
      /\ \E s \in InFeed \ {r} : KeyOfRow(feedRow[s]) = KeyOfRow(feedRow[r])

=============================================================================
