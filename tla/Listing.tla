------------------------------ MODULE Listing -------------------------------
(* The paged lists of the API (app/api/routes/resources.py) as the console   *)
(* reads them (src/frontend/app/page.tsx, requestAllPages): page after page, *)
(* while partners and chargers go on adding rows. A list handler counts the  *)
(* rows and reads the page in two statements, and under READ COMMITTED each  *)
(* sees what has been committed by then. The list is that of the outbox;     *)
(* those of webhooks, messages and audit events are ordered in the same way, *)
(* newest first, and no list ever loses a row.                               *)
EXTENDS Webhooks

CONSTANT Limit    (* the page size the console asks for                      *)

ASSUME LimitAssumption == Limit \in Nat \ {0}

VARIABLE reading  (* the console's loop and the handler that serves it       *)

(* present and late are for the property: the rows when the loop began, and  *)
(* how many were added between the latest count and its page.                *)
Reading == [stage   : {"off", "asking", "counted", "done"},
            server  : Backends \cup {None},
            items   : SUBSET Events,
            offset  : Nat,
            total   : Nat,
            present : SUBSET Events,
            late    : Nat]

(* The types, and the console never asks beyond the end of the list.         *)
ListingTypeOK ==
    /\ WebhooksTypeOK
    /\ reading \in Reading
    /\ reading.offset <= Cardinality(created)

-----------------------------------------------------------------------------
(* order_by(created_at.desc()): how many rows come before one. An event      *)
(* stands for its created_at, the time its transaction began; transactions   *)
(* commit in any order, so a row may appear anywhere in the list.            *)
Rank(e) == Cardinality({f \in created : f > e})

Page(offset, limit) == {e \in created : Rank(e) \in offset .. offset + limit - 1}

Total == Cardinality(created)

(* The offset of the next page.                                              *)
NextByLimit(offset, page) == offset + Limit                    (* variant *)

NextOffset(offset, page) == offset + Cardinality(page)

(* Where the console's loop ends: read is the number of items it has, with   *)
(* those it was given twice.                                                 *)
EndsEarly(page, read, total) == page = {} \/ read + 1 >= total (* variant *)

Ends(page, read, total) == page = {} \/ read >= total

ListingInit ==
    /\ WebhooksInit
    /\ reading = [stage |-> "off", server |-> None, items |-> {}, offset |-> 0,
                  total |-> 0, present |-> {}, late |-> 0]

BeginList ==
    /\ reading.stage \in {"off", "done"}
    /\ reading' = [stage |-> "asking", server |-> None, items |-> {},
                   offset |-> 0, total |-> 0, present |-> created, late |-> 0]
    /\ UNCHANGED <<vars, partner>>

(* The handler runs on a backend that is in no other, and keeps it from      *)
(* running another until the page is read.                                   *)
CountRows(b) ==
    /\ reading.stage = "asking"
    /\ inserting[b] = None
    /\ reading' = [reading EXCEPT !.stage = "counted", !.server = b,
                                  !.total = Total, !.late = 0]
    /\ UNCHANGED <<vars, partner>>

ReadPage ==
    /\ reading.stage = "counted"
    /\ LET page == Page(reading.offset, Limit)
           read == NextOffset(reading.offset, page)
       IN  reading' = [reading EXCEPT
              !.items = @ \cup page,
              !.offset = read,
              !.server = None,
              !.stage = IF Ends(page, read, reading.total) THEN "done"
                        ELSE "asking"]
    /\ UNCHANGED <<vars, partner>>

(* Other requests, on the other backends while a page is being served.       *)
Others ==
    /\ WebhooksNext
    /\ reading.server # None =>
          /\ inserting'[reading.server] = inserting[reading.server]
          /\ Backends = {reading.server} => created' = created
    /\ reading' = [reading EXCEPT
          !.late = IF reading.stage = "counted"
                   THEN @ + Cardinality(created' \ created) ELSE @]

ListingNext ==
    \/ BeginList
    \/ \E b \in Backends : CountRows(b)
    \/ ReadPage
    \/ Others

ListingSpec == ListingInit /\ [][ListingNext]_<<vars, partner, reading>>

-----------------------------------------------------------------------------
(* A list read to its end has every row that was there when the loop began,  *)
(* although rows added meanwhile shift the pages, save as many as were added *)
(* between the last count and its page; with a single backend that is none   *)
(* (resources.py:51-56, 278-307; page.tsx:303-323).                          *)
ListedComplete ==
    reading.stage = "done" =>
        Cardinality(reading.present \ reading.items) <= reading.late

=============================================================================
