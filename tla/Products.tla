------------------------------- MODULE Products -------------------------------
(***************************************************************************)
(* What the queries on table products return: the lists the dashboard and  *)
(* the digest show, in their SQL order, their pages and their counts.  A   *)
(* table is a sequence of rows [expires, status], indexed by id.           *)
(***************************************************************************)
EXTENDS Integers, Sequences, FiniteSets

CONSTANTS
    PageSize,   \* products on a page of a list
    Closings    \* the statuses a product card has buttons for

ASSUME ProductsAssumption ==
    PageSize \in Nat \ {0} /\ Closings \subseteq {"consumed", "discarded", "deleted"}

Modes == {"list", "soon"}
SoonDays == 3

Active(ps) == {p \in DOMAIN ps : ps[p].status = "active"}
Soon(ps, day) == {p \in Active(ps) : ps[p].expires >= day /\ ps[p].expires <= day + SoonDays}
Expired(ps, day) == {p \in Active(ps) : ps[p].expires < day}

Before(ps, p, q) ==
    \/ ps[p].expires < ps[q].expires
    \/ ps[p].expires = ps[q].expires /\ p > q

ByExpiry(ps, ids) ==
    [i \in 1..Cardinality(ids) |->
        CHOOSE p \in ids : Cardinality({q \in ids : q = p \/ Before(ps, q, p)}) = i]

Listed(ps, mode, day) == ByExpiry(ps, IF mode = "soon" THEN Soon(ps, day) ELSE Active(ps))

PageCount(total) == IF total <= 0 THEN 0 ELSE (total - 1) \div PageSize + 1

\* The number of products a list has, counted by a statement of its own.
Total(ps, mode, day) == Cardinality(IF mode = "soon" THEN Soon(ps, day) ELSE Active(ps))

\* Faulty variant: a page beyond the last is shown, empty.
ClampPageNot(page, total) == page

\* A page beyond the last is shown as the last.
ClampPage(page, total) ==
    IF total <= 0 THEN 0
    ELSE IF page > (total - 1) \div PageSize THEN (total - 1) \div PageSize ELSE page

\* LIMIT PageSize OFFSET page * PageSize
PageOf(list, page) ==
    LET after == page * PageSize
    IN  SubSeq(list, after + 1, IF after + PageSize < Len(list) THEN after + PageSize ELSE Len(list))

Count(ps, status) == Cardinality({p \in DOMAIN ps : ps[p].status = status})

Stats(ps, day) ==
    <<Cardinality(Active(ps)), Cardinality(Soon(ps, day)), Cardinality(Expired(ps, day)),
      Count(ps, "consumed"), Count(ps, "discarded"), Count(ps, "deleted")>>
===============================================================================
