------------------------------ MODULE MCOutbox ------------------------------
(***************************************************************************)
(* Small instances of Outbox: two publishers and three events, of which    *)
(* `again` is a retry of `one` with the same idempotency key.              *)
(***************************************************************************)
EXTENDS Outbox, TLC

CONSTANTS one, again, two, p1, p2

MCEvents == {one, again, two}
MCKeyOf == (one :> 1) @@ (again :> 1) @@ (two :> 2)
MCRank == (one :> 1) @@ (again :> 2) @@ (two :> 3)
MCDelay == (one :> 0) @@ (again :> 0) @@ (two :> 1)
MCPublishers == {p1, p2}
=============================================================================
