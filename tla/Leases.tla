------------------------------- MODULE Leases -------------------------------
(***************************************************************************)
(* What internal/pool promises its callers, and all that rfc/ relies on:   *)
(* at most Limit leases are out at once, and a resource is in at most one  *)
(* of them.  How a lease comes about (idle stack, free slots, queue,       *)
(* janitor) is the business of Pool, which implements this specification.  *)
(***************************************************************************)
EXTENDS Naturals, FiniteSets

CONSTANTS Holders, Resources, Limit, Nobody

VARIABLE lent \* the resource each holder has a lease on, or Nobody

Lessees == {h \in Holders : lent[h] # Nobody}

Init == lent = [h \in Holders |-> Nobody]

Available(r) == \A h \in Holders : lent[h] # r

(* Acquire returns a lease on r.                                           *)
Lend(h, r) ==
  /\ lent[h] = Nobody /\ Available(r)
  /\ Cardinality(Lessees) < Limit
  /\ lent' = [lent EXCEPT ![h] = r]

(* Lease.Release or Lease.Discard takes effect.                            *)
Return(h) ==
  /\ lent[h] # Nobody
  /\ lent' = [lent EXCEPT ![h] = Nobody]

Next == \E h \in Holders : Return(h) \/ \E r \in Resources : Lend(h, r)

Spec == Init /\ [][Next]_lent
=============================================================================
