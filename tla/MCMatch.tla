------------------------------ MODULE MCMatch ------------------------------
(***************************************************************************)
(* Instances of MatchService for TLC. Players are interchangeable, so are  *)
(* connections, and what a collected ticket last held is not part of a     *)
(* state's identity.                                                       *)
(***************************************************************************)
EXTENDS MatchService, TLC

CONSTANTS u1, u2, u3, u4, h1, h2, m1, m2, m3

Perms == Permutations(UIDs) \cup Permutations(Handlers)

\* Every player sends every rating; or each has its own.
AnyRating == [u \in UIDs |-> MMRs]

OwnRating == [u \in UIDs |-> IF u = u1 THEN {290} ELSE {310}]

\* Every connection carries every request; or one the cancels of both.
AnyRequest == [h \in Handlers |-> {"match", "cancel"}]

CancelsApart == [h \in Handlers |-> IF h = h1 THEN {"match"} ELSE {"cancel"}]

Live == <<[t \in TicketIds |-> IF t \in Unreferenced THEN NoTicket ELSE heap[t]],
          tickets, pool, buckets, routes, hpc, hreq, tpc, cands, ti, cur,
          notifyCh, settle, mstate, members, redisUp, settling, claims, raced>>
=============================================================================
