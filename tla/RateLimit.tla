------------------------------- MODULE RateLimit -------------------------------
(***************************************************************************)
(* RateLimitGuard over RedisService.incrementWithExpiry: a counter for     *)
(* each key, raised by INCR and given its time to live by an EXPIRE of its *)
(* own after the first INCR.  A caller whose Redis command fails passes.   *)
(***************************************************************************)
EXTENDS Integers

CONSTANTS Identities, Limit

ASSUME LimitAssumption == Limit \in Nat \ {0}

VARIABLES
  hits,       \* the counter of each identity on the route; 0: no such key
  expiring    \* those whose counter has a time to live

rateVars == <<hits, expiring>>

RateInit ==
  /\ hits = [i \in Identities |-> 0]
  /\ expiring = {}

\* INCR keeps the time to live of the key it raises.
Incr(i) ==
  /\ hits' = [hits EXCEPT ![i] = @ + 1]
  /\ UNCHANGED expiring

\* EXPIRE comes from the call whose INCR made the key, which cannot end before.
Expire(i) ==
  /\ expiring' = expiring \cup {i}
  /\ UNCHANGED hits

WindowEnds(i) ==
  /\ i \in expiring
  /\ hits' = [hits EXCEPT ![i] = 0]
  /\ expiring' = expiring \ {i}

IsFirst(count) == count = 1
IsFarOver(count) == count > Limit + 1   \* not: an off-by-one in canActivate
IsOver(count) == count > Limit
===============================================================================
