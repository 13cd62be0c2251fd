------------------------ MODULE RequestsPageProperties ------------------------
(* What the requests page must and, by its comments, is meant to guarantee. *)
EXTENDS RequestsPage

Creations == {p \in DOMAIN posts : posts[p].what = "create"}

\* "A retry after a dropped response cannot create a second request": two money
\* requests of the page have an edit of the form between them, whatever was
\* lost, retried, cancelled or left behind.
OneRequestPerForm ==
  \A p, q \in Creations :
    /\ made[posts[p].key] # Nothing /\ made[posts[q].key] # Nothing
    /\ posts[p].edits = posts[q].edits
    => posts[p].key = posts[q].key

\* "Reusing a stale key against a changed payload would otherwise be rejected":
\* no key ever leaves the page with two bodies.
KeyKeepsItsBody ==
  \A p, q \in Creations : posts[p].key = posts[q].key => posts[p].body = posts[q].body

\* Whether the list shows p's effect: a money request made, if only as
\* something the payer has decided since, or the decision taken.
Shows(p) ==
  IF p \in Creations THEN shown[posts[p].key] # "absent"
  ELSE shown[posts[p].request] = Result[posts[p].what]

\* Once the page was told that something went through, a list it has loaded
\* without an error shows it: a load made before the decision cannot put the
\* Accept button back.
WhatWasConfirmedIsShown == ~loading /\ ~listError => \A p \in told : Shows(p)
-------------------------------------------------------------------------------
Statuses == {"absent", "PENDING", "ACCEPTED", "DECLINED", "CANCELLED"}
CreatePosts == [what : {"create"}, key : Keys, body : Forms, edits : Nat]
ActPosts == [what : Actions, request : MoneyRequests]

\* What the page and the network hold.
HoldInv ==
  /\ form \in Forms /\ key \in Keys \cup {Nothing} /\ edits \in Nat
  /\ posts \in Seq(CreatePosts \cup ActPosts) /\ Len(posts) <= MaxPosts
  /\ travelling \subseteq DOMAIN posts /\ confirmed \subseteq DOMAIN posts
  /\ told \subseteq confirmed
  /\ status \in [MoneyRequests -> Statuses]
  /\ made \in [Keys -> Forms \cup {Nothing}]

\* A key is that of the form since its last edit, and no other key goes out for
\* the same form: a blank form is edited before it can be submitted.
FormInv ==
  /\ key # Nothing => key <= Len(posts)
  /\ \A p \in Creations :
       /\ posts[p].key <= Len(posts)
       /\ posts[p].edits <= edits
       /\ posts[p].edits = edits => form = Blank \/ key = posts[p].key
       /\ posts[p].key = key => form = posts[p].body
       /\ \A q \in Creations :
            /\ posts[p].edits = posts[q].edits => posts[p].key = posts[q].key
            /\ posts[p].key = posts[q].key => posts[p].body = posts[q].body

\* What p asked for has happened at the API, for good.
Done(p) ==
  IF p \in Creations THEN status[posts[p].key] # "absent"
  ELSE status[posts[p].request] = Result[posts[p].what]

DoneInv ==
  /\ \A k \in Keys : made[k] # Nothing <=> status[k] # "absent"
  /\ \A p \in confirmed : Done(p)

\* Whatever a load is answered shows that p went through.
Tells(load, p) ==
  IF p \in Creations
  THEN load.outgoing # Nothing => load.outgoing[posts[p].key] # "absent"
  ELSE LET r == posts[p].request  result == Result[posts[p].what] IN
       /\ r \in Incoming /\ load.incoming # Nothing => load.incoming[r] = result
       /\ r \in Keys /\ load.outgoing # Nothing => load.outgoing[r] = result

\* The load awaited began after the page was told the last thing.
LoadInv ==
  /\ token \in Nat
  /\ \A load \in loads :
       /\ load = [n |-> load.n, incoming |-> load.incoming, outgoing |-> load.outgoing]
       /\ load.n \in Nat /\ load.n <= token
       /\ Current(load) => \A p \in told : Tells(load, p)

\* What the page was told went through has happened: the request exists, or the
\* decision taken is the one the API stands by.
ToldIsDone == \A p \in told : Done(p)

\* Once a money request is decided, nothing undecides it or decides it otherwise,
\* on either side and however late a click arrives.
DecisionsAreFinal ==
  [][\A r \in MoneyRequests : status[r] \notin {"absent", "PENDING"} => status'[r] = status[r]]_status

RequestsInv == HoldInv /\ FormInv /\ DoneInv /\ LoadInv /\ WhatWasConfirmedIsShown
===============================================================================
