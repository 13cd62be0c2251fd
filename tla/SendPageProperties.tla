--------------------------- MODULE SendPageProperties ---------------------------
(* What the send page must and, by its comments, is meant to guarantee. *)
EXTENDS SendPage, FiniteSets

Spent(k) == used[API!Key(Mine(k, Blank))]
Keys == 1..MaxReviews

PageOK ==
  /\ stage \in {"compose", "confirm", "done"}
  /\ form \in [to : Recipients \cup {Nothing}, amount : Amounts \cup {Nothing}]
  /\ key \in Keys \cup {Nothing}
  /\ submitting \in BOOLEAN
  /\ notice \in {"none", "failed", "unconfirmed"}
  /\ receipt \in Bodies \cup {Nothing}

NetworkOK ==
  /\ posts \in Seq([key : Keys, body : Bodies]) /\ Len(posts) <= MaxPosts
  /\ travelling \subseteq DOMAIN posts
  /\ awaited \in DOMAIN posts \cup {Nothing}
  /\ answer \in {"none", "receipt", "error"}

ApiOK ==
  /\ balance \in [Users -> Nat] /\ sent \in [Users -> Nat]
  /\ status \in [Requests -> {"PENDING", "ACCEPTED", "DECLINED", "CANCELLED"}]
  /\ used \in [API!Keys -> {i.body : i \in Intents} \cup {Unused}]

HistoryOK ==
  /\ edits \in 0..MaxEdits
  /\ reviewed \in Seq([body : Bodies, edits : 0..MaxEdits]) /\ Len(reviewed) <= MaxReviews

TypeOK == PageOK /\ NetworkOK /\ ApiOK /\ HistoryOK

\* However the page retries and whatever the network delays, a body is paid at
\* most as often as the user was shown it on a confirmation screen.
PaidAsReviewed ==
  \A b \in Bodies :
    Cardinality({k \in Keys : Spent(k) = b})
      <= Cardinality({n \in DOMAIN reviewed : reviewed[n].body = b})

\* What the page calls sent was paid, under the key it holds, and is what the
\* page shows as its recipient.
ReceiptIsPaid == stage = "done" => Spent(key) = receipt /\ form = receipt

\* A request that is on its way cannot outlive a change of what it pays: every
\* request with the page's key carries the details on the screen.
SameKeySameBody ==
  \A p \in DOMAIN posts : stage = "confirm" /\ posts[p].key = key => posts[p].body = form

\* "One idempotency key per user intent": two payments of the page have an edit
\* between their confirmation screens.
OneIntentOnePayment ==
  \A m, n \in DOMAIN reviewed :
    m # n /\ Spent(m) # Unused /\ Spent(n) # Unused => reviewed[m].edits # reviewed[n].edits
-------------------------------------------------------------------------------
\* A key belongs to one confirmation screen: requests and payments under it
\* carry that screen's body.
KeyInv ==
  /\ \A p \in DOMAIN posts :
       posts[p].key \in DOMAIN reviewed /\ posts[p].body = reviewed[posts[p].key].body
  /\ \A k \in Keys, b \in Bodies :
       Spent(k) = b => k \in DOMAIN reviewed /\ reviewed[k].body = b

\* Past composing, the form is the one reviewed under the page's key.
ScreenInv ==
  /\ stage # "compose" => key \in DOMAIN reviewed /\ form = reviewed[key].body
  /\ stage = "done" => receipt = form /\ Spent(key) = receipt

\* The page awaits a request with its key, and hears of a receipt only if paid.
AwaitInv ==
  /\ submitting <=> awaited # Nothing
  /\ submitting => stage = "confirm" /\ posts[awaited].key = key
  /\ answer = "receipt" => submitting /\ Spent(key) = posts[awaited].body

IInv == TypeOK /\ KeyInv /\ ScreenInv /\ AwaitInv
-------------------------------------------------------------------------------
\* It takes the Back button of a confirmation screen that has sent its request:
\* the page then mints a second key for the same intent.
BackBeforeSending == [][Back => \A p \in DOMAIN posts : posts[p].key # key]_vars

\* Where the user goes back only before sending, of the confirmation screens
\* without an edit between only the last has sent anything.
Posted(k) == \E p \in DOMAIN posts : posts[p].key = k
ScreensInv ==
  /\ \A k \in Keys, b \in Bodies : Spent(k) # Unused => Posted(k)
  /\ \A n \in DOMAIN reviewed : reviewed[n].edits <= edits
  /\ \A m, n \in DOMAIN reviewed : m < n /\ reviewed[m].edits = reviewed[n].edits => ~Posted(m)
  /\ stage = "compose" => \A n \in DOMAIN reviewed : reviewed[n].edits = edits => ~Posted(n)
  /\ stage # "compose" => key = Len(reviewed) /\ reviewed[key].edits = edits
===============================================================================
