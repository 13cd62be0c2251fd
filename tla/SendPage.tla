------------------------------- MODULE SendPage -------------------------------
(***************************************************************************)
(* The web client's send page (app/(app)/send/page.tsx) and its API client *)
(* (lib/api-client.ts) in front of an API that does what PaymentBook       *)
(* promises.  The network may lose a request, deliver it after the browser *)
(* gave up on it, or lose its answer; the user may go back, edit, review   *)
(* again, retry, start over or reload the page at any time it lets them.   *)
(*                                                                         *)
(* Keys are numbered in the order they are minted.  A body is a recipient  *)
(* and an amount; the note belongs to the body as the amount does.         *)
(***************************************************************************)
EXTENDS Integers, Sequences

CONSTANTS
  Users, Me,
  Amounts,
  Requests, Terms, Opening, SendLimit,   \* as in PaymentBook
  Unused,       \* a key the API has no record of
  Nothing,      \* an empty field, and no key, receipt or awaited request
  Elsewhere,    \* what others, and the user's other pages, ask of the API
  MaxEdits,     \* bounds of an exploration: edits of the form,
  MaxReviews,   \* confirmation screens
  MaxPosts      \* and requests sent

Recipients == Users \ {Me}
Bodies == [to : Recipients, amount : Amounts]
Blank == [to |-> Nothing, amount |-> Nothing]

\* What the page posts, for each key it mints.
Mine(k, body) == [route |-> "transfer", actor |-> Me, key |-> k, body |-> body]
Intents == {Mine(k, b) : k \in 1..MaxReviews, b \in Bodies} \cup Elsewhere

ASSUME PageAssumption ==
  /\ Me \in Users
  /\ Nothing \notin Recipients \cup Amounts \cup Bodies \cup 1..MaxPosts \cup 1..MaxReviews
  /\ Unused \notin Bodies
  /\ \A i \in Elsewhere : i.actor \in Users /\ (i.actor # Me \/ i.route # "transfer")

ASSUME AmountsAssumption ==
  /\ Amounts \subseteq Nat /\ Opening \in [Users -> Nat] /\ SendLimit \in Nat
  /\ Terms \in [Requests -> [payer : Users, requester : Users, amount : Nat]]
  /\ \A i \in Elsewhere :
       IF i.route = "transfer" THEN i.body.amount \in Nat ELSE i.body.request \in Requests

ASSUME BoundsAssumption == MaxEdits \in Nat /\ MaxReviews \in Nat /\ MaxPosts \in Nat

VARIABLES
  \* The page
  stage,        \* compose, confirm or done
  form,         \* recipient and amountText
  key,          \* idempotencyKeyRef
  submitting,   \* isSubmitting
  notice,       \* submitError: none, failed or unconfirmed
  receipt,
  \* The network
  posts,        \* requests sent: key and body of each
  travelling,   \* those the API has not handled (and may never see)
  awaited,      \* the request whose fetch is pending
  answer,       \* what the API answered to it
  \* The API
  balance, sent, status, used,
  \* History
  edits,        \* edits so far: two reviews without one between are one intent
  reviewed      \* each confirmation screen: its body and edits

page == <<stage, form, key, submitting, notice, receipt>>
network == <<posts, travelling, awaited, answer>>
api == <<balance, sent, status, used>>
history == <<edits, reviewed>>
vars == <<page, network, api, history>>

API == INSTANCE PaymentBook
-------------------------------------------------------------------------------
\* The picker, the amount field and the quick amounts: shown while composing.
Edit ==
  /\ stage = "compose"
  /\ edits < MaxEdits
  /\ \/ \E to \in Recipients \cup {Nothing} : form' = [form EXCEPT !.to = to]
     \/ \E amount \in Amounts \cup {Nothing} : form' = [form EXCEPT !.amount = amount]
  /\ edits' = edits + 1
  /\ UNCHANGED <<stage, key, submitting, notice, receipt, network, api, reviewed>>

KeptKey == IF key = Nothing THEN Len(reviewed) + 1 ELSE key   \* not: mint it once
KeyForReview == Len(reviewed) + 1
AddresseeOnly == form.to # Nothing   \* not: the amount is not checked
Complete == form.to # Nothing /\ form.amount # Nothing

\* handleReview past its checks.  Refused, it changes no more than a message;
\* so does its hint about the balance, which only ever refuses.
Review ==
  /\ stage = "compose"
  /\ Complete
  /\ Len(reviewed) < MaxReviews
  /\ key' = KeyForReview
  /\ reviewed' = Append(reviewed, [body |-> form, edits |-> edits])
  /\ notice' = "none"
  /\ stage' = "confirm"
  /\ UNCHANGED <<form, submitting, receipt, network, api, edits>>

FreshKey == Len(posts) + 1   \* not: mint one for each attempt
PostedKey == key

\* handleConfirm up to its await.
Confirm ==
  /\ stage = "confirm" /\ ~submitting /\ key # Nothing
  /\ Len(posts) < MaxPosts
  /\ submitting' = TRUE
  /\ notice' = "none"
  /\ posts' = Append(posts, [key |-> PostedKey, body |-> form])
  /\ travelling' = travelling \cup {Len(posts) + 1}
  /\ awaited' = Len(posts) + 1
  /\ answer' = "none"
  /\ UNCHANGED <<stage, form, key, receipt, api, history>>

\* Its end: the finally.
Settled ==
  /\ submitting' = FALSE
  /\ awaited' = Nothing
  /\ answer' = "none"

Succeed ==
  /\ submitting /\ answer = "receipt"
  /\ Settled
  /\ receipt' = posts[awaited].body
  /\ stage' = "done"
  /\ UNCHANGED <<form, key, notice, posts, travelling, api, history>>

\* An error answer, or a body the client cannot read.
Fail ==
  /\ submitting /\ answer \in {"error", "receipt"}
  /\ Settled
  /\ notice' = "failed"
  /\ UNCHANGED <<stage, form, key, receipt, posts, travelling, api, history>>

\* fetch throws: the API may have handled the request, or may do so later.
GiveUp ==
  /\ submitting /\ awaited # Nothing
  /\ Settled
  /\ notice' = "unconfirmed"
  /\ UNCHANGED <<stage, form, key, receipt, posts, travelling, api, history>>

AlwaysEnabled == TRUE   \* not: a Back button that works while sending
BackEnabled == ~submitting

Back ==
  /\ stage = "confirm" /\ BackEnabled
  /\ stage' = "compose"
  /\ notice' = "none"
  /\ UNCHANGED <<form, key, submitting, receipt, network, api, history>>

StartOver ==
  /\ stage' = "compose"
  /\ form' = Blank
  /\ key' = Nothing
  /\ notice' = "none"
  /\ receipt' = Nothing

\* resetForAnother
SendAnother ==
  /\ stage = "done"
  /\ edits < MaxEdits
  /\ StartOver
  /\ edits' = edits + 1
  /\ UNCHANGED <<submitting, network, api, reviewed>>

\* A reload, or leaving the page and coming back: a new mount.
Reload ==
  /\ edits < MaxEdits
  /\ StartOver
  /\ submitting' = FALSE
  /\ awaited' = Nothing
  /\ answer' = "none"
  /\ edits' = edits + 1
  /\ UNCHANGED <<posts, travelling, api, reviewed>>
-------------------------------------------------------------------------------
AnswerTo(p, a) ==
  /\ travelling' = travelling \ {p}
  /\ answer' = IF awaited = p THEN a ELSE answer
  /\ UNCHANGED <<posts, awaited>>

\* The request pays.  The answer is a receipt, or an error if the handler did
\* not hear that its COMMIT was applied.
Pay(p) ==
  /\ API!Transfer(Mine(posts[p].key, posts[p].body))
  /\ \E a \in {"receipt", "error"} : AnswerTo(p, a)

\* Its key was spent on the same body: the receipt once more.
Replay(p) ==
  /\ used[API!Key(Mine(posts[p].key, posts[p].body))] = posts[p].body
  /\ AnswerTo(p, "receipt")
  /\ UNCHANGED api

\* Any answer without an effect: a guard, a check, the key spent on another
\* body, a rolled-back transaction, or a CSRF fetch that failed before it.
Refuse(p) ==
  /\ AnswerTo(p, "error")
  /\ UNCHANGED api

Handle ==
  /\ \E p \in travelling : Pay(p) \/ Replay(p) \/ Refuse(p)
  /\ UNCHANGED <<page, history>>

Others ==
  /\ \E i \in Elsewhere : API!Transfer(i) \/ API!Accept(i) \/ API!Decline(i) \/ API!Cancel(i)
  /\ UNCHANGED <<page, network, history>>
-------------------------------------------------------------------------------
Init ==
  /\ stage = "compose" /\ form = Blank /\ key = Nothing
  /\ submitting = FALSE /\ notice = "none" /\ receipt = Nothing
  /\ posts = <<>> /\ travelling = {} /\ awaited = Nothing /\ answer = "none"
  /\ API!Init
  /\ edits = 0 /\ reviewed = <<>>

Page == Edit \/ Review \/ Confirm \/ Succeed \/ Fail \/ GiveUp \/ Back \/ SendAnother \/ Reload

Next == Page \/ Handle \/ Others

Spec == Init /\ [][Next]_vars
===============================================================================
