----------------------------- MODULE PaymentBook -----------------------------
(***************************************************************************)
(* What the API promises about money and requests, with no transactions,   *)
(* locks, retries or failures: every intent takes effect at most once, in  *)
(* one indivisible step, and only when the books allow it at that instant. *)
(***************************************************************************)
EXTENDS Integers

CONSTANTS Users, Intents, Requests, Terms, Opening, SendLimit, Unused

Key(i) == <<i.actor, i.route, i.key>>
Keys == {Key(i) : i \in Intents}

VARIABLES
  balance,   \* what each user has
  sent,      \* what each user has sent
  status,    \* PENDING, or how the request ended
  used       \* the body each idempotency key was spent on, or Unused

bookVars == <<balance, sent, status, used>>

Spend(i) ==
  /\ used[Key(i)] = Unused
  /\ used' = [used EXCEPT ![Key(i)] = i.body]

Pay(from, to, amount) ==
  /\ from # to /\ to \in Users
  /\ balance[from] >= amount
  /\ sent[from] + amount <= SendLimit
  /\ balance' = [balance EXCEPT ![from] = @ - amount, ![to] = @ + amount]
  /\ sent' = [sent EXCEPT ![from] = @ + amount]

Settle(r, outcome) ==
  /\ status[r] = "PENDING"
  /\ status' = [status EXCEPT ![r] = outcome]

Transfer(i) ==
  /\ i.route = "transfer"
  /\ Spend(i)
  /\ Pay(i.actor, i.body.to, i.body.amount)
  /\ UNCHANGED status

Accept(i) ==
  LET t == Terms[i.body.request] IN
  /\ i.route = "accept" /\ i.actor = t.payer
  /\ Spend(i)
  /\ Settle(i.body.request, "ACCEPTED")
  /\ Pay(t.payer, t.requester, t.amount)

Decline(i) ==
  /\ i.route = "decline" /\ i.actor = Terms[i.body.request].payer
  /\ Spend(i)
  /\ Settle(i.body.request, "DECLINED")
  /\ UNCHANGED <<balance, sent>>

Cancel(i) ==
  /\ i.route = "cancel" /\ i.actor = Terms[i.body.request].requester
  /\ Spend(i)
  /\ Settle(i.body.request, "CANCELLED")
  /\ UNCHANGED <<balance, sent>>

Init ==
  /\ balance = Opening
  /\ sent = [u \in Users |-> 0]
  /\ status = [r \in Requests |-> "PENDING"]
  /\ used = [k \in Keys |-> Unused]

Next == \E i \in Intents : Transfer(i) \/ Accept(i) \/ Decline(i) \/ Cancel(i)

Spec == Init /\ [][Next]_bookVars
===============================================================================
