---------------------------- MODULE SendPageProofs ----------------------------
(***************************************************************************)
(* The inductive invariant of SendPage and what follows from it, for any   *)
(* number of users, amounts, edits, confirmation screens and requests.     *)
(***************************************************************************)
EXTENDS SendPageProperties, FiniteSetTheorems, SequenceTheorems, TLAPS

\* The page's place in the API's table of keys.
LEMMA MineIsAKey ==
  ASSUME NEW k \in Keys, NEW b \in Bodies
  PROVE  API!Key(Mine(k, Blank)) \in API!Keys /\ API!Key(Mine(k, b)) = API!Key(Mine(k, Blank))
<1>1. Mine(k, b) \in Intents
  BY DEF Intents, Keys
<1>2. API!Key(Mine(k, b)) = API!Key(Mine(k, Blank))
  BY DEF API!Key, Mine
<1> QED BY <1>1, <1>2 DEF API!Keys

\* Paying spends one unused key; what the page has spent stays spent.
LEMMA SpendKeeps ==
  ASSUME used \in [API!Keys -> {i.body : i \in Intents} \cup {Unused}],
         NEW i \in Intents, API!Spend(i), NEW k \in Keys, NEW b \in Bodies
  PROVE  /\ Spent(k) = b => Spent(k)' = b
         /\ Spent(k)' = b => Spent(k) = b \/ (i.body = b /\ API!Key(i) = API!Key(Mine(k, b)))
         /\ used' \in [API!Keys -> {j.body : j \in Intents} \cup {Unused}]
<1>1. API!Key(i) \in API!Keys
  BY DEF API!Keys
<1>2. b # Unused
  BY PageAssumption
<1> QED BY <1>1, <1>2, MineIsAKey DEF API!Spend, Spent

\* What others ask of the API is not paid under the page's keys.
LEMMA ElsewhereIsNotMine ==
  ASSUME NEW i \in Elsewhere, NEW k \in Keys, NEW b \in Bodies
  PROVE  API!Key(i) # API!Key(Mine(k, b))
  BY PageAssumption DEF API!Key, Mine

\* What the types say of the requests and the confirmation screens.
LEMMA Elements ==
  ASSUME TypeOK
  PROVE  /\ DOMAIN posts = 1..Len(posts) /\ Len(posts) \in Nat
         /\ \A p \in DOMAIN posts : posts[p].key \in Keys /\ posts[p].body \in Bodies
         /\ DOMAIN reviewed = 1..Len(reviewed) /\ Len(reviewed) \in Nat /\ DOMAIN reviewed \subseteq Keys
         /\ \A n \in DOMAIN reviewed : reviewed[n].body \in Bodies
<1>1. posts \in Seq([key : Keys, body : Bodies])
  BY DEF TypeOK, NetworkOK
<1>2. reviewed \in Seq([body : Bodies, edits : 0..MaxEdits]) /\ Len(reviewed) <= MaxReviews
  BY DEF TypeOK, HistoryOK
<1>3. \A p \in 1..Len(posts) : posts[p] \in [key : Keys, body : Bodies]
  BY <1>1, ElementOfSeq
<1>4. \A n \in 1..Len(reviewed) : reviewed[n] \in [body : Bodies, edits : 0..MaxEdits]
  BY <1>2, ElementOfSeq
<1>5. DOMAIN posts = 1..Len(posts) /\ Len(posts) \in Nat /\ DOMAIN reviewed = 1..Len(reviewed) /\ Len(reviewed) \in Nat
  BY <1>1, <1>2
<1>6. DOMAIN reviewed \subseteq Keys
  BY <1>2, <1>5, BoundsAssumption DEF Keys
<1> QED BY <1>3, <1>4, <1>5, <1>6

LEMMA InitInvariant == Init => IInv
<1> SUFFICES ASSUME Init PROVE IInv
  OBVIOUS
<1>1. PageOK /\ ApiOK
  BY AmountsAssumption DEF Init, API!Init, PageOK, ApiOK, Blank
<1>2. NetworkOK /\ HistoryOK
  BY BoundsAssumption DEF Init, NetworkOK, HistoryOK
<1>3. ASSUME NEW k \in Keys, NEW b \in Bodies PROVE Spent(k) # b
  <2>1. Spent(k) = Unused
    BY MineIsAKey DEF Init, API!Init, Spent
  <2> QED BY <2>1, PageAssumption
<1>4. KeyInv
  BY <1>3 DEF Init, KeyInv
<1> QED BY <1>1, <1>2, <1>4 DEF Init, TypeOK, IInv, ScreenInv, AwaitInv

\* Steps of the page that only compose or start over.
LEMMA EditKeeps == IInv /\ Edit => IInv'
<1> SUFFICES ASSUME IInv, Edit PROVE IInv'
  OBVIOUS
<1>1. TypeOK'
  <2>1. PageOK'
    BY DEF IInv, TypeOK, PageOK, Edit
  <2>2. NetworkOK' /\ ApiOK'
    BY DEF IInv, TypeOK, NetworkOK, ApiOK, Edit, network, api
  <2>3. HistoryOK'
    BY BoundsAssumption DEF IInv, TypeOK, HistoryOK, Edit
  <2> QED BY <2>1, <2>2, <2>3 DEF TypeOK
<1>2. UNCHANGED <<stage, key, submitting, receipt, posts, awaited, answer, used, reviewed>> /\ stage = "compose"
  BY DEF Edit, network, api
<1> QED BY <1>1, <1>2 DEF IInv, KeyInv, ScreenInv, AwaitInv, Spent

\* A new key: no request and no payment has it yet.
LEMMA ReviewKeeps == IInv /\ Review => IInv'
<1> SUFFICES ASSUME IInv, Review PROVE IInv'
  OBVIOUS
<1>0. /\ stage = "compose" /\ stage' = "confirm" /\ form \in Bodies /\ form' = form
      /\ key' = Len(reviewed) + 1 /\ Len(reviewed) < MaxReviews
      /\ reviewed' = Append(reviewed, [body |-> form, edits |-> edits])
      /\ UNCHANGED <<submitting, receipt, posts, travelling, awaited, answer, balance, sent, status, used, edits>>
      /\ notice' = "none"
  BY PageAssumption DEF Review, Complete, KeyForReview, network, api, IInv, TypeOK, PageOK, Bodies
<1>1. reviewed \in Seq([body : Bodies, edits : 0..MaxEdits]) /\ edits \in 0..MaxEdits
  BY DEF IInv, TypeOK, HistoryOK
<1>2. /\ reviewed' \in Seq([body : Bodies, edits : 0..MaxEdits]) /\ Len(reviewed') = Len(reviewed) + 1
      /\ DOMAIN reviewed = 1..Len(reviewed) /\ DOMAIN reviewed' = 1..Len(reviewed) + 1
      /\ \A n \in 1..Len(reviewed) : reviewed'[n] = reviewed[n]
      /\ reviewed'[key'].body = form
  BY <1>0, <1>1
<1>3. TypeOK'
  BY <1>0, <1>1, <1>2, BoundsAssumption
  DEF IInv, TypeOK, PageOK, NetworkOK, ApiOK, HistoryOK, Keys
<1>4. KeyInv'
  BY <1>0, <1>1, <1>2 DEF IInv, KeyInv, Spent
<1>5. ScreenInv'
  BY <1>0, <1>1, <1>2 DEF IInv, ScreenInv
<1>6. AwaitInv'
  BY <1>0 DEF IInv, AwaitInv
<1> QED BY <1>3, <1>4, <1>5, <1>6 DEF IInv

\* A request carries the page's key and the form on the screen.
LEMMA ConfirmKeeps == IInv /\ Confirm => IInv'
<1> SUFFICES ASSUME IInv, Confirm PROVE IInv'
  OBVIOUS
<1>0. /\ stage = "confirm" /\ ~submitting /\ key # Nothing /\ Len(posts) < MaxPosts
      /\ submitting' = TRUE /\ notice' = "none" /\ posts' = Append(posts, [key |-> key, body |-> form])
      /\ travelling' = travelling \cup {Len(posts) + 1} /\ awaited' = Len(posts) + 1 /\ answer' = "none"
      /\ UNCHANGED <<stage, form, key, receipt, balance, sent, status, used, edits, reviewed>>
  BY DEF Confirm, PostedKey, api, history
<1>1. posts \in Seq([key : Keys, body : Bodies]) /\ key \in Keys /\ form \in Bodies
  <2>1. key \in DOMAIN reviewed /\ form = reviewed[key].body
    BY <1>0 DEF IInv, ScreenInv
  <2> QED BY <2>1, Elements DEF IInv, TypeOK, NetworkOK
<1>2. /\ posts' \in Seq([key : Keys, body : Bodies]) /\ Len(posts') = Len(posts) + 1
      /\ DOMAIN posts = 1..Len(posts) /\ DOMAIN posts' = 1..Len(posts) + 1
      /\ \A p \in 1..Len(posts) : posts'[p] = posts[p]
      /\ posts'[awaited'] = [key |-> key, body |-> form]
  BY <1>0, <1>1
<1>3. TypeOK'
  <2>1. NetworkOK'
    BY <1>0, <1>1, <1>2, BoundsAssumption DEF IInv, TypeOK, NetworkOK
  <2> QED BY <1>0, <2>1 DEF IInv, TypeOK, PageOK, ApiOK, HistoryOK
<1>4. KeyInv'
  BY <1>0, <1>1, <1>2 DEF IInv, KeyInv, Spent, ScreenInv
<1>5. ScreenInv'
  BY <1>0 DEF IInv, ScreenInv
<1>6. awaited' # Nothing
  BY <1>0, <1>1, PageAssumption, BoundsAssumption
<1>7. AwaitInv'
  BY <1>0, <1>2, <1>6 DEF AwaitInv
<1> QED BY <1>3, <1>4, <1>5, <1>7 DEF IInv

\* The receipt that arrives is the form's.
LEMMA SucceedKeeps == IInv /\ Succeed => IInv'
<1> SUFFICES ASSUME IInv, Succeed PROVE IInv'
  OBVIOUS
<1>0. /\ submitting /\ answer = "receipt" /\ submitting' = FALSE /\ awaited' = Nothing /\ answer' = "none"
      /\ receipt' = posts[awaited].body /\ stage' = "done"
      /\ UNCHANGED <<form, key, notice, posts, travelling, balance, sent, status, used, edits, reviewed>>
  BY DEF Succeed, Settled, api, history
<1>1. awaited \in DOMAIN posts /\ posts[awaited].key = key /\ stage = "confirm"
  BY <1>0 DEF IInv, AwaitInv, TypeOK, NetworkOK
<1>2. receipt' = form /\ Spent(key) = form /\ key \in DOMAIN reviewed /\ form = reviewed[key].body
  BY <1>0, <1>1 DEF IInv, KeyInv, ScreenInv, AwaitInv
<1>3. TypeOK'
  <2>1. PageOK'
    BY <1>0, <1>1, Elements DEF IInv, TypeOK, PageOK
  <2> QED BY <1>0, <2>1 DEF IInv, TypeOK, NetworkOK, ApiOK, HistoryOK
<1> QED BY <1>0, <1>2, <1>3 DEF IInv, KeyInv, ScreenInv, AwaitInv, Spent

\* Steps that end an attempt or a screen without a receipt.
LEMMA EndingsKeep ==
  IInv /\ (Fail \/ GiveUp \/ Back \/ SendAnother \/ Reload) => IInv'
<1> SUFFICES ASSUME IInv, Fail \/ GiveUp \/ Back \/ SendAnother \/ Reload PROVE IInv'
  OBVIOUS
<1>0. UNCHANGED <<posts, travelling, balance, sent, status, used, reviewed>>
  BY DEF Fail, GiveUp, Back, SendAnother, Reload, network, api, history
<1>1. TypeOK'
  <2>1. CASE Fail \/ GiveUp \/ Back
    <3>1. PageOK' /\ NetworkOK'
      BY <2>1 DEF IInv, TypeOK, PageOK, NetworkOK, Fail, GiveUp, Back, Settled, network
    <3> QED BY <1>0, <2>1, <3>1 DEF IInv, TypeOK, ApiOK, HistoryOK, Fail, GiveUp, Back, history
  <2>2. CASE SendAnother \/ Reload
    <3>1. PageOK'
      <4>1. stage' = "compose" /\ form' = Blank /\ key' = Nothing /\ notice' = "none" /\ receipt' = Nothing
        BY <2>2 DEF SendAnother, Reload, StartOver
      <4>2. submitting' \in BOOLEAN
        BY <2>2 DEF IInv, TypeOK, PageOK, SendAnother, Reload
      <4> QED BY <4>1, <4>2 DEF PageOK, Blank
    <3>2. NetworkOK'
      BY <1>0, <2>2 DEF IInv, TypeOK, NetworkOK, SendAnother, Reload, network
    <3>3. HistoryOK'
      BY <1>0, <2>2, BoundsAssumption DEF IInv, TypeOK, HistoryOK, SendAnother, Reload
    <3> QED BY <1>0, <3>1, <3>2, <3>3 DEF IInv, TypeOK, ApiOK
  <2> QED BY <2>1, <2>2
<1>2. KeyInv'
  BY <1>0 DEF IInv, KeyInv, Spent
<1>3. ScreenInv'
  BY <1>0 DEF IInv, ScreenInv, AwaitInv, Spent, Fail, GiveUp, Back, SendAnother, Reload, StartOver, history
<1>4. AwaitInv'
  BY <1>0 DEF IInv, AwaitInv, Fail, GiveUp, Back, BackEnabled, SendAnother, Reload, StartOver, Settled, network, Spent, history
<1> QED BY <1>1, <1>2, <1>3, <1>4 DEF IInv

\* The balances, sums and statuses the API keeps when it pays or decides.
LEMMA BookTypes ==
  ASSUME IInv, NEW i \in Intents, API!Transfer(i) \/ API!Accept(i) \/ API!Decline(i) \/ API!Cancel(i)
  PROVE  ApiOK' /\ API!Spend(i)
<1>0. /\ balance \in [Users -> Nat] /\ sent \in [Users -> Nat]
      /\ status \in [Requests -> {"PENDING", "ACCEPTED", "DECLINED", "CANCELLED"}]
  BY DEF IInv, TypeOK, ApiOK
<1>1. ASSUME NEW from \in Users, NEW to, NEW amount \in Nat, API!Pay(from, to, amount)
      PROVE  balance' \in [Users -> Nat] /\ sent' \in [Users -> Nat]
  <2>1. balance[from] - amount \in Nat /\ balance[to] + amount \in Nat /\ sent[from] + amount \in Nat
    BY <1>0, <1>1 DEF API!Pay
  <2> QED BY <1>0, <1>1, <2>1 DEF API!Pay
<1>2. ASSUME NEW r, NEW outcome \in {"ACCEPTED", "DECLINED", "CANCELLED"}, API!Settle(r, outcome)
      PROVE  status' \in [Requests -> {"PENDING", "ACCEPTED", "DECLINED", "CANCELLED"}]
  BY <1>0, <1>2 DEF API!Settle
<1>3. API!Spend(i)
  BY DEF API!Transfer, API!Accept, API!Decline, API!Cancel
<1>4. used' \in [API!Keys -> {j.body : j \in Intents} \cup {Unused}]
  BY <1>3 DEF API!Spend, IInv, TypeOK, ApiOK
<1>5. CASE API!Transfer(i)
  <2>1. i.actor \in Users /\ i.body.amount \in Nat
    BY <1>5, AmountsAssumption, PageAssumption DEF Intents, Mine, Bodies, API!Transfer
  <2>2. balance' \in [Users -> Nat] /\ sent' \in [Users -> Nat] /\ status' = status
    BY <1>1, <1>5, <2>1 DEF API!Transfer
  <2> QED BY <1>0, <1>3, <1>4, <2>2 DEF ApiOK
<1>6. CASE API!Accept(i) \/ API!Decline(i) \/ API!Cancel(i)
  <2>1. i.body.request \in Requests
    BY <1>6, AmountsAssumption DEF Intents, Mine, API!Accept, API!Decline, API!Cancel
  <2>2. status' \in [Requests -> {"PENDING", "ACCEPTED", "DECLINED", "CANCELLED"}]
    BY <1>2, <1>6 DEF API!Accept, API!Decline, API!Cancel
  <2>3. balance' \in [Users -> Nat] /\ sent' \in [Users -> Nat]
    BY <1>0, <1>1, <1>6, <2>1, AmountsAssumption DEF API!Accept, API!Decline, API!Cancel
  <2> QED BY <1>3, <1>4, <2>2, <2>3 DEF ApiOK
<1> QED BY <1>5, <1>6

\* Whoever spends a key: what the page has paid stays paid.
LEMMA PaidStaysPaid ==
  ASSUME IInv, NEW i \in Intents, API!Spend(i), NEW k \in Keys, NEW b \in Bodies, Spent(k) = b
  PROVE  Spent(k)' = b
  BY SpendKeeps DEF IInv, TypeOK, ApiOK

\* A request that pays, is answered again or is refused.
LEMMA HandleKeeps == IInv /\ Handle => IInv'
<1> SUFFICES ASSUME IInv, NEW p \in travelling, Pay(p) \/ Replay(p) \/ Refuse(p),
                    UNCHANGED <<page, history>>
             PROVE  IInv'
  BY DEF Handle
<1> DEFINE i == Mine(posts[p].key, posts[p].body)
<1>0. /\ p \in DOMAIN posts /\ posts[p].key \in Keys /\ posts[p].body \in Bodies
      /\ posts[p].key \in DOMAIN reviewed /\ posts[p].body = reviewed[posts[p].key].body
      /\ i \in Intents /\ i.body = posts[p].body
  <2>1. p \in DOMAIN posts
    BY DEF IInv, TypeOK, NetworkOK
  <2>2. posts[p].key \in Keys /\ posts[p].body \in Bodies
    BY <2>1, Elements DEF IInv
  <2>3. i \in Intents /\ i.body = posts[p].body
    BY <2>2 DEF Intents, Keys, Mine
  <2> QED BY <2>1, <2>2, <2>3 DEF IInv, KeyInv
<1>1. PICK a \in {"receipt", "error"} : AnswerTo(p, a)
  BY DEF Pay, Replay, Refuse
<1>2. /\ UNCHANGED <<stage, form, key, submitting, notice, receipt, edits, reviewed, posts, awaited>>
      /\ answer' \in {"none", "receipt", "error"} /\ travelling' \subseteq travelling
      /\ answer' = "receipt" => answer = "receipt" \/ (awaited = p /\ AnswerTo(p, "receipt"))
  BY <1>1 DEF AnswerTo, page, history, IInv, TypeOK, NetworkOK
<1>3. Spent(posts[p].key)' = posts[p].body \/ answer' # "receipt" \/ answer = "receipt"
  <2>1. CASE Pay(p)
    <3>1. API!Spend(i)
      BY <2>1 DEF Pay, API!Transfer
    <3>2. API!Key(i) \in API!Keys /\ API!Key(i) = API!Key(Mine(posts[p].key, Blank))
      BY <1>0, MineIsAKey
    <3>3. DOMAIN used = API!Keys /\ used' = [used EXCEPT ![API!Key(i)] = posts[p].body]
      BY <1>0, <3>1 DEF API!Spend, IInv, TypeOK, ApiOK
    <3> QED BY <1>2, <3>2, <3>3 DEF Spent
  <2>2. CASE Replay(p)
    <3>1. used[API!Key(i)] = posts[p].body /\ used' = used
      BY <2>2 DEF Replay, api
    <3>2. API!Key(i) = API!Key(Mine(posts[p].key, Blank))
      BY <1>0, MineIsAKey
    <3> QED BY <1>2, <3>1, <3>2 DEF Spent
  <2>3. CASE Refuse(p)
    BY <2>3 DEF Refuse, AnswerTo
  <2> QED BY <2>1, <2>2, <2>3
<1>4. answer' = "receipt" => submitting /\ (answer = "receipt" \/ Spent(key)' = posts[awaited].body)
  <2>1. p # Nothing
    BY <1>0, Elements, PageAssumption, BoundsAssumption DEF IInv, TypeOK, NetworkOK
  <2>2. CASE answer = "receipt" \/ answer' # "receipt"
    BY <2>2 DEF IInv, AwaitInv
  <2>3. CASE answer # "receipt" /\ answer' = "receipt"
    <3>1. awaited = p /\ posts[p].key = key /\ submitting
      BY <1>2, <2>1, <2>3 DEF IInv, AwaitInv
    <3> QED BY <1>2, <1>3, <2>3, <3>1 DEF Spent
  <2> QED BY <2>2, <2>3
<1>5. CASE UNCHANGED api
  <2>1. UNCHANGED <<balance, sent, status, used>> /\ \A k : Spent(k)' = Spent(k)
    BY <1>5 DEF api, Spent
  <2>2. TypeOK'
    BY <1>2, <2>1 DEF IInv, TypeOK, PageOK, NetworkOK, ApiOK, HistoryOK
  <2>3. KeyInv' /\ ScreenInv'
    BY <1>2, <2>1 DEF IInv, KeyInv, ScreenInv
  <2>4. AwaitInv'
    BY <1>2, <1>4, <2>1 DEF IInv, AwaitInv
  <2> QED BY <2>2, <2>3, <2>4 DEF IInv
<1>6. CASE API!Transfer(i)
  <2>1. ApiOK' /\ API!Spend(i)
    BY <1>0, <1>6, BookTypes
  <2>2. \A k \in Keys, b \in Bodies : Spent(k) = b => Spent(k)' = b
    BY <2>1, <1>0, PaidStaysPaid
  <2>3. \A k \in Keys, b \in Bodies :
          Spent(k)' = b => Spent(k) = b \/ (posts[p].body = b /\ posts[p].key = k)
    BY <2>1, <1>0, SpendKeeps DEF IInv, TypeOK, ApiOK, API!Key, Mine
  <2>4. TypeOK'
    BY <1>2, <2>1 DEF IInv, TypeOK, PageOK, NetworkOK, HistoryOK
  <2>5. KeyInv'
    BY <1>0, <1>2, <2>3 DEF IInv, KeyInv
  <2>6. ScreenInv'
    BY <1>2, <2>2, Elements DEF IInv, ScreenInv
  <2>7. AwaitInv'
    <3>1. submitting => awaited \in DOMAIN posts
      BY DEF IInv, AwaitInv, TypeOK, NetworkOK
    <3>2. answer = "receipt" => Spent(key)' = posts[awaited].body
      BY <1>2, <2>2, <3>1, Elements DEF IInv, AwaitInv, Spent
    <3> QED BY <1>2, <1>4, <3>2 DEF IInv, AwaitInv
  <2> QED BY <2>4, <2>5, <2>6, <2>7 DEF IInv
<1> QED BY <1>5, <1>6 DEF Pay, Replay, Refuse

\* What others ask of the API.
LEMMA OthersKeep == IInv /\ Others => IInv'
<1> SUFFICES ASSUME IInv, NEW i \in Elsewhere,
                    API!Transfer(i) \/ API!Accept(i) \/ API!Decline(i) \/ API!Cancel(i),
                    UNCHANGED <<page, network, history>>
             PROVE  IInv'
  BY DEF Others
<1>1. ApiOK' /\ API!Spend(i) /\ i \in Intents
  BY BookTypes DEF Intents
<1>2. \A k \in Keys, b \in Bodies : Spent(k) = b <=> Spent(k)' = b
  BY <1>1, SpendKeeps, ElsewhereIsNotMine, MineIsAKey DEF IInv, TypeOK, ApiOK
<1>3. UNCHANGED <<stage, form, key, submitting, notice, receipt, edits, reviewed, posts, travelling,
                  awaited, answer>>
  BY DEF page, network, history
<1>4. TypeOK'
  BY <1>1, <1>3 DEF IInv, TypeOK, PageOK, NetworkOK, HistoryOK
<1>5. KeyInv'
  BY <1>2, <1>3 DEF IInv, KeyInv
<1>6. ScreenInv'
  BY <1>2, <1>3, Elements DEF IInv, ScreenInv
<1>7. AwaitInv'
  <2>1. submitting => awaited \in DOMAIN posts
    BY DEF IInv, AwaitInv, TypeOK, NetworkOK
  <2>2. answer = "receipt" => Spent(key)' = posts[awaited].body
    BY <1>2, <1>3, <2>1, Elements DEF IInv, AwaitInv, Spent
  <2> QED BY <1>3, <2>2 DEF IInv, AwaitInv
<1> QED BY <1>4, <1>5, <1>6, <1>7 DEF IInv

LEMMA StepKeeps == IInv /\ [Next]_vars => IInv'
<1>1. IInv /\ UNCHANGED vars => IInv'
  BY DEF vars, page, network, api, history, IInv, TypeOK, PageOK, NetworkOK, ApiOK, HistoryOK, KeyInv,
     ScreenInv, AwaitInv, Spent
<1> QED BY <1>1, EditKeeps, ReviewKeeps, ConfirmKeeps, SucceedKeeps, EndingsKeep, HandleKeeps,
           OthersKeep DEF Next, Page

\* The invariant holds in every reachable state.
THEOREM SendPageInvariance == Spec => []IInv
  BY InitInvariant, StepKeeps, PTL DEF Spec

\* The variables of SendPage keep their types.
THEOREM SendPageTypes == Spec => []TypeOK
  BY SendPageInvariance, PTL DEF IInv

\* What the page calls sent was paid, to the recipient it shows.
THEOREM ReceiptsAreTrue == Spec => []ReceiptIsPaid
<1>1. IInv => ReceiptIsPaid
  BY DEF IInv, ScreenInv, ReceiptIsPaid
<1> QED BY <1>1, SendPageInvariance, PTL

\* No request under the page's key differs from the screen.
THEOREM KeysKeepTheirBody == Spec => []SameKeySameBody
<1>1. IInv => SameKeySameBody
  BY DEF IInv, KeyInv, ScreenInv, SameKeySameBody
<1> QED BY <1>1, SendPageInvariance, PTL

\* Each payment has a confirmation screen of its own that showed it.
THEOREM PaymentsWereReviewed == Spec => []PaidAsReviewed
<1>1. ASSUME IInv, NEW b \in Bodies
      PROVE  Cardinality({k \in Keys : Spent(k) = b})
               <= Cardinality({n \in DOMAIN reviewed : reviewed[n].body = b})
  <2>1. {k \in Keys : Spent(k) = b} \subseteq {n \in DOMAIN reviewed : reviewed[n].body = b}
    BY <1>1 DEF IInv, KeyInv
  <2>2. DOMAIN reviewed = 1..Len(reviewed) /\ Len(reviewed) \in Nat
    BY <1>1, Elements DEF IInv
  <2>3. IsFiniteSet(DOMAIN reviewed)
    BY <2>2, FS_Interval
  <2>4. IsFiniteSet({n \in DOMAIN reviewed : reviewed[n].body = b})
    BY <2>3, FS_Subset
  <2> QED BY <2>1, <2>4, FS_Subset
<1>2. IInv => PaidAsReviewed
  BY <1>1 DEF PaidAsReviewed
<1> QED BY <1>2, SendPageInvariance, PTL
\* A page that lets the user go back only before sending keeps ScreensInv.
LEMMA ScreensKept ==
  /\ IInv /\ ScreensInv
  /\ [Next]_vars
  /\ [Back => \A p \in DOMAIN posts : posts[p].key # key]_vars
  => ScreensInv'
<1> SUFFICES ASSUME IInv, ScreensInv, [Next]_vars,
                    [Back => \A p \in DOMAIN posts : posts[p].key # key]_vars
             PROVE  ScreensInv'
  OBVIOUS
<1> USE DEF ScreensInv
<1>0. /\ DOMAIN posts = 1..Len(posts) /\ Len(posts) \in Nat
      /\ DOMAIN reviewed = 1..Len(reviewed) /\ Len(reviewed) \in Nat /\ DOMAIN reviewed \subseteq Keys
      /\ \A n \in DOMAIN reviewed : reviewed[n].edits \in Nat
      /\ edits \in Nat /\ stage \in {"compose", "confirm", "done"}
  <2>1. reviewed \in Seq([body : Bodies, edits : 0..MaxEdits]) /\ edits \in 0..MaxEdits /\ PageOK
    BY DEF IInv, TypeOK, HistoryOK
  <2>2. \A n \in 1..Len(reviewed) : reviewed[n] \in [body : Bodies, edits : 0..MaxEdits]
    BY <2>1, ElementOfSeq
  <2> QED BY <2>1, <2>2, Elements, BoundsAssumption DEF IInv, PageOK
<1>1. CASE Edit \/ SendAnother \/ Reload
  <2>1. /\ edits' = edits + 1 /\ UNCHANGED <<posts, reviewed, used>>
        /\ stage' = "compose"
    BY <1>1 DEF Edit, SendAnother, Reload, StartOver, network, api
  <2>2. \A n \in DOMAIN reviewed : reviewed[n].edits <= edits'  /\ reviewed[n].edits # edits'
    BY <1>0, <2>1
  <2> QED BY <2>1, <2>2 DEF Posted, Spent
<1>2. CASE Review
  <2>1. /\ stage = "compose" /\ stage' = "confirm" /\ key' = Len(reviewed) + 1
        /\ reviewed' = Append(reviewed, [body |-> form, edits |-> edits])
        /\ UNCHANGED <<posts, used, edits>>
    BY <1>2 DEF Review, KeyForReview, network, api
  <2>2. /\ DOMAIN reviewed' = 1..(Len(reviewed) + 1) /\ Len(reviewed') = Len(reviewed) + 1
        /\ \A n \in 1..Len(reviewed) : reviewed'[n] = reviewed[n]
        /\ reviewed'[Len(reviewed) + 1].edits = edits
    BY <1>0, <2>1 DEF IInv, TypeOK, HistoryOK
  <2>3. \A n \in DOMAIN reviewed' : reviewed'[n].edits <= edits'
    BY <1>0, <2>1, <2>2
  <2>4. ASSUME NEW m \in DOMAIN reviewed', NEW n \in DOMAIN reviewed', m < n, reviewed'[m].edits = reviewed'[n].edits
        PROVE  ~Posted(m)
    <3>1. m \in DOMAIN reviewed /\ m # Len(reviewed) + 1
      BY <1>0, <2>2, <2>4
    <3>2. CASE n = Len(reviewed) + 1
      BY <2>1, <2>2, <2>4, <3>1, <3>2, <1>0
    <3>3. CASE n # Len(reviewed) + 1
      <4>1. n \in DOMAIN reviewed
        BY <1>0, <2>2, <3>3
      <4> QED BY <1>0, <2>2, <2>4, <3>1, <4>1
    <3> QED BY <3>2, <3>3
  <2> QED BY <2>1, <2>2, <2>3, <2>4 DEF Posted, Spent
<1>3. CASE Confirm
  <2>1. /\ stage = "confirm" /\ posts' = Append(posts, [key |-> key, body |-> form])
        /\ UNCHANGED <<stage, key, used, edits, reviewed>>
    BY <1>3 DEF Confirm, PostedKey, api, history
  <2>2. /\ DOMAIN posts' = 1..(Len(posts) + 1) /\ posts'[Len(posts) + 1].key = key
        /\ \A p \in 1..Len(posts) : posts'[p] = posts[p]
    BY <1>0, <2>1 DEF IInv, TypeOK, NetworkOK
  <2>3. \A k : Posted(k)' => Posted(k) \/ k = Len(reviewed)
    BY <1>0, <2>1, <2>2 DEF Posted
  <2>4. \A k : Posted(k) => Posted(k)'
    BY <1>0, <2>2 DEF Posted
  <2>5. \A m, n \in DOMAIN reviewed : m < n => m # Len(reviewed)
    BY <1>0
  <2> QED BY <2>1, <2>3, <2>4, <2>5 DEF Spent
<1>4. CASE Succeed \/ Fail \/ GiveUp
  <2>1. /\ stage # "compose" /\ stage' # "compose" /\ UNCHANGED <<key, posts, used, edits, reviewed>>
    BY <1>4 DEF Succeed, Fail, GiveUp, api, history, IInv, AwaitInv
  <2> QED BY <2>1 DEF Posted, Spent
<1>5. CASE Back
  <2>1. /\ stage = "confirm" /\ stage' = "compose" /\ UNCHANGED <<key, posts, used, edits, reviewed>>
    BY <1>5 DEF Back, network, api, history
  <2>2. ~Posted(key)
    BY <1>5, <2>1 DEF vars, page, Posted
  <2>3. ASSUME NEW n \in DOMAIN reviewed, reviewed[n].edits = edits PROVE ~Posted(n)
    <3>1. CASE n = key
      BY <2>2, <3>1
    <3>2. CASE n # key
      BY <1>0, <2>1, <2>3, <3>2 DEF IInv, ScreenInv
    <3> QED BY <3>1, <3>2
  <2> QED BY <2>1, <2>3 DEF Posted, Spent
<1>6. CASE Handle
  <2>1. UNCHANGED <<stage, key, posts, edits, reviewed>>
    BY <1>6 DEF Handle, Pay, Replay, Refuse, AnswerTo, page, history
  <2>2. ASSUME NEW k \in Keys, Spent(k)' # Unused, Spent(k) = Unused PROVE Posted(k)
    <3>1. PICK p \in travelling : API!Transfer(Mine(posts[p].key, posts[p].body))
      BY <1>6, <2>2 DEF Handle, Pay, Replay, Refuse, api, Spent
    <3>2. p \in DOMAIN posts /\ posts[p].key \in Keys /\ posts[p].body \in Bodies
      BY Elements DEF IInv, TypeOK, NetworkOK
    <3> DEFINE i == Mine(posts[p].key, posts[p].body)
    <3>3. used' = [used EXCEPT ![API!Key(i)] = i.body]
      BY <3>1 DEF API!Transfer, API!Spend
    <3>4. API!Key(Mine(k, Blank)) = API!Key(i)
      BY <2>2, <3>3 DEF Spent
    <3>5. k = posts[p].key
      BY <3>4 DEF API!Key, Mine
    <3> QED BY <3>2, <3>5 DEF Posted
  <2> QED BY <2>1, <2>2 DEF Posted
<1>7. CASE Others
  <2>1. UNCHANGED <<stage, key, posts, edits, reviewed>>
    BY <1>7 DEF Others, page, network, history
  <2>2. ASSUME NEW k \in Keys PROVE Spent(k)' = Spent(k)
    <3>1. PICK i \in Elsewhere : used' = [used EXCEPT ![API!Key(i)] = i.body]
      BY <1>7 DEF Others, API!Transfer, API!Accept, API!Decline, API!Cancel, API!Spend
    <3>2. API!Key(i) # API!Key(Mine(k, Blank))
      BY PageAssumption DEF API!Key, Mine
    <3> QED BY <3>1, <3>2 DEF Spent
  <2> QED BY <2>1, <2>2 DEF Posted
<1>8. CASE UNCHANGED vars
  BY <1>8 DEF vars, page, network, api, history, Posted, Spent
<1> QED BY <1>1, <1>2, <1>3, <1>4, <1>5, <1>6, <1>7, <1>8 DEF Next, Page

\* "One idempotency key per user intent" holds of a user who goes back only from
\* a confirmation screen that has sent nothing: the Back button after an
\* unconfirmed or failed request is all that breaks it, whatever the network does.
THEOREM OneIntentPaysOnce == Spec /\ BackBeforeSending => []OneIntentOnePayment
<1>1. Init => ScreensInv
  <2> SUFFICES ASSUME Init PROVE ScreensInv
    OBVIOUS
  <2>1. \A k \in Keys, b \in Bodies : Spent(k) = Unused
    BY MineIsAKey DEF Init, API!Init, Spent
  <2>2. DOMAIN reviewed = {} /\ DOMAIN posts = {} /\ stage = "compose"
    BY DEF Init
  <2> QED BY <2>1, <2>2 DEF ScreensInv
<1>2. IInv /\ ScreensInv => OneIntentOnePayment
  <2> SUFFICES ASSUME IInv, ScreensInv, NEW m \in DOMAIN reviewed, NEW n \in DOMAIN reviewed,
                      m # n, Spent(m) # Unused, Spent(n) # Unused, reviewed[m].edits = reviewed[n].edits
               PROVE  FALSE
    BY DEF OneIntentOnePayment
  <2>1. m \in Keys /\ n \in Keys /\ m \in Nat /\ n \in Nat /\ reviewed[m].body \in Bodies
    BY Elements DEF IInv
  <2>2. Posted(m) /\ Posted(n)
    BY <2>1 DEF ScreensInv
  <2> QED BY <2>1, <2>2 DEF ScreensInv
<1> QED BY <1>1, <1>2, ScreensKept, SendPageInvariance, PTL DEF Spec, BackBeforeSending
===============================================================================
