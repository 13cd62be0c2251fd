---------------------------- MODULE WebPagesProofs ----------------------------
(***************************************************************************)
(* Theorems about the pages of the web client that MCWebPages mounts: the  *)
(* inductive invariant of RequestsPage and what follows from it, for any   *)
(* inputs of the form, any requests of others, and any number of edits,    *)
(* posts and loads; then that of PagedList, for any rows, filters, page    *)
(* size and number of loads.                                               *)
(***************************************************************************)
EXTENDS RequestsPageProperties, PagedListProperties, SequenceTheorems, Sums, TLAPS

\* What HoldInv says of the requests sent.
LEMMA Sent ==
  ASSUME HoldInv
  PROVE  /\ DOMAIN posts = 1..Len(posts) /\ Len(posts) \in Nat
         /\ \A p \in Creations :
              /\ p \in DOMAIN posts /\ posts[p].what = "create"
              /\ posts[p].key \in Keys /\ posts[p].body \in Forms /\ posts[p].edits \in Nat
         /\ \A p \in DOMAIN posts \ Creations :
              posts[p].what \in Actions /\ posts[p].request \in MoneyRequests
<1>1. posts \in Seq(CreatePosts \cup ActPosts)
  BY DEF HoldInv
<1>2. \A p \in 1..Len(posts) : posts[p] \in CreatePosts \cup ActPosts
  BY <1>1, ElementOfSeq
<1>3. DOMAIN posts = 1..Len(posts) /\ Len(posts) \in Nat
  BY <1>1
<1>4. "create" \notin Actions
  BY DEF Actions, Result
<1> QED BY <1>2, <1>3, <1>4 DEF CreatePosts, ActPosts, Creations

\* One more request sent leaves the others as they are.
LEMMA PostAppends ==
  ASSUME HoldInv, NEW w \in CreatePosts \cup ActPosts, Post(w)
  PROVE  /\ posts' \in Seq(CreatePosts \cup ActPosts) /\ Len(posts') <= MaxPosts
         /\ Len(posts') = Len(posts) + 1 /\ DOMAIN posts' = 1..(Len(posts) + 1)
         /\ DOMAIN posts = 1..Len(posts) /\ Len(posts) \in Nat /\ Len(posts) + 1 \in Keys
         /\ \A p \in DOMAIN posts : p \in DOMAIN posts' /\ posts'[p] = posts[p]
         /\ posts'[Len(posts) + 1] = w
         /\ travelling' \subseteq DOMAIN posts' /\ confirmed' = confirmed /\ confirmed' \subseteq DOMAIN posts'
<1>1. posts \in Seq(CreatePosts \cup ActPosts) /\ Len(posts) \in Nat /\ Len(posts) < MaxPosts
  BY DEF HoldInv, Post
<1>2. posts' = Append(posts, w) /\ travelling' = travelling \cup {Len(posts) + 1} /\ confirmed' = confirmed
  BY DEF Post
<1>3. posts' \in Seq(CreatePosts \cup ActPosts) /\ Len(posts') = Len(posts) + 1
  BY <1>1, <1>2
<1>4. DOMAIN posts = 1..Len(posts) /\ DOMAIN posts' = 1..(Len(posts) + 1)
  BY <1>1, <1>2, <1>3
<1>5. \A p \in DOMAIN posts : posts'[p] = posts[p]
  BY <1>1, <1>2, <1>4
<1>6. posts'[Len(posts) + 1] = w
  BY <1>1, <1>2
<1>7. travelling \subseteq DOMAIN posts /\ confirmed \subseteq DOMAIN posts
  BY DEF HoldInv
<1> QED BY <1>1, <1>2, <1>3, <1>4, <1>5, <1>6, <1>7, RequestBounds DEF Keys

LEMMA FormStays ==
  ASSUME form \in Forms, NEW field \in Fields, NEW value \in Inputs[field] \cup {Nothing}
  PROVE  [form EXCEPT ![field] = value] \in Forms
<1>1. value \in Values
  BY DEF Values
<1> QED BY <1>1 DEF Forms

LEMMA BlankIsAForm == Blank \in Forms
<1>1. Nothing \in Values
  BY DEF Values
<1> QED BY <1>1 DEF Blank, Forms

\* Submit and Click, with what they send.
LEMMA SubmitSends ==
  ASSUME HoldInv, Submit
  PROVE  /\ KeyToPost \in Keys
         /\ [what |-> "create", key |-> KeyToPost, body |-> form, edits |-> edits] \in CreatePosts
<1>1. KeyToPost \in Keys
  BY RequestBounds DEF HoldInv, Submit, Post, KeyToPost, Keys
<1> QED BY <1>1 DEF HoldInv, CreatePosts

LEMMA ClickSends ==
  ASSUME Click
  PROVE  \E w \in ActPosts : Post(w)
<1>1. PICK r \in MoneyRequests : \E action \in Offered(r) : Post([what |-> action, request |-> r])
  BY DEF Click
<1>2. PICK action \in Offered(r) : Post([what |-> action, request |-> r])
  BY <1>1
<1>3. action \in Actions
  BY <1>2 DEF Offered, Actions, Result
<1> QED BY <1>2, <1>3 DEF ActPosts

\* What each step of the API does to the requests of money.
LEMMA HandleKeeps ==
  ASSUME HoldInv, NEW p \in travelling, Create(p) \/ Resolve(p) \/ Refuse(p)
  PROVE  /\ posts' = posts /\ travelling' \subseteq DOMAIN posts'
         /\ confirmed' \subseteq DOMAIN posts' /\ confirmed \subseteq confirmed'
         /\ status' \in [MoneyRequests -> Statuses] /\ made' \in [Keys -> Forms \cup {Nothing}]
<1>0. p \in DOMAIN posts /\ travelling \subseteq DOMAIN posts /\ confirmed \subseteq DOMAIN posts
  BY DEF HoldInv
<1>1. CASE Create(p)
  <2>1. posts[p].key \in Keys /\ posts[p].key \in MoneyRequests /\ posts[p].body \in Forms
    BY <1>0, <1>1, Sent DEF Create, Creations, MoneyRequests
  <2>2. posts' = posts /\ confirmed' = confirmed \cup {p} /\ travelling' = travelling \ {p}
    BY <1>1 DEF Create, Answer
  <2>3. status' \in [MoneyRequests -> Statuses] /\ made' \in [Keys -> Forms \cup {Nothing}]
    BY <1>1, <2>1 DEF HoldInv, Create, Statuses
  <2> QED BY <1>0, <2>2, <2>3
<1>2. CASE Resolve(p)
  <2>1. posts' = posts /\ confirmed' = confirmed \cup {p} /\ travelling' = travelling \ {p} /\ made' = made
    BY <1>2 DEF Resolve, Answer
  <2>2. Result[posts[p].what] \in Statuses
    BY <1>2 DEF Resolve, Statuses, Actions, Result
  <2>3. status' \in [MoneyRequests -> Statuses]
    BY <1>2, <2>2 DEF HoldInv, Resolve
  <2> QED BY <1>0, <2>1, <2>3 DEF HoldInv
<1>3. CASE Refuse(p)
  BY <1>0, <1>3 DEF HoldInv, Refuse, api
<1> QED BY <1>1, <1>2, <1>3

LEMMA InitHolds == RequestsInit => HoldInv
<1> SUFFICES ASSUME RequestsInit PROVE HoldInv
  OBVIOUS
<1>1. Blank \in Forms
  BY BlankIsAForm
<1> QED BY <1>1, RequestBounds DEF RequestsInit, HoldInv, Statuses

LEMMA NextHolds == HoldInv /\ [RequestsNext]_requestsVars => HoldInv'
<1> SUFFICES ASSUME HoldInv, [RequestsNext]_requestsVars PROVE HoldInv'
  OBVIOUS
<1> USE DEF HoldInv
<1>0. Blank \in Forms
  BY BlankIsAForm
<1>1. CASE Edit
  <2>1. PICK field \in Fields :
          /\ \E value \in Inputs[field] \cup {Nothing} : form' = [form EXCEPT ![field] = value]
          /\ key' = KeyAfter(field)
    BY <1>1 DEF Edit
  <2>2. PICK value \in Inputs[field] \cup {Nothing} : form' = [form EXCEPT ![field] = value]
    BY <2>1
  <2>3. form' \in Forms
    BY <2>2, FormStays
  <2> QED BY <1>1, <2>1, <2>3 DEF Edit, KeyAfter, wire, api
<1>2. CASE ToggleCompose
  BY <1>0, <1>2 DEF ToggleCompose, ResetForm, wire, api, history
<1>3. CASE Submit
  BY <1>3, SubmitSends, PostAppends DEF Submit, api, history
<1>4. CASE CreateAnswered
  BY <1>0, <1>4 DEF CreateAnswered, ResetForm, wire, api
<1>5. CASE CreateFails
  BY <1>5 DEF CreateFails, wire, api, history
<1>6. CASE Click
  BY <1>6, ClickSends, PostAppends DEF Click, composer, api, history
<1>7. CASE ActAnswered
  BY <1>7 DEF ActAnswered, composer, wire, api
<1>8. CASE ActFails
  BY <1>8 DEF ActFails, composer, wire, api, history
<1>9. CASE LoadArrives \/ LoadFails
  BY <1>9 DEF LoadArrives, LoadFails, composer, wire, api, history
<1>10. CASE Remount
  BY <1>0, <1>10 DEF Remount, ResetForm, wire, api, history
<1>11. CASE Handle
  BY <1>11, HandleKeeps DEF Handle, composer, wire, api, history
<1>12. CASE Others
  <2>1. status' \in [MoneyRequests -> Statuses]
    BY <1>12 DEF Others, Statuses, Actions, Result
  <2> QED BY <1>12, <2>1 DEF Others, composer, wire, history
<1>13. CASE UNCHANGED requestsVars
  BY <1>13 DEF requestsVars, composer, wire, api, history
<1> QED
  BY <1>1, <1>2, <1>3, <1>4, <1>5, <1>6, <1>7, <1>8, <1>9, <1>10, <1>11, <1>12, <1>13 DEF RequestsNext
-------------------------------------------------------------------------------
\* Most steps leave the form and its key alone, or clear both.
LEMMA FormUntouched ==
  ASSUME HoldInv, FormInv, posts' = posts, edits' = edits,
         (key' = key /\ form' = form) \/ (key' = Nothing /\ form' = Blank)
  PROVE  FormInv'
<1>1. \A p \in Creations : posts[p].key # Nothing
  BY Sent, NamesAssumption
<1>2. Creations' = Creations
  BY DEF Creations
<1> QED BY <1>1, <1>2 DEF FormInv

LEMMA InitForm == RequestsInit => FormInv
  BY DEF RequestsInit, FormInv, Creations

\* No request has gone out since the edit.
LEMMA EditForm ==
  ASSUME HoldInv, FormInv, Edit
  PROVE  FormInv'
<1>1. posts' = posts /\ key' = Nothing /\ edits' = edits + 1 /\ edits \in Nat
  BY DEF Edit, KeyAfter, wire, HoldInv
<1>2. Creations' = Creations
  BY <1>1 DEF Creations
<1>3. \A p \in Creations : posts[p].key # Nothing /\ posts[p].edits \in Nat
  BY Sent, NamesAssumption
<1> QED BY <1>1, <1>2, <1>3 DEF FormInv

\* Either the form has a key, which every request since its last edit carried, or
\* there is none of them and the key is new.
LEMMA SubmitForm ==
  ASSUME HoldInv, FormInv, Submit
  PROVE  FormInv'
<1> DEFINE n == Len(posts) + 1
           w == [what |-> "create", key |-> KeyToPost, body |-> form, edits |-> edits]
<1>1. /\ DOMAIN posts' = 1..n /\ Len(posts') = n /\ Len(posts) \in Nat /\ DOMAIN posts = 1..Len(posts)
      /\ \A p \in DOMAIN posts : posts'[p] = posts[p]
      /\ posts'[n] = w
  BY SubmitSends, PostAppends DEF Submit
<1>2. Creations' = Creations \cup {n} /\ n \notin Creations /\ Creations \subseteq DOMAIN posts
  BY <1>1 DEF Creations
<1>3. /\ key' = KeyToPost /\ form' = form /\ edits' = edits /\ edits \in Nat /\ form # Blank
      /\ KeyToPost \in Keys /\ key \in Keys \cup {Nothing}
  BY SubmitSends DEF Submit, history, HoldInv, Complete, Blank, Fields
<1>4. \A p \in Creations : posts[p].key \in Keys /\ posts[p].key # Nothing /\ posts[p].key \in Nat
  BY Sent, NamesAssumption, RequestBounds DEF Keys
<1>5. KeyToPost <= n /\ KeyToPost # Nothing
  BY <1>1, <1>3, RequestBounds, NamesAssumption DEF FormInv, KeyToPost, Keys
<1>6. \A p \in Creations : posts[p].key <= n
  BY <1>1, <1>4 DEF FormInv
<1>7. \A p \in Creations : posts[p].edits = edits <=> posts[p].key = KeyToPost /\ posts[p].edits = edits
  BY <1>3, <1>4 DEF FormInv, KeyToPost
<1>8. \A p \in Creations : posts[p].key = KeyToPost => posts[p].body = form
  BY <1>1, <1>4 DEF FormInv, KeyToPost
<1>9. posts'[n].key = KeyToPost /\ posts'[n].body = form /\ posts'[n].edits = edits
  BY <1>1
<1>10. \A p \in Creations :
         /\ posts'[p].key = posts[p].key /\ posts'[p].body = posts[p].body
         /\ posts'[p].edits = posts[p].edits /\ posts[p].edits <= edits
  BY <1>1, <1>2 DEF FormInv
<1>11. ASSUME NEW p \in Creations'
       PROVE  /\ posts'[p].key <= n
              /\ posts'[p].edits <= edits
              /\ posts'[p].edits = edits => posts'[p].key = KeyToPost
              /\ posts'[p].key = KeyToPost => form = posts'[p].body
  BY <1>2, <1>3, <1>5, <1>6, <1>7, <1>8, <1>9, <1>10
<1>12. ASSUME NEW p \in Creations', NEW q \in Creations'
       PROVE  /\ posts'[p].edits = posts'[q].edits => posts'[p].key = posts'[q].key
              /\ posts'[p].key = posts'[q].key => posts'[p].body = posts'[q].body
  BY <1>2, <1>7, <1>8, <1>9, <1>10 DEF FormInv
<1> QED BY <1>1, <1>3, <1>5, <1>11, <1>12 DEF FormInv

\* A decision is no creation.
LEMMA ClickForm ==
  ASSUME HoldInv, FormInv, Click
  PROVE  FormInv'
<1>1. PICK w \in ActPosts : Post(w)
  BY ClickSends
<1>2. w.what # "create"
  BY DEF ActPosts, Actions, Result
<1>3. /\ DOMAIN posts' = 1..(Len(posts) + 1) /\ Len(posts') = Len(posts) + 1 /\ Len(posts) \in Nat
      /\ DOMAIN posts = 1..Len(posts)
      /\ \A p \in DOMAIN posts : posts'[p] = posts[p]
      /\ posts'[Len(posts) + 1] = w
  BY <1>1, PostAppends
<1>4. Creations' = Creations /\ Creations \subseteq DOMAIN posts
  BY <1>2, <1>3 DEF Creations
<1>5. key' = key /\ form' = form /\ edits' = edits
  BY DEF Click, composer, history
<1>6. \A p \in Creations : posts'[p] = posts[p] /\ posts[p].key \in Nat
  BY <1>3, <1>4, Sent, RequestBounds DEF Keys
<1>7. key # Nothing => key \in Nat
  BY RequestBounds DEF HoldInv, Keys
<1>8. Len(posts') = Len(posts) + 1
  BY <1>3
<1>9. key' # Nothing => key' <= Len(posts')
  BY <1>3, <1>5, <1>7 DEF FormInv
<1>10. \A p \in Creations : posts[p].key <= Len(posts')
  BY <1>3, <1>6 DEF FormInv
<1> QED BY <1>4, <1>5, <1>6, <1>9, <1>10 DEF FormInv

LEMMA NextForm == HoldInv /\ FormInv /\ [RequestsNext]_requestsVars => FormInv'
<1> SUFFICES ASSUME HoldInv, FormInv, [RequestsNext]_requestsVars PROVE FormInv'
  OBVIOUS
<1>1. CASE Edit
  BY <1>1, EditForm
<1>2. CASE Submit
  BY <1>2, SubmitForm
<1>3. CASE Click
  BY <1>3, ClickForm
<1>4. ASSUME posts' = posts, edits' = edits,
             (key' = key /\ form' = form) \/ (key' = Nothing /\ form' = Blank)
      PROVE  FormInv'
  BY <1>4, FormUntouched
<1>5. CASE ToggleCompose \/ CreateAnswered \/ Remount
  BY <1>4, <1>5 DEF ToggleCompose, CreateAnswered, Remount, ResetForm, wire, history
<1>6. CASE CreateFails \/ ActAnswered \/ ActFails \/ LoadArrives \/ LoadFails
  BY <1>4, <1>6 DEF CreateFails, ActAnswered, ActFails, LoadArrives, LoadFails, composer, wire, history
<1>7. CASE Handle
  <2>1. posts' = posts
    BY <1>7, HandleKeeps DEF Handle, wire
  <2> QED BY <1>4, <1>7, <2>1 DEF Handle, composer, history
<1>8. CASE Others \/ UNCHANGED requestsVars
  BY <1>4, <1>8 DEF Others, requestsVars, composer, wire, history
<1> QED BY <1>1, <1>2, <1>3, <1>5, <1>6, <1>7, <1>8 DEF RequestsNext
-------------------------------------------------------------------------------
\* A money request, once made, is there for good, and once decided keeps its
\* decision.
Moves(r) ==
  \/ status'[r] = status[r]
  \/ status[r] \in {"absent", "PENDING"} /\ status'[r] # "absent"

LEMMA DecisionsStay == \A a \in Actions : Result[a] \notin {"absent", "PENDING"}
  BY DEF Actions, Result

LEMMA HandleMoves ==
  ASSUME HoldInv, DoneInv, NEW p \in travelling, Create(p) \/ Resolve(p) \/ Refuse(p)
  PROVE  /\ \A r \in MoneyRequests : Moves(r)
         /\ \A k \in Keys : made'[k] # Nothing <=> status'[k] # "absent"
         /\ confirmed' = confirmed \/ (confirmed' = confirmed \cup {p} /\ Done(p)')
<1>0. p \in DOMAIN posts
  BY DEF HoldInv
<1> USE DEF HoldInv
<1>1. CASE Create(p)
  <2>1. posts[p].key \in Keys /\ posts[p].key \in MoneyRequests /\ posts[p].body \in Forms /\ p \in Creations
    BY <1>0, <1>1, Sent DEF Create, Creations, MoneyRequests
  <2>2. posts[p].body # Nothing
    BY <2>1, NamesAssumption
  <2>3. posts' = posts /\ confirmed' = confirmed \cup {p}
    BY <1>1 DEF Create, Answer
  <2>4. \/ /\ made' = [made EXCEPT ![posts[p].key] = posts[p].body]
           /\ status' = [status EXCEPT ![posts[p].key] = "PENDING"]
           /\ made[posts[p].key] = Nothing
        \/ made[posts[p].key] # Nothing /\ made' = made /\ status' = status
    BY <1>1, <2>2 DEF Create
  <2>5. Keys \subseteq MoneyRequests
    BY DEF MoneyRequests
  <2>6. status'[posts[p].key] # "absent"
    BY <2>1, <2>4 DEF DoneInv
  <2>7. \A k \in Keys : made'[k] # Nothing <=> status'[k] # "absent"
    BY <2>1, <2>2, <2>4, <2>5, <2>6 DEF DoneInv
  <2>8. p \in Creations'
    BY <2>1, <2>3 DEF Creations
  <2>9. Done(p)'
    BY <2>3, <2>6, <2>8 DEF Done
  <2>10. \A r \in MoneyRequests : Moves(r)
    BY <2>1, <2>4 DEF Moves, DoneInv
  <2> QED BY <2>3, <2>7, <2>9, <2>10
<1>2. CASE Resolve(p)
  <2>1. posts' = posts /\ confirmed' = confirmed \cup {p} /\ made' = made
    BY <1>2 DEF Resolve, Answer
  <2>2. /\ posts[p].what \in Actions /\ status[posts[p].request] = "PENDING"
        /\ status' = [status EXCEPT ![posts[p].request] = Result[posts[p].what]]
    BY <1>2 DEF Resolve
  <2>3. p \notin Creations /\ posts[p].request \in MoneyRequests /\ p \notin Creations'
    BY <1>0, <2>1, <2>2, Sent DEF Creations, Actions, Result
  <2>4. Result[posts[p].what] \notin {"absent", "PENDING"}
    BY <2>2, DecisionsStay
  <2>5. status'[posts[p].request] = Result[posts[p].what]
    BY <2>2, <2>3
  <2>6. Done(p)'
    BY <2>1, <2>3, <2>5 DEF Done
  <2>7. \A r \in MoneyRequests : Moves(r)
    BY <2>2, <2>3, <2>4 DEF Moves
  <2>8. \A k \in Keys : made'[k] # Nothing <=> status'[k] # "absent"
    BY <2>1, <2>2, <2>3, <2>4 DEF DoneInv, MoneyRequests
  <2> QED BY <2>1, <2>6, <2>7, <2>8
<1>3. CASE Refuse(p)
  BY <1>3 DEF Refuse, api, Moves, DoneInv
<1> QED BY <1>1, <1>2, <1>3

\* The other party's decisions and the rest of the steps.
LEMMA OthersMove ==
  ASSUME HoldInv, DoneInv, Others
  PROVE  (\A r \in MoneyRequests : Moves(r)) /\ (\A k \in Keys : made'[k] # Nothing <=> status'[k] # "absent")
<1> USE DEF HoldInv
<1>1. made' = made /\ Incoming \cap Keys = {} /\ Keys \subseteq MoneyRequests
  BY NamesAssumption DEF Others, MoneyRequests
<1>2. PICK r \in MoneyRequests :
        \/ r \in Incoming /\ status[r] = "absent" /\ status' = [status EXCEPT ![r] = "PENDING"]
        \/ /\ status[r] = "PENDING"
           /\ \E action \in Actions \ Offered(r) : status' = [status EXCEPT ![r] = Result[action]]
        \/ status' = status
  BY DEF Others
<1>3. CASE r \in Incoming /\ status[r] = "absent" /\ status' = [status EXCEPT ![r] = "PENDING"]
  BY <1>1, <1>3 DEF Moves, DoneInv
<1>4. CASE /\ status[r] = "PENDING"
           /\ \E action \in Actions \ Offered(r) : status' = [status EXCEPT ![r] = Result[action]]
  <2>1. PICK action \in Actions : status' = [status EXCEPT ![r] = Result[action]]
    BY <1>4
  <2>2. Result[action] # "absent"
    BY DecisionsStay
  <2> QED BY <1>1, <1>4, <2>1, <2>2 DEF Moves, DoneInv
<1>5. CASE status' = status
  BY <1>1, <1>5 DEF Moves, DoneInv
<1> QED BY <1>2, <1>3, <1>4, <1>5

\* What was done for a request sent stays done.
LEMMA DoneStays ==
  ASSUME HoldInv, \A r \in MoneyRequests : Moves(r),
         NEW p \in DOMAIN posts, Done(p), p \in DOMAIN posts', posts'[p] = posts[p]
  PROVE  Done(p)'
<1>1. p \in Creations <=> p \in Creations'
  BY DEF Creations
<1>2. CASE p \in Creations
  <2>1. posts[p].key \in MoneyRequests
    BY <1>2, Sent DEF MoneyRequests
  <2> QED BY <1>1, <1>2, <2>1 DEF Done, Moves
<1>3. CASE p \notin Creations
  <2>1. posts[p].request \in MoneyRequests /\ posts[p].what \in Actions
    BY <1>3, Sent
  <2> QED BY <1>1, <1>3, <2>1, DecisionsStay DEF Done, Moves
<1> QED BY <1>2, <1>3

LEMMA InitDone == RequestsInit => DoneInv
  BY DEF RequestsInit, DoneInv, MoneyRequests

\* Every request sent before a step is there after it.
LEMMA PostsStay ==
  ASSUME HoldInv, [RequestsNext]_requestsVars
  PROVE  \A p \in DOMAIN posts : p \in DOMAIN posts' /\ posts'[p] = posts[p]
<1>1. CASE Submit
  BY <1>1, SubmitSends, PostAppends DEF Submit
<1>2. CASE Click
  BY <1>2, ClickSends, PostAppends
<1>3. CASE Handle
  BY <1>3, HandleKeeps DEF Handle, wire
<1>4. CASE Edit \/ ToggleCompose \/ CreateAnswered \/ CreateFails \/ ActAnswered \/ ActFails
           \/ LoadArrives \/ LoadFails \/ Remount \/ Others \/ UNCHANGED requestsVars
  BY <1>4 DEF Edit, ToggleCompose, CreateAnswered, CreateFails, ActAnswered, ActFails,
              LoadArrives, LoadFails, Remount, Others, requestsVars, wire
<1> QED BY <1>1, <1>2, <1>3, <1>4 DEF RequestsNext

LEMMA NextDone ==
  ASSUME HoldInv, DoneInv, [RequestsNext]_requestsVars
  PROVE  DoneInv' /\ (\A r \in MoneyRequests : Moves(r))
<1> DEFINE Moved == \A r \in MoneyRequests : Moves(r)
           Told == \A k \in Keys : made'[k] # Nothing <=> status'[k] # "absent"
           More == \A p \in confirmed' : p \in confirmed \/ Done(p)'
<1>1. Moved /\ Told /\ More
  <2>0. ASSUME made' = made, status' = status, confirmed' = confirmed
        PROVE  Moved /\ Told /\ More
    BY <2>0 DEF Moves, DoneInv
  <2>1. CASE Handle
    <3>1. CASE UNCHANGED <<wire, api>>
      BY <2>0, <3>1 DEF wire, api
    <3>2. CASE \E p \in travelling : Create(p) \/ Resolve(p) \/ Refuse(p)
      <4>1. PICK p \in travelling : Create(p) \/ Resolve(p) \/ Refuse(p)
        BY <3>2
      <4>2. /\ Moved /\ Told
            /\ confirmed' = confirmed \/ (confirmed' = confirmed \cup {p} /\ Done(p)')
        BY <4>1, HandleMoves
      <4> QED BY <4>2
    <3> QED BY <2>1, <3>1, <3>2 DEF Handle
  <2>2. CASE Others
    <3>1. confirmed' = confirmed
      BY <2>2 DEF Others, wire
    <3> QED BY <2>2, <3>1, OthersMove
  <2>3. CASE Submit \/ Click
    <3>1. made' = made /\ status' = status /\ confirmed' = confirmed
      BY <2>3 DEF Submit, Click, Post, api
    <3> QED BY <2>0, <3>1
  <2>4. CASE Edit \/ ToggleCompose \/ CreateAnswered \/ CreateFails \/ ActAnswered \/ ActFails
             \/ LoadArrives \/ LoadFails \/ Remount \/ UNCHANGED requestsVars
    <3>1. made' = made /\ status' = status /\ confirmed' = confirmed
      BY <2>4 DEF Edit, ToggleCompose, CreateAnswered, CreateFails, ActAnswered, ActFails,
                  LoadArrives, LoadFails, Remount, requestsVars, wire, api
    <3> QED BY <2>0, <3>1
  <2> QED BY <2>1, <2>2, <2>3, <2>4 DEF RequestsNext
<1>2. ASSUME NEW p \in confirmed PROVE Done(p)'
  <2>1. p \in DOMAIN posts /\ Done(p)
    BY DEF HoldInv, DoneInv
  <2>2. p \in DOMAIN posts' /\ posts'[p] = posts[p]
    BY <2>1, PostsStay
  <2> QED BY <1>1, <2>1, <2>2, DoneStays
<1>3. \A p \in confirmed' : Done(p)'
  BY <1>1, <1>2
<1> QED BY <1>1, <1>3 DEF DoneInv
-------------------------------------------------------------------------------
\* Whatever a later step sends, what was said of p stands.
LEMMA TellsStays ==
  ASSUME NEW load, NEW p \in DOMAIN posts, Tells(load, p), p \in DOMAIN posts', posts'[p] = posts[p]
  PROVE  Tells(load, p)'
<1>1. p \in Creations <=> p \in Creations'
  BY DEF Creations
<1> QED BY <1>1 DEF Tells

\* Loads that were there before the step, of no later token.
LEMMA LoadsStay ==
  ASSUME HoldInv, LoadInv, [RequestsNext]_requestsVars,
         loads' \subseteq loads, token' = token, told' = told
  PROVE  LoadInv'
<1>1. told \subseteq DOMAIN posts
  BY DEF HoldInv
<1>2. ASSUME NEW load \in loads, Current(load), NEW p \in told PROVE Tells(load, p)'
  <2>1. p \in DOMAIN posts /\ Tells(load, p)
    BY <1>1, <1>2 DEF LoadInv
  <2>2. p \in DOMAIN posts' /\ posts'[p] = posts[p]
    BY <2>1, PostsStay
  <2> QED BY <2>1, <2>2, TellsStays
<1> QED BY <1>2 DEF LoadInv, Current

\* A load that begins has been answered nothing, and the others are no longer
\* current.
LEMMA StartLoadTells ==
  ASSUME LoadInv, StartLoad
  PROVE  LoadInv'
<1>1. token \in Nat /\ token' = token + 1
  BY DEF LoadInv, StartLoad
<1>2. ASSUME NEW load \in loads'
      PROVE  /\ load = [n |-> load.n, incoming |-> load.incoming, outgoing |-> load.outgoing]
             /\ load.n \in Nat /\ load.n <= token'
             /\ load.n = token' => load = NewLoad(token + 1)
  BY <1>1, <1>2 DEF LoadInv, StartLoad, NewLoad
<1>3. \A load, p : load = NewLoad(token + 1) => Tells(load, p)'
  BY DEF Tells, NewLoad
<1>4. \A load \in loads' : Current(load)' => \A p \in told' : Tells(load, p)'
  BY <1>2, <1>3 DEF Current
<1> QED BY <1>1, <1>2, <1>4 DEF LoadInv

\* The API's answer to a GET holds whatever it has done for the page.
LEMMA EffectiveIsDone ==
  ASSUME HoldInv, DoneInv, NEW p \in confirmed
  PROVE  IF p \in Creations THEN Effective(posts[p].key) # "absent"
         ELSE Effective(posts[p].request) = Result[posts[p].what]
<1>1. Done(p) /\ p \in DOMAIN posts
  BY DEF HoldInv, DoneInv
<1>2. p \notin Creations => posts[p].what \in Actions
  BY <1>1, Sent
<1> QED BY <1>1, <1>2, DecisionsStay DEF Done, Effective

LEMMA ServeTells ==
  ASSUME HoldInv, DoneInv, LoadInv, NEW load \in loads, Serve(load),
         token' = token, told' = told, posts' = posts
  PROVE  LoadInv'
<1> DEFINE in == [load EXCEPT !.incoming = [r \in Incoming |-> Effective(r)]]
           out == [load EXCEPT !.outgoing = [k \in Keys |-> Effective(k)]]
<1>1. /\ load = [n |-> load.n, incoming |-> load.incoming, outgoing |-> load.outgoing]
      /\ load.n \in Nat /\ load.n <= token
  BY DEF LoadInv
<1>2. /\ in = [n |-> load.n, incoming |-> [r \in Incoming |-> Effective(r)], outgoing |-> load.outgoing]
      /\ out = [n |-> load.n, incoming |-> load.incoming, outgoing |-> [k \in Keys |-> Effective(k)]]
  BY <1>1
<1>3. \A other \in loads' : other \in loads \/ other = in \/ other = out
  BY DEF Serve
<1>4. ASSUME NEW p \in told, Current(load) PROVE Tells(in, p) /\ Tells(out, p)
  <2>1. Tells(load, p)
    BY <1>4 DEF LoadInv
  <2>2. p \in confirmed /\ p \in DOMAIN posts
    BY DEF HoldInv
  <2>3. CASE p \in Creations
    <3>1. posts[p].key \in Keys /\ Effective(posts[p].key) # "absent"
      BY <2>2, <2>3, Sent, EffectiveIsDone
    <3> QED BY <1>2, <2>1, <2>3, <3>1 DEF Tells
  <2>4. CASE p \notin Creations
    <3>1. Effective(posts[p].request) = Result[posts[p].what]
      BY <2>2, <2>4, EffectiveIsDone
    <3> QED BY <1>2, <2>1, <2>4, <3>1 DEF Tells
  <2> QED BY <2>3, <2>4
<1>5. \A other : Current(other)' <=> Current(other)
  BY DEF Current
<1>6. \A other, p : Tells(other, p) => Tells(other, p)'
  BY DEF Tells, Creations
<1>7. ASSUME NEW other \in loads', Current(other)', NEW p \in told' PROVE Tells(other, p)'
  <2>1. CASE other \in loads
    BY <1>5, <1>6, <1>7, <2>1 DEF LoadInv
  <2>2. CASE other = in \/ other = out
    <3>1. Current(load)
      BY <1>2, <1>5, <1>7, <2>2 DEF Current
    <3> QED BY <1>4, <1>6, <2>2, <3>1
  <2> QED BY <1>3, <2>1, <2>2
<1>8. \A other \in loads' :
        /\ other = [n |-> other.n, incoming |-> other.incoming, outgoing |-> other.outgoing]
        /\ other.n \in Nat /\ other.n <= token'
  BY <1>1, <1>2, <1>3 DEF LoadInv
<1>9. token' \in Nat
  BY DEF LoadInv
<1> QED BY <1>7, <1>8, <1>9 DEF LoadInv

LEMMA InitLoad == RequestsInit => LoadInv /\ WhatWasConfirmedIsShown
  BY DEF RequestsInit, LoadInv, NewLoad, WhatWasConfirmedIsShown

LEMMA NextLoad ==
  ASSUME HoldInv, DoneInv, LoadInv, [RequestsNext]_requestsVars
  PROVE  LoadInv'
<1>1. CASE Handle
  <2>1. token' = token /\ told' = told
    BY <1>1 DEF Handle, history
  <2>2. CASE loads' = loads
    BY <2>1, <2>2, LoadsStay
  <2>3. CASE (\E load \in loads : Serve(load)) /\ UNCHANGED <<wire, api>>
    <3>1. posts' = posts
      BY <2>3 DEF wire
    <3> QED BY <2>1, <2>3, <3>1, ServeTells
  <2> QED BY <1>1, <2>2, <2>3 DEF Handle
<1>2. CASE CreateAnswered \/ ActAnswered \/ Remount
  <2>1. StartLoad
    BY <1>2 DEF CreateAnswered, ActAnswered, Remount
  <2> QED BY <2>1, StartLoadTells
<1>3. CASE LoadArrives \/ LoadFails
  <2>1. loads' \subseteq loads /\ token' = token /\ told' = told
    BY <1>3 DEF LoadArrives, LoadFails, history
  <2> QED BY <2>1, LoadsStay
<1>4. CASE Edit \/ ToggleCompose \/ Submit \/ CreateFails \/ Click \/ ActFails \/ Others
           \/ UNCHANGED requestsVars
  <2>1. loads' = loads /\ token' = token /\ told' = told
    BY <1>4 DEF Edit, ToggleCompose, Submit, CreateFails, Click, ActFails, Others,
                requestsVars, lists, history
  <2> QED BY <2>1, LoadsStay
<1> QED BY <1>1, <1>2, <1>3, <1>4 DEF RequestsNext
-------------------------------------------------------------------------------
LEMMA ShowsStays ==
  ASSUME NEW p \in DOMAIN posts, Shows(p), shown' = shown, p \in DOMAIN posts', posts'[p] = posts[p]
  PROVE  Shows(p)'
<1>1. p \in Creations <=> p \in Creations'
  BY DEF Creations
<1> QED BY <1>1 DEF Shows

\* A list that is put up was answered in full by the load that is current.
LEMMA ArrivedIsShown ==
  ASSUME HoldInv, LoadInv, WhatWasConfirmedIsShown, LoadArrives
  PROVE  WhatWasConfirmedIsShown'
<1>1. posts' = posts /\ told' = told /\ listError' = listError /\ Creations' = Creations
  BY DEF LoadArrives, wire, history, Creations
<1>2. PICK load \in loads :
        /\ Answered(load)
        /\ IF Current(load)
           THEN shown' = [r \in MoneyRequests |->
                            IF r \in Incoming THEN load.incoming[r] ELSE load.outgoing[r]]
           ELSE UNCHANGED <<shown, loading>>
  BY DEF LoadArrives
<1>3. CASE Current(load)
  <2>1. ASSUME NEW p \in told PROVE Shows(p)'
    <3>1. Tells(load, p) /\ p \in DOMAIN posts
      BY <1>3 DEF LoadInv, HoldInv
    <3>2. CASE p \in Creations
      <4>1. posts[p].key \in Keys /\ posts[p].key \notin Incoming /\ posts[p].key \in MoneyRequests
        BY <3>1, <3>2, Sent, NamesAssumption DEF MoneyRequests
      <4> QED BY <1>1, <1>2, <1>3, <3>1, <3>2, <4>1 DEF Shows, Tells, Answered
    <3>3. CASE p \notin Creations
      <4>1. posts[p].request \in MoneyRequests
        BY <3>1, <3>3, Sent
      <4> QED BY <1>1, <1>2, <1>3, <3>1, <3>3, <4>1 DEF Shows, Tells, Answered, MoneyRequests
    <3> QED BY <3>2, <3>3
  <2> QED BY <1>1, <2>1 DEF WhatWasConfirmedIsShown
<1>4. CASE ~Current(load)
  BY <1>1, <1>2, <1>4 DEF WhatWasConfirmedIsShown, Shows
<1> QED BY <1>3, <1>4

LEMMA NextShown ==
  ASSUME HoldInv, LoadInv, WhatWasConfirmedIsShown, [RequestsNext]_requestsVars
  PROVE  WhatWasConfirmedIsShown'
<1>0. told \subseteq DOMAIN posts
  BY DEF HoldInv
<1>1. CASE LoadArrives
  BY <1>1, ArrivedIsShown
<1>2. ASSUME shown' = shown, told' = told, ~loading' /\ ~listError' => ~loading /\ ~listError
      PROVE  WhatWasConfirmedIsShown'
  <2>1. ASSUME NEW p \in told, Shows(p) PROVE Shows(p)'
    <3>1. p \in DOMAIN posts /\ p \in DOMAIN posts' /\ posts'[p] = posts[p]
      BY <1>0, PostsStay
    <3> QED BY <1>2, <2>1, <3>1, ShowsStays
  <2> QED BY <1>2, <2>1 DEF WhatWasConfirmedIsShown
<1>3. CASE LoadFails
  <2>1. shown' = shown /\ told' = told
    BY <1>3 DEF LoadFails, history
  <2>2. listError' = TRUE \/ (listError' = listError /\ loading' = loading)
    BY <1>3 DEF LoadFails
  <2> QED BY <1>2, <2>1, <2>2
<1>4. CASE CreateAnswered \/ ActAnswered \/ Remount
  <2>1. loading' = TRUE
    BY <1>4 DEF CreateAnswered, ActAnswered, Remount, StartLoad
  <2> QED BY <2>1 DEF WhatWasConfirmedIsShown
<1>5. CASE Edit \/ ToggleCompose \/ Submit \/ CreateFails \/ Click \/ ActFails \/ Handle \/ Others
           \/ UNCHANGED requestsVars
  <2>1. shown' = shown /\ told' = told /\ loading' = loading /\ listError' = listError
    BY <1>5 DEF Edit, ToggleCompose, Submit, CreateFails, Click, ActFails, Handle, Others,
                requestsVars, lists, history
  <2> QED BY <1>2, <2>1
<1> QED BY <1>1, <1>3, <1>4, <1>5 DEF RequestsNext
-------------------------------------------------------------------------------
\* The inductive invariant: what goes out under one key is one form, what the API
\* has confirmed stays, and the load awaited began after it was.
THEOREM RequestsInvariance == RequestsSpec => []RequestsInv
<1>1. RequestsInit => RequestsInv
  BY InitHolds, InitForm, InitDone, InitLoad DEF RequestsInv
<1>2. RequestsInv /\ [RequestsNext]_requestsVars => RequestsInv'
  BY NextHolds, NextForm, NextDone, NextLoad, NextShown DEF RequestsInv
<1> QED BY <1>1, <1>2, PTL DEF RequestsSpec

\* Of the requests to create that the page ever sends without an edit of the form
\* between them, no two make two money requests.
THEOREM OneRequestForAForm == RequestsSpec => []OneRequestPerForm
<1>1. RequestsInv => OneRequestPerForm
  BY DEF RequestsInv, FormInv, OneRequestPerForm
<1> QED BY <1>1, RequestsInvariance, PTL

\* No idempotency key leaves the page with two bodies.
THEOREM KeysKeepTheirBodies == RequestsSpec => []KeyKeepsItsBody
<1>1. RequestsInv => KeyKeepsItsBody
  BY DEF RequestsInv, FormInv, KeyKeepsItsBody
<1> QED BY <1>1, RequestsInvariance, PTL

\* A list loaded without an error shows all the page was told went through.
THEOREM ConfirmedIsShown == RequestsSpec => []WhatWasConfirmedIsShown
<1>1. RequestsInv => WhatWasConfirmedIsShown
  BY DEF RequestsInv
<1> QED BY <1>1, RequestsInvariance, PTL

\* What the page was told went through is so at the API: a request it counts as
\* sent exists, and a decision it counts as taken is the one that stands.
THEOREM TheToldIsDone == RequestsSpec => []ToldIsDone
<1>1. RequestsInv => ToldIsDone
  BY DEF RequestsInv, HoldInv, DoneInv, ToldIsDone
<1> QED BY <1>1, RequestsInvariance, PTL

\* A decision of either party stands, whatever clicks and answers are still on
\* their way (accept, decline and cancel resolve PENDING requests only).
THEOREM DecisionsStand == RequestsSpec => DecisionsAreFinal
<1> DEFINE Stands(r) == status[r] \notin {"absent", "PENDING"} => status'[r] = status[r]
<1>1. ASSUME RequestsInv, [RequestsNext]_requestsVars, NEW r \in MoneyRequests
      PROVE  Stands(r)
  BY <1>1, NextDone DEF RequestsInv, Moves
<1>2. RequestsInv /\ [RequestsNext]_requestsVars => [\A r \in MoneyRequests : Stands(r)]_status
  BY <1>1
<1> HIDE DEF Stands
<1>3. RequestsSpec => [][\A r \in MoneyRequests : Stands(r)]_status
  BY <1>2, RequestsInvariance, PTL DEF RequestsSpec
<1> QED BY <1>3, PTL DEF DecisionsAreFinal, Stands
-------------------------------------------------------------------------------
(***************************************************************************)
(* PagedList.  First, which rows Nth and Page return.                      *)
(***************************************************************************)

Above(rows, r) == {s \in rows : s > r}

LEMMA SomeLeast ==
  ASSUME NEW S \in SUBSET Nat, S # {}
  PROVE  \E m \in S : \A s \in S : m <= s
<1>1. PICK m \in S : \A s \in S : <<s, m>> \notin OpToRel(<, Nat)
  BY NatLessThanWellFounded, WFMin
<1>2. \A s \in S : ~ (s < m)
  BY <1>1 DEF OpToRel
<1> QED BY <1>2

\* Some row has n - 1 above it, by induction: the least of them has all the others.
LEMMA RankTaken ==
  ASSUME NEW S \in SUBSET Nat, IsFiniteSet(S)
  PROVE  \A n \in 1..Cardinality(S) : \E r \in S : Cardinality(Above(S, r)) = n - 1
<1> DEFINE Taken1(s, n) == \E r \in s : Cardinality(Above(s, r)) = n - 1
           T == {s \in SUBSET S : \A n \in 1..Cardinality(s) : Taken1(s, n)}
<1>1. {} \in T
  BY FS_EmptySet
<1>2. ASSUME NEW s \in SUBSET S, s # {}, \A x \in s : s \ {x} \in T PROVE s \in T
  <2>1. PICK m \in s : \A r \in s : m <= r
    BY <1>2, SomeLeast
  <2>2. IsFiniteSet(s) /\ Cardinality(s) \in Nat /\ Cardinality(s \ {m}) = Cardinality(s) - 1
    BY FS_Subset, FS_RemoveElement, FS_CardinalityType
  <2>3. \A n \in 1..(Cardinality(s) - 1) : Taken1(s \ {m}, n)
    BY <1>2, <2>2
  <2> SUFFICES ASSUME NEW n \in 1..Cardinality(s) PROVE Taken1(s, n)
    OBVIOUS
  <2>4. CASE n = Cardinality(s)
    <3>1. \A q \in s : q > m <=> q # m
      BY <2>1
    <3>2. Above(s, m) = s \ {m}
      BY <3>1 DEF Above
    <3> QED BY <2>2, <2>4, <3>2
  <2>5. CASE n # Cardinality(s)
    <3>1. n \in 1..(Cardinality(s) - 1)
      BY <2>2, <2>5
    <3>2. PICK r \in s \ {m} : Cardinality(Above(s \ {m}, r)) = n - 1
      BY <2>3, <3>1
    <3>3. r \in s /\ ~ (m > r)
      BY <2>1
    <3>4. Above(s \ {m}, r) = Above(s, r)
      BY <3>3 DEF Above
    <3> QED BY <3>2, <3>4
  <2> QED BY <2>4, <2>5
<1>3. SUBSET S \subseteq T
  <2> HIDE DEF T
  <2> QED BY <1>1, <1>2, SubsetInduction
<1> QED BY <1>3

LEMMA RanksDiffer ==
  ASSUME NEW S \in SUBSET Nat, IsFiniteSet(S), NEW r \in S, NEW s \in S, s < r
  PROVE  /\ Cardinality(Above(S, r)) \in Nat /\ Cardinality(Above(S, s)) \in Nat
         /\ Cardinality(Above(S, r)) < Cardinality(Above(S, s))
<1>0. r > s /\ ~ (r > r) /\ \A q \in S : q > r => q > s
  OBVIOUS
<1>1. Above(S, r) \subseteq Above(S, s) /\ r \in Above(S, s) /\ r \notin Above(S, r)
  BY <1>0 DEF Above
<1>2. IsFiniteSet(Above(S, s)) /\ IsFiniteSet(Above(S, r))
  BY FS_Subset DEF Above
<1> QED BY <1>1, <1>2, FS_Subset, FS_CardinalityType

LEMMA RankBounded ==
  ASSUME NEW S \in SUBSET Nat, IsFiniteSet(S), NEW r \in S
  PROVE  Cardinality(Above(S, r)) \in Nat /\ Cardinality(Above(S, r)) < Cardinality(S)
<1>1. Above(S, r) \in SUBSET S /\ r \notin Above(S, r)
  BY DEF Above
<1> QED BY <1>1, FS_Subset, FS_CardinalityType

\* Nth numbers the rows downwards, each once.
LEMMA NthRow ==
  ASSUME NEW S \in SUBSET Nat, IsFiniteSet(S)
  PROVE  /\ \A n \in 1..Cardinality(S) : Nth(S, n) \in S
         /\ \A n, k \in 1..Cardinality(S) : n < k => Nth(S, k) < Nth(S, n)
         /\ \A r \in S : \E n \in 1..Cardinality(S) : r = Nth(S, n)
<1>0. Cardinality(S) \in Nat
  BY FS_CardinalityType
<1>1. ASSUME NEW n \in 1..Cardinality(S)
      PROVE  Nth(S, n) \in S /\ Cardinality(Above(S, Nth(S, n))) = n - 1
  <2>1. \E r \in S : Cardinality({s \in S : s > r}) = n - 1
    BY RankTaken DEF Above
  <2> QED BY <2>1 DEF Nth, Above
<1>2. ASSUME NEW n \in 1..Cardinality(S), NEW k \in 1..Cardinality(S), n < k
      PROVE  Nth(S, k) < Nth(S, n)
  <2> DEFINE r == Nth(S, n)
             s == Nth(S, k)
  <2>1. /\ r \in S /\ s \in S
        /\ Cardinality(Above(S, r)) = n - 1 /\ Cardinality(Above(S, s)) = k - 1
    BY <1>1
  <2>2. r \in Nat /\ s \in Nat
    BY <2>1
  <2> HIDE DEF r, s
  <2>3. r # s
    BY <1>0, <1>2, <2>1
  <2>4. ~ (r < s)
    <3> SUFFICES ASSUME r < s PROVE FALSE
      OBVIOUS
    <3>1. Cardinality(Above(S, s)) < Cardinality(Above(S, r))
      BY <2>1, RanksDiffer
    <3> QED BY <1>0, <1>2, <2>1, <3>1
  <2>5. s < r
    BY <2>2, <2>3, <2>4
  <2> QED BY <2>5 DEF r, s
<1>3. ASSUME NEW r \in S PROVE \E n \in 1..Cardinality(S) : r = Nth(S, n)
  <2> DEFINE n == Cardinality(Above(S, r)) + 1
  <2>1. n \in 1..Cardinality(S) /\ Cardinality(Above(S, r)) = n - 1
    BY <1>0, RankBounded
  <2>2. Nth(S, n) \in S /\ Cardinality(Above(S, Nth(S, n))) = n - 1
    BY <1>1, <2>1
  <2>3. ~ (r < Nth(S, n)) /\ ~ (Nth(S, n) < r)
    <3>1. ASSUME r < Nth(S, n) PROVE FALSE
      <4>1. Cardinality(Above(S, Nth(S, n))) < Cardinality(Above(S, r))
        BY <2>2, <3>1, RanksDiffer
      <4> QED BY <1>0, <2>1, <2>2, <4>1
    <3>2. ASSUME Nth(S, n) < r PROVE FALSE
      <4>1. Cardinality(Above(S, r)) < Cardinality(Above(S, Nth(S, n)))
        BY <2>2, <3>2, RanksDiffer
      <4> QED BY <1>0, <2>1, <2>2, <4>1
    <3> QED BY <3>1, <3>2
  <2>4. r \in Nat /\ Nth(S, n) \in Nat
    BY <2>2
  <2> HIDE DEF n
  <2> QED BY <2>1, <2>3, <2>4
<1> QED BY <1>1, <1>2, <1>3
-------------------------------------------------------------------------------
\* The query finds what fits beyond the cursor, unless Prisma's cursor row has gone.
LEMMA BeyondIs ==
  ASSUME NEW f, NEW c \in Rows \cup {0}, view \in Views, visible \in SUBSET Rows
  PROVE  /\ Beyond(f, c) \in SUBSET Rows /\ IsFiniteSet(Beyond(f, c)) /\ Beyond(f, c) \in SUBSET Nat
         /\ \A r \in Beyond(f, c) : Fits(f, r)
         /\ c = 0 \/ Continues(f, c) =>
              /\ c # 0 => \A r \in Beyond(f, c) : r < c
              /\ \A r \in Rows : Fits(f, r) /\ (c # 0 => r < c) => r \in Beyond(f, c)
<1> DEFINE rows == {r \in Rows : Fits(f, r)}
           at == {r \in rows : r <= c}
<1>1. Beyond(f, c) = CASE c = 0 -> rows
                       [] c # 0 /\ view = "people" -> IF at = {} THEN {} ELSE at \ {Greatest(at)}
                       [] OTHER -> {r \in rows : r < c}
  BY Zenon DEF Beyond
<1>2. Beyond(f, c) \subseteq rows
  BY <1>1, RowsAssumption
<1>3. /\ Beyond(f, c) \in SUBSET Rows /\ IsFiniteSet(Beyond(f, c)) /\ Beyond(f, c) \in SUBSET Nat
      /\ \A r \in Beyond(f, c) : Fits(f, r)
  BY <1>2, RowsAssumption, FS_Subset
<1>4. CASE c = 0
  BY <1>1, <1>3, <1>4
<1>5. CASE c # 0 /\ view # "people"
  BY <1>1, <1>3, <1>5
<1>6. CASE c # 0 /\ view = "people" /\ Continues(f, c)
  <2>1. c \in at /\ \A r \in at : r <= c
    BY <1>6, RowsAssumption DEF Continues
  <2>2. Greatest(at) = c
    <3>1. \E r \in at : \A s \in at : s <= r
      BY <2>1
    <3>2. Greatest(at) \in at /\ \A s \in at : s <= Greatest(at)
      BY <3>1 DEF Greatest
    <3>3. Greatest(at) <= c /\ c <= Greatest(at) /\ Greatest(at) \in Nat /\ c \in Nat
      BY <2>1, <3>2, RowsAssumption
    <3> QED BY <3>3
  <2>3. Beyond(f, c) = at \ {c}
    BY <1>1, <1>6, <2>1, <2>2
  <2> QED BY <1>3, <1>6, <2>1, <2>3, RowsAssumption
<1> QED BY <1>3, <1>4, <1>5, <1>6

LEMMA PageIs ==
  ASSUME NEW f, NEW c \in Rows \cup {0}, view \in Views, visible \in SUBSET Rows
  PROVE  /\ Page(f, c) \in Pages
         /\ (\A r \in Rows : ~ Fits(f, r)) => Page(f, c).items = <<>> /\ Page(f, c).next = 0
         /\ c = 0 \/ Continues(f, c) =>
              /\ Descends(Page(f, c).items, Page(f, c).next, Matching[view][f], c)
              /\ Covers(Page(f, c).items, Page(f, c).next, Wanted(f, Rows), c)
<1> DEFINE rows == Beyond(f, c)
           full == Cardinality(rows) > PageSize
           len == IF full THEN PageSize ELSE Cardinality(rows)
           page == Page(f, c)
<1>1. /\ rows \in SUBSET Rows /\ IsFiniteSet(rows) /\ rows \in SUBSET Nat
      /\ \A r \in rows : Fits(f, r)
      /\ c = 0 \/ Continues(f, c) =>
           /\ c # 0 => \A r \in rows : r < c
           /\ \A r \in Rows : Fits(f, r) /\ (c # 0 => r < c) => r \in rows
  BY BeyondIs
<1>2. /\ page.items = [i \in 1..len |-> [row |-> Nth(rows, i), read |-> Nth(rows, i) \in read]]
      /\ page.next = IF full THEN Nth(rows, PageSize) ELSE 0
      /\ page = [items |-> page.items, next |-> page.next]
  BY DEF Page
<1> HIDE DEF page, rows
<1>3. Cardinality(rows) \in Nat /\ PageSize \in Nat \ {0} /\ len \in Nat /\ len <= Cardinality(rows)
  BY <1>1, PageAssumption, FS_CardinalityType
<1>4. /\ \A n \in 1..Cardinality(rows) : Nth(rows, n) \in rows
      /\ \A n, k \in 1..Cardinality(rows) : n < k => Nth(rows, k) < Nth(rows, n)
      /\ \A r \in rows : \E n \in 1..Cardinality(rows) : r = Nth(rows, n)
  BY <1>1, NthRow
<1>5. /\ DOMAIN page.items = 1..len
      /\ \A i \in 1..len : /\ page.items[i] = [row |-> Nth(rows, i), read |-> Nth(rows, i) \in read]
                           /\ page.items[i].row = Nth(rows, i)
                           /\ i \in 1..Cardinality(rows) /\ Nth(rows, i) \in rows
  BY <1>2, <1>3, <1>4
<1>6. full => PageSize \in 1..Cardinality(rows) /\ len = PageSize /\ page.next = Nth(rows, PageSize)
  BY <1>2, <1>3
<1>7. ~full => len = Cardinality(rows) /\ page.next = 0
  BY <1>2
<1> HIDE DEF full, len
<1>11. /\ \A r \in rows : r \in Nat
       /\ \A i \in 1..len : page.items[i].row \in rows /\ page.items[i].row \in Nat
       /\ page.next \in Nat
  <2>1. \A r \in rows : r \in Nat
    BY <1>1
  <2>2. ASSUME NEW i \in 1..len PROVE page.items[i].row \in rows
    BY <1>5
  <2>3. full => page.next \in rows
    BY <1>4, <1>6
  <2>4. ~full => page.next = 0
    BY <1>7
  <2> QED BY <2>1, <2>2, <2>3, <2>4
<1>8. page \in Pages
  <2>1. ASSUME NEW i \in 1..len PROVE page.items[i] \in Shown
    <3>1. Nth(rows, i) \in Rows
      BY <1>1, <1>5
    <3>2. page.items[i] = [row |-> Nth(rows, i), read |-> Nth(rows, i) \in read]
      BY <1>5
    <3>3. CASE Nth(rows, i) \in read
      <4>1. page.items[i] = [row |-> Nth(rows, i), read |-> TRUE]
        BY <3>2, <3>3
      <4> QED BY <3>1, <4>1 DEF Shown
    <3>4. CASE Nth(rows, i) \notin read
      <4>1. (Nth(rows, i) \in read) = FALSE
        BY <3>4
      <4>2. page.items[i] = [row |-> Nth(rows, i), read |-> FALSE]
        BY <3>2, <4>1, Zenon
      <4> QED BY <3>1, <4>2 DEF Shown
    <3> QED BY <3>3, <3>4
  <2>2. page.items \in [1..len -> Shown]
    <3>1. page.items = [i \in 1..len |-> page.items[i]]
      BY <1>2
    <3> QED BY <2>1, <3>1
  <2>3. page.items \in Seq(Shown)
    BY <1>3, <2>2, SeqDef
  <2>4. page.next \in Rows \cup {0}
    BY <1>1, <1>4, <1>6, <1>7
  <2> QED BY <1>2, <2>3, <2>4 DEF Pages
<1>9. ASSUME \A r \in Rows : ~ Fits(f, r) PROVE page.items = <<>> /\ page.next = 0
  <2>1. rows = {}
    BY <1>1, <1>9
  <2>2. Cardinality(rows) = 0
    BY <2>1, FS_EmptySet
  <2>3. ~full /\ len = 0 /\ page.next = 0
    <3>1. ~full
      BY <2>2, PageAssumption DEF full
    <3> QED BY <1>7, <2>2, <3>1
  <2>4. page.items \in Seq(Shown) /\ DOMAIN page.items = {}
    BY <1>5, <1>8, <2>3 DEF Pages
  <2>5. page.items = <<>>
    <3>1. Len(page.items) = 0
      <4>1. Len(page.items) \in Nat /\ DOMAIN page.items = 1..Len(page.items)
        BY <2>4, LenProperties
      <4>2. 1 \notin 1..Len(page.items)
        BY <2>4, <4>1
      <4> QED BY <4>1, <4>2
    <3> QED BY <2>4, <3>1, EmptySeq
  <2> QED BY <2>3, <2>5
<1>10. ASSUME c = 0 \/ Continues(f, c)
       PROVE  Descends(page.items, page.next, Matching[view][f], c) /\ Covers(page.items, page.next, Wanted(f, Rows), c)
  <2>1. ASSUME NEW i \in 1..len, NEW j \in 1..len, i < j PROVE page.items[i].row > page.items[j].row
    BY <1>1, <1>4, <1>5, <2>1
  <2>2. ASSUME NEW i \in 1..len PROVE page.next <= page.items[i].row
    <3>1. CASE ~full
      BY <1>7, <1>11, <3>1
    <3>2. CASE full /\ i = PageSize
      <4>1. page.next = Nth(rows, PageSize) /\ page.items[i].row = Nth(rows, i)
        BY <1>5, <1>6, <3>2
      <4> QED BY <1>11, <3>2, <4>1
    <3>3. CASE full /\ i # PageSize
      <4>1. Nth(rows, PageSize) < Nth(rows, i)
        BY <1>3, <1>4, <1>5, <1>6, <3>3
      <4>2. page.next = Nth(rows, PageSize) /\ page.items[i].row = Nth(rows, i)
        BY <1>5, <1>6, <3>3
      <4> QED BY <1>11, <4>1, <4>2
    <3> QED BY <3>1, <3>2, <3>3
  <2>3. ASSUME NEW r \in rows, page.next <= r PROVE r \in RowsOf(page.items)
    <3>1. PICK n \in 1..Cardinality(rows) : r = Nth(rows, n)
      BY <1>4
    <3>2. n \in 1..len
      <4>1. CASE ~full
        BY <1>7, <4>1
      <4>2. CASE full
        <5>1. ~ (PageSize < n)
          <6> SUFFICES ASSUME PageSize < n PROVE FALSE
            OBVIOUS
          <6>1. Nth(rows, n) < Nth(rows, PageSize)
            BY <1>4, <1>6, <4>2
          <6>2. page.next \in Nat /\ r \in Nat /\ page.next = Nth(rows, PageSize)
            BY <1>6, <1>11, <4>2
          <6> QED BY <2>3, <3>1, <6>1, <6>2
        <5> QED BY <1>3, <1>6, <4>2, <5>1
      <4> QED BY <4>1, <4>2
    <3> QED BY <1>5, <3>1, <3>2 DEF RowsOf
  <2>4. \A r \in RowsOf(page.items) : r \in rows /\ page.next <= r
    BY <1>5, <2>2 DEF RowsOf
  <2>5. \A r \in rows : r \in Matching[view][f]
    BY <1>1 DEF Fits
  <2>6. c # 0 => page.next < c
    <3>1. CASE ~full
      BY <1>7, <3>1, RowsAssumption
    <3>2. CASE full
      BY <1>1, <1>4, <1>6, <1>10, <3>2
    <3> QED BY <3>1, <3>2
  <2>7. Descends(page.items, page.next, Matching[view][f], c)
    BY <1>1, <1>5, <1>10, <2>1, <2>4, <2>5, <2>6 DEF Descends
  <2>8. Covers(page.items, page.next, Wanted(f, Rows), c)
    BY <1>1, <1>10, <2>3 DEF Covers, Wanted
  <2> QED BY <2>7, <2>8
<1> QED BY <1>8, <1>9, <1>10 DEF page
-------------------------------------------------------------------------------
LEMMA CoversLess ==
  ASSUME NEW rows, NEW next, NEW w, NEW c, Covers(rows, next, w, c), NEW v \in SUBSET w
  PROVE  Covers(rows, next, v, c)
BY DEF Covers

\* Rows only become visible, read and suspended: what fits later fitted before.
LEMMA WantedLess ==
  ASSUME view' = view, visible \subseteq visible', read \subseteq read', suspended \subseteq suspended'
  PROVE  \A f, since : since \subseteq visible => Wanted(f, since)' \subseteq Wanted(f, since)
BY DEF Wanted, Fits

\* A page that goes on from where the list ends.
LEMMA PagesJoin ==
  ASSUME NEW rows \in Seq(Shown), NEW more1 \in Seq(Shown), NEW c \in Rows, NEW next \in Rows \cup {0},
         NEW fitting, NEW wanted \in SUBSET Rows,
         Descends(rows, c, fitting, 0), Covers(rows, c, wanted, 0),
         Descends(more1, next, fitting, c), Covers(more1, next, wanted, c)
  PROVE  Descends(rows \o more1, next, fitting, 0) /\ Covers(rows \o more1, next, wanted, 0)
<1> DEFINE m == Len(rows)
           n == Len(more1)
           all == rows \o more1
<1>1. /\ m \in Nat /\ n \in Nat /\ DOMAIN rows = 1..m /\ DOMAIN more1 = 1..n
      /\ all \in Seq(Shown) /\ Len(all) = m + n /\ DOMAIN all = 1..(m + n)
      /\ \A i \in 1..(m + n) : all[i] = IF i <= m THEN rows[i] ELSE more1[i - m]
  BY ConcatProperties, LenProperties
<1>2. /\ \A i \in 1..m : rows[i].row \in Rows /\ c <= rows[i].row /\ rows[i].row \in fitting
      /\ \A i \in 1..n : more1[i].row \in Rows /\ next <= more1[i].row /\ more1[i].row < c /\ more1[i].row \in fitting
      /\ c \in Nat /\ c # 0 /\ next \in Nat /\ next < c
  <2>1. ASSUME NEW i \in 1..m
        PROVE  rows[i].row \in Rows /\ rows[i].row \in RowsOf(rows)
    <3>1. rows[i] \in Shown
      BY ElementOfSeq
    <3>2. i \in DOMAIN rows
      BY <1>1
    <3> QED BY <3>1, <3>2 DEF Shown, RowsOf
  <2>2. ASSUME NEW i \in 1..n
        PROVE  more1[i].row \in Rows /\ more1[i].row \in RowsOf(more1)
    <3>1. more1[i] \in Shown
      BY ElementOfSeq
    <3>2. i \in DOMAIN more1
      BY <1>1
    <3> QED BY <3>1, <3>2 DEF Shown, RowsOf
  <2>3. c \in Nat /\ c # 0 /\ next \in Nat /\ next < c
    BY RowsAssumption DEF Descends
  <2> QED BY <2>1, <2>2, <2>3 DEF Descends
<1> HIDE DEF m, n, all
<1>3. /\ \A i \in 1..m : i \in 1..(m + n) /\ all[i] = rows[i]
      /\ \A i \in 1..n : i + m \in 1..(m + n) /\ all[i + m] = more1[i]
      /\ \A i \in 1..(m + n) : i \in 1..m \/ (i - m \in 1..n /\ all[i] = more1[i - m])
  BY <1>1
<1>4. RowsOf(all) = RowsOf(rows) \cup RowsOf(more1)
  <2>1. ASSUME NEW i \in 1..(m + n) PROVE all[i].row \in RowsOf(rows) \cup RowsOf(more1)
    BY <1>1, <1>3 DEF RowsOf
  <2>2. ASSUME NEW i \in 1..m PROVE rows[i].row \in RowsOf(all)
    BY <1>1, <1>3 DEF RowsOf
  <2>3. ASSUME NEW i \in 1..n PROVE more1[i].row \in RowsOf(all)
    BY <1>1, <1>3 DEF RowsOf
  <2> QED BY <1>1, <2>1, <2>2, <2>3 DEF RowsOf
<1>5. ASSUME NEW i \in 1..(m + n), NEW j \in 1..(m + n), i < j PROVE all[i].row > all[j].row
  <2>1. CASE j \in 1..m
    <3>1. i \in 1..m /\ all[i] = rows[i] /\ all[j] = rows[j]
      BY <1>1, <1>3, <1>5, <2>1
    <3> QED BY <1>1, <1>5, <2>1, <3>1 DEF Descends
  <2>2. CASE i \in 1..m /\ j \notin 1..m
    <3>1. all[i] = rows[i] /\ j - m \in 1..n /\ all[j] = more1[j - m]
      BY <1>3, <2>2
    <3>2. all[i].row \in Nat /\ all[j].row \in Nat /\ c <= all[i].row /\ all[j].row < c
      BY <1>2, <2>2, <3>1, RowsAssumption
    <3> QED BY <1>2, <3>2
  <2>3. CASE i \notin 1..m
    <3>1. /\ i - m \in 1..n /\ all[i] = more1[i - m] /\ j - m \in 1..n /\ all[j] = more1[j - m]
          /\ i - m < j - m
      BY <1>1, <1>3, <1>5, <2>3
    <3> QED BY <1>1, <3>1 DEF Descends
  <2> QED BY <2>1, <2>2, <2>3
<1>6. \A r \in RowsOf(all) : r \in fitting /\ next <= r
  <2>1. \A r \in RowsOf(rows) : r \in fitting /\ next <= r
    <3>1. ASSUME NEW i \in 1..m PROVE next <= rows[i].row
      <4>1. rows[i].row \in Nat /\ c <= rows[i].row
        BY <1>2, RowsAssumption
      <4> QED BY <1>2, <4>1
    <3> QED BY <1>1, <1>2, <3>1 DEF RowsOf
  <2>2. \A r \in RowsOf(more1) : r \in fitting /\ next <= r
    BY <1>1, <1>2 DEF RowsOf
  <2> QED BY <1>4, <2>1, <2>2
<1>7. Descends(all, next, fitting, 0)
  BY <1>1, <1>5, <1>6 DEF Descends
<1>8. Covers(all, next, wanted, 0)
  <2> SUFFICES ASSUME NEW r \in wanted, next <= r PROVE r \in RowsOf(all)
    BY DEF Covers
  <2>1. r \in Nat
    BY RowsAssumption
  <2>2. CASE c <= r
    BY <1>4, <2>2 DEF Covers
  <2>3. CASE r < c
    BY <1>4, <2>3 DEF Covers
  <2> QED BY <1>2, <2>1, <2>2, <2>3
<1> QED BY <1>7, <1>8 DEF all
-------------------------------------------------------------------------------
Grows ==
  /\ view' = view
  /\ visible' \in SUBSET Rows /\ read' \in SUBSET Rows /\ suspended' \in SUBSET Rows
  /\ visible \subseteq visible' /\ read \subseteq read' /\ suspended \subseteq suspended'

\* What a load or the list shows stays right as rows come and go.
LEMMA StaysCovered ==
  ASSUME Grows, NEW rows, NEW next, NEW f, NEW since \in SUBSET visible, NEW c,
         Covers(rows, next, Wanted(f, since), c)
  PROVE  Covers(rows, next, Wanted(f, since)', c)
<1>1. Wanted(f, since)' \subseteq Wanted(f, since)
  BY WantedLess DEF Grows
<1> QED BY <1>1, CoversLess

LEMMA BaseStays ==
  ASSUME ListTypes, BaseInv, Grows, base' = base, items' = items, cursor' = cursor, mixed' = mixed,
         epoch <= epoch', epoch' \in Nat
  PROVE  BaseInv'
<1>1. base.since \in SUBSET visible /\ base.since \subseteq visible' /\ base.epoch <= epoch'
  BY DEF ListTypes, BaseInv, Grows
<1>2. ~mixed => Covers(items, cursor, Wanted(base.filter, base.since), 0)
  BY DEF BaseInv
<1>3. Wanted(base.filter, base.since)' \subseteq Wanted(base.filter, base.since)
  BY <1>1 DEF Wanted, Fits, Grows
<1>4. ~mixed => Covers(items, cursor, Wanted(base.filter, base.since)', 0)
  BY <1>2, <1>3, CoversLess
<1> HIDE DEF Wanted
<1> QED BY <1>1, <1>4 DEF BaseInv, Grows

LEMMA MoreStays ==
  ASSUME ListTypes, BaseInv, MoreInv, Grows, base' = base, cursor' = cursor, mixed' = mixed,
         epoch <= epoch', epoch' \in Nat, more' \in {more, None}
  PROVE  MoreInv'
<1> SUFFICES ASSUME more' = more, more # None PROVE MoreInv'
  BY DEF MoreInv
<1>1. base.since \in SUBSET visible /\ more.epoch <= epoch'
  BY DEF ListTypes, BaseInv, MoreInv
<1>2. Wanted(more.filter, base.since)' \subseteq Wanted(more.filter, base.since)
  BY <1>1 DEF Wanted, Fits, Grows
<1>3. Covers(more.page.items, more.page.next, Wanted(more.filter, base.since), more.cursor)
        => Covers(more.page.items, more.page.next, Wanted(more.filter, base.since)', more.cursor)
  BY <1>2, CoversLess
<1> QED BY <1>1, <1>3 DEF MoreInv, TooShort, Grows

LEMMA FirstsStay ==
  ASSUME ListTypes, FirstsInv, Grows
  PROVE  \A load \in firsts :
           /\ load.since \subseteq visible'
           /\ load.page # None =>
                /\ Descends(load.page.items, load.page.next, Matching[view'][load.filter], 0)
                /\ Covers(load.page.items, load.page.next, Wanted(load.filter, load.since)', 0)
<1> TAKE load \in firsts
<1>1. load.since \in SUBSET visible
  BY DEF FirstsInv
<1>2. load.page # None => Covers(load.page.items, load.page.next, Wanted(load.filter, load.since)', 0)
  BY <1>1, StaysCovered DEF FirstsInv
<1> QED BY <1>1, <1>2 DEF FirstsInv, Grows

\* Steps that change neither the screen nor the loads.
LEMMA QuietKeeps ==
  ASSUME ListInv, Grows, UNCHANGED <<screen, past, epoch, firsts>>, more' \in {more, None},
         marking' \in {None} \cup [row : Rows, done : BOOLEAN]
  PROVE  ListInv'
<1> USE DEF screen, past, ListInv
<1>1. ListTypes'
  BY DEF ListTypes, Grows
<1>2. BaseInv'
  BY BaseStays DEF ListTypes
<1>3. MoreInv'
  BY MoreStays DEF ListTypes
<1>4. FirstsInv'
  BY FirstsStay DEF FirstsInv
<1>5. ScreenInv'
  BY DEF ScreenInv, TooShort, Grows
<1> QED BY <1>1, <1>2, <1>3, <1>4, <1>5

LEMMA NoChange ==
  ASSUME ListTypes, UNCHANGED <<view, database>>
  PROVE  Grows
BY DEF ListTypes, Grows, database

LEMMA WantedPart ==
  ASSUME visible \subseteq Rows
  PROVE  \A f, since : Wanted(f, since) \subseteq Wanted(f, Rows)
BY DEF Wanted, Fits

\* The API answers a first page.
LEMMA ServeFirstKeeps ==
  ASSUME ListInv, ServeFirst, UNCHANGED <<view, screen, epoch, past>>
  PROVE  ListInv'
<1> USE DEF ListInv, screen, past
<1>1. Grows
  BY NoChange DEF ServeFirst
<1>2. PICK load \in firsts :
        /\ load.page = None
        /\ firsts' = (firsts \ {load}) \cup {[load EXCEPT !.page = Page(load.filter, 0), !.since = visible]}
  BY DEF ServeFirst
<1> DEFINE served == [load EXCEPT !.page = Page(load.filter, 0), !.since = visible]
           page == Page(load.filter, 0)
<1>3. /\ page \in Pages
      /\ Descends(page.items, page.next, Matching[view][load.filter], 0)
      /\ Covers(page.items, page.next, Wanted(load.filter, Rows), 0)
  BY PageIs DEF ListTypes
<1>4. Covers(page.items, page.next, Wanted(load.filter, visible)', 0)
  <2>1. Wanted(load.filter, visible)' \subseteq Wanted(load.filter, Rows)
    BY WantedPart DEF ListTypes, ServeFirst, database, Wanted, Fits
  <2> QED BY <1>3, <2>1, CoversLess
<1>5. /\ served.n = load.n /\ served.filter = load.filter /\ served.page = page /\ served.since = visible
      /\ served \in [n : Nat, filter : Filters, page : Pages \cup {None}, since : SUBSET Rows]
  BY <1>3 DEF ListTypes
<1> HIDE DEF served, page
<1>6. firsts' = (firsts \ {load}) \cup {served} /\ UNCHANGED <<database, more, marking>>
  BY <1>2 DEF served, ServeFirst
<1>7. ListTypes'
  BY <1>1, <1>5, <1>6 DEF ListTypes, database
<1>8. BaseInv'
  BY <1>1, BaseStays DEF ListTypes
<1>9. MoreInv'
  BY <1>1, <1>6, MoreStays DEF ListTypes
<1>10. FirstsInv'
  <2>1. ASSUME NEW l \in firsts'
        PROVE  /\ l.n <= epoch' /\ l.since \subseteq visible'
               /\ l.page # None =>
                    /\ Descends(l.page.items, l.page.next, Matching[view'][l.filter], 0)
                    /\ Covers(l.page.items, l.page.next, Wanted(l.filter, l.since)', 0)
               /\ l.n = epoch' =>
                    /\ l.filter = filter' /\ base'.epoch < epoch'
                    /\ more' # None => more'.epoch < epoch'
    <3>1. CASE l \in firsts
      BY <1>1, <1>6, <3>1, FirstsStay DEF FirstsInv
    <3>2. CASE l = served
      <4>1. Wanted(l.filter, l.since)' = Wanted(load.filter, visible)'
        BY <1>5, <1>6, <3>2 DEF Wanted, Fits, database
      <4>2. l.page = page /\ l.since = visible' /\ l.n = load.n /\ l.filter = load.filter
        BY <1>5, <1>6, <3>2 DEF database
      <4> QED BY <1>3, <1>4, <1>6, <4>1, <4>2 DEF FirstsInv
    <3> QED BY <1>6, <3>1, <3>2
  <2>2. \A a, b \in firsts' : a.n = b.n => a = b
    BY <1>5, <1>6 DEF FirstsInv
  <2> QED BY <2>1, <2>2 DEF FirstsInv
<1>11. ScreenInv'
  <2>1. firsts = {} => FALSE
    BY <1>2
  <2> QED BY <2>1 DEF ScreenInv, TooShort
<1> QED BY <1>7, <1>8, <1>9, <1>10, <1>11

\* The API answers a further page, from where its cursor stands then.
LEMMA ServeMoreKeeps ==
  ASSUME ListInv, ServeMore, UNCHANGED <<view, screen, epoch, past>>
  PROVE  ListInv'
<1> USE DEF ListInv, screen, past
<1> DEFINE page == Page(more.filter, more.cursor)
           whole == Continues(more.filter, more.cursor)
<1>1. Grows
  BY NoChange DEF ServeMore
<1>2. /\ more # None /\ more.page = None
      /\ more' = [more EXCEPT !.page = page, !.whole = whole]
      /\ UNCHANGED <<database, firsts, marking>>
  BY DEF ServeMore
<1>3. more \in [filter : Filters, cursor : Rows, epoch : Nat, page : Pages \cup {None}, whole : BOOLEAN]
  BY <1>2 DEF ListTypes
<1>4. /\ page \in Pages
      /\ whole =>
           /\ Descends(page.items, page.next, Matching[view][more.filter], more.cursor)
           /\ Covers(page.items, page.next, Wanted(more.filter, Rows), more.cursor)
  BY <1>3, PageIs DEF ListTypes
<1>5. whole \in BOOLEAN
  BY DEF Continues, Fits
<1>6. TooShort(more.filter) => ~whole
  BY ViewAssumption DEF TooShort, Continues, Fits
<1>7. whole => Covers(page.items, page.next, Wanted(more.filter, base.since)', more.cursor)
  <2>1. Wanted(more.filter, base.since)' \subseteq Wanted(more.filter, Rows)
    BY <1>2, <1>3, <1>5 DEF ListTypes, database, Wanted, Fits
  <2> QED BY <1>4, <2>1, CoversLess
<1> HIDE DEF page, whole
<1>8. /\ more'.filter = more.filter /\ more'.cursor = more.cursor /\ more'.epoch = more.epoch
      /\ more'.page = page /\ more'.whole = whole
      /\ more' \in [filter : Filters, cursor : Rows, epoch : Nat, page : Pages \cup {None}, whole : BOOLEAN]
  BY <1>2, <1>3, <1>4, <1>5
<1>9. ListTypes'
  BY <1>1, <1>2, <1>8 DEF ListTypes, database
<1>10. BaseInv'
  BY <1>1, BaseStays DEF ListTypes
<1>11. MoreInv'
  <2>1. more'.epoch <= epoch' /\ (TooShort(more.filter)' => ~more'.whole)
    BY <1>2, <1>6, <1>8 DEF MoreInv, TooShort
  <2>2. more'.whole => Descends(more'.page.items, more'.page.next, Matching[view'][more'.filter], more'.cursor)
    BY <1>4, <1>8
  <2>3. more'.whole => Covers(more'.page.items, more'.page.next, Wanted(more.filter, base.since)', more'.cursor)
    BY <1>7, <1>8
  <2>4. more'.epoch = base'.epoch /\ more'.filter = base'.filter /\ ~mixed' /\ ~TooShort(more.filter)'
          => more'.cursor = cursor'
    BY <1>2, <1>8 DEF MoreInv, TooShort
  <2> QED BY <1>8, <2>1, <2>2, <2>3, <2>4 DEF MoreInv, TooShort
<1>12. FirstsInv'
  BY <1>1, <1>2, <1>8, FirstsStay DEF FirstsInv
<1>13. ScreenInv'
  BY <1>2 DEF ScreenInv, TooShort
<1> QED BY <1>9, <1>10, <1>11, <1>12, <1>13

LEMMA LoadMoreKeeps ==
  ASSUME ListInv, LoadMore
  PROVE  ListInv'
<1> USE DEF ListInv, screen, past, LoadMore
<1>1. Grows
  BY NoChange
<1>2. /\ cursor \in Rows
      /\ more' = [filter |-> filter, cursor |-> cursor, epoch |-> base.epoch, page |-> None, whole |-> TRUE]
  BY DEF MoreOffered, ListTypes
<1>3. /\ more'.filter = filter /\ more'.cursor = cursor /\ more'.epoch = base.epoch
      /\ more'.page = None /\ more'.whole = TRUE
      /\ more' \in [filter : Filters, cursor : Rows, epoch : Nat, page : Pages \cup {None}, whole : BOOLEAN]
  BY <1>2 DEF ListTypes
<1>4. ListTypes'
  BY <1>1, <1>3 DEF ListTypes, database
<1>5. BaseInv'
  BY <1>1, BaseStays DEF ListTypes
<1>6. MoreInv'
  BY <1>3 DEF MoreInv, BaseInv, ListTypes
<1>7. FirstsInv'
  BY <1>1, <1>3, FirstsStay DEF FirstsInv
<1>8. ScreenInv'
  BY DEF ScreenInv, TooShort
<1> QED BY <1>4, <1>5, <1>6, <1>7, <1>8

\* Unless mixed, the page was asked for from the end of this very list.
LEMMA MoreArrivesKeeps ==
  ASSUME ListInv, MoreArrives
  PROVE  ListInv'
<1> USE DEF ListInv, MoreArrives
<1>1. Grows
  BY NoChange
<1>2. /\ more \in [filter : Filters, cursor : Rows, epoch : Nat, page : Pages \cup {None}, whole : BOOLEAN]
      /\ more.page \in Pages
  BY DEF ListTypes
<1>3. more.page.items \in Seq(Shown) /\ more.page.next \in Rows \cup {0}
  BY <1>2 DEF Pages
<1>4. ListTypes'
  <2>1. items' \in Seq(Shown)
    BY <1>3, ConcatProperties DEF ListTypes
  <2> QED BY <1>1, <1>3, <2>1 DEF ListTypes, database
<1>5. ~mixed' => /\ ~mixed /\ more.whole /\ more.epoch = base.epoch /\ more.filter = base.filter
                 /\ ~TooShort(more.filter) /\ more.cursor = cursor
  BY DEF MoreInv
<1>6. BaseInv'
  <2>1. base'.epoch <= epoch' /\ base'.since \subseteq visible'
    BY DEF BaseInv, database
  <2> SUFFICES ASSUME ~mixed'
               PROVE  /\ Descends(items', cursor', Matching[view'][base'.filter], 0)
                      /\ Covers(items', cursor', Wanted(base.filter, base.since)', 0)
    BY <2>1 DEF BaseInv
  <2>2. /\ Descends(items, cursor, Matching[view][base.filter], 0)
        /\ Covers(items, cursor, Wanted(base.filter, base.since), 0)
        /\ Descends(more.page.items, more.page.next, Matching[view][base.filter], cursor)
        /\ Covers(more.page.items, more.page.next, Wanted(base.filter, base.since), cursor)
    BY <1>5 DEF BaseInv, MoreInv
  <2>3. Wanted(base.filter, base.since) \subseteq Rows /\ items \in Seq(Shown) /\ cursor \in Rows
    BY <1>2, <1>5 DEF Wanted, ListTypes
  <2>4. /\ Descends(items \o more.page.items, more.page.next, Matching[view][base.filter], 0)
        /\ Covers(items \o more.page.items, more.page.next, Wanted(base.filter, base.since), 0)
    BY <1>3, <2>2, <2>3, PagesJoin
  <2>5. Wanted(base.filter, base.since)' = Wanted(base.filter, base.since)
    BY DEF Wanted, Fits, database
  <2> QED BY <2>4, <2>5
<1>7. MoreInv'
  BY DEF MoreInv
<1>8. FirstsInv'
  BY <1>1, FirstsStay DEF FirstsInv
<1>9. ScreenInv'
  <2>1. TooShort(filter)' /\ ~mixed' => FALSE
    BY <1>5 DEF ScreenInv, TooShort
  <2> QED BY <2>1 DEF ScreenInv, TooShort
<1> QED BY <1>4, <1>6, <1>7, <1>8, <1>9

\* A mark changes no row's place.
LEMMA MarkAnsweredKeeps ==
  ASSUME ListInv, MarkAnswered
  PROVE  ListInv'
<1> USE DEF ListInv, MarkAnswered, past
<1>1. Grows
  BY NoChange
<1>2. marking \in [row : Rows, done : BOOLEAN] /\ items \in Seq(Shown)
  BY DEF ListTypes
<1>3. Len(items) \in Nat /\ items \in [1..Len(items) -> Shown] /\ DOMAIN items = 1..Len(items)
  BY <1>2, LenProperties
<1>4. /\ items' \in [1..Len(items) -> Shown] /\ DOMAIN items' = DOMAIN items
      /\ \A i \in DOMAIN items : items'[i].row = items[i].row
  <2>1. [row |-> marking.row, read |-> TRUE] \in Shown
    BY <1>2 DEF Shown
  <2>2. ASSUME NEW i \in DOMAIN items PROVE items'[i] \in Shown /\ items'[i].row = items[i].row
    BY <1>3, <2>1, <2>2
  <2> QED BY <1>3, <2>2
<1>5. items' \in Seq(Shown)
  BY <1>3, <1>4, SeqDef
<1>6. RowsOf(items') = RowsOf(items)
  BY <1>4 DEF RowsOf
<1>7. ListTypes'
  BY <1>1, <1>5 DEF ListTypes, database
<1>8. BaseInv'
  <2>1. base'.epoch <= epoch' /\ base'.since \subseteq visible'
    BY DEF BaseInv, database
  <2> SUFFICES ASSUME ~mixed'
               PROVE  /\ Descends(items', cursor', Matching[view'][base'.filter], 0)
                      /\ Covers(items', cursor', Wanted(base.filter, base.since)', 0)
    BY <2>1 DEF BaseInv
  <2>2. /\ Descends(items, cursor, Matching[view][base.filter], 0)
        /\ Covers(items, cursor, Wanted(base.filter, base.since), 0)
    BY DEF BaseInv
  <2>3. Wanted(base.filter, base.since)' = Wanted(base.filter, base.since)
    BY DEF Wanted, Fits, database
  <2>4. Descends(items', cursor, Matching[view][base.filter], 0)
    BY <1>4, <1>6, <2>2 DEF Descends
  <2>5. Covers(items', cursor, Wanted(base.filter, base.since), 0)
    BY <1>6, <2>2 DEF Covers
  <2> QED BY <2>3, <2>4, <2>5
<1>9. MoreInv'
  BY <1>1, MoreStays DEF ListTypes
<1>10. FirstsInv'
  BY <1>1, FirstsStay DEF FirstsInv
<1>11. ScreenInv'
  <2>1. items = <<>> => items' = <<>>
    <3> SUFFICES ASSUME items = <<>> PROVE items' = <<>>
      OBVIOUS
    <3>1. Len(items') = 0
      <4>1. DOMAIN items' = {} /\ Len(items') \in Nat /\ DOMAIN items' = 1..Len(items')
        BY <1>4, <1>5, LenProperties
      <4>2. 1 \notin 1..Len(items')
        BY <4>1
      <4> QED BY <4>1, <4>2
    <3> QED BY <1>5, <3>1, EmptySeq
  <2> QED BY <2>1 DEF ScreenInv, TooShort
<1> QED BY <1>7, <1>8, <1>9, <1>10, <1>11
-------------------------------------------------------------------------------
\* A load asked for is the newest, and the page knows of none newer.
LEMMA AskKeeps ==
  ASSUME ListInv, NEW f \in Filters, Ask(f), UNCHANGED <<view, database, items, cursor, more, marking, base, mixed>>,
         filter' = f, ~TooShort(f)
  PROVE  ListInv'
<1> USE DEF ListInv
<1>1. Grows
  BY NoChange
<1> DEFINE new == [n |-> epoch + 1, filter |-> f, page |-> None, since |-> {}]
<1>2. /\ epoch \in Nat /\ epoch' = epoch + 1 /\ busy' = TRUE /\ lost' = FALSE
      /\ \A load \in firsts' : load \in firsts \/ load = new
  BY DEF Ask, ListTypes
<1>3. /\ new \in [n : Nat, filter : Filters, page : Pages \cup {None}, since : SUBSET Rows]
      /\ new.n = epoch' /\ new.page = None /\ new.since = {} /\ new.filter = f
  BY <1>2
<1> HIDE DEF new
<1>4. ListTypes'
  BY <1>1, <1>2, <1>3 DEF ListTypes, database
<1>5. BaseInv'
  BY <1>1, <1>2, BaseStays DEF ListTypes, BaseInv
<1>6. MoreInv'
  BY <1>1, <1>2, MoreStays DEF ListTypes
<1>7. FirstsInv'
  <2>1. \A load \in firsts : load.n <= epoch /\ load.n \in Nat /\ load.n < epoch'
    BY <1>2 DEF FirstsInv, ListTypes
  <2>2. base'.epoch < epoch' /\ (more' # None => more'.epoch < epoch')
    BY <1>2 DEF BaseInv, MoreInv, ListTypes
  <2>3. \A a, b \in firsts' : a.n = b.n => a = b
    BY <1>2, <1>3, <2>1 DEF FirstsInv
  <2>4. ASSUME NEW l \in firsts'
        PROVE  /\ l.n <= epoch' /\ l.since \subseteq visible'
               /\ l.page # None =>
                    /\ Descends(l.page.items, l.page.next, Matching[view'][l.filter], 0)
                    /\ Covers(l.page.items, l.page.next, Wanted(l.filter, l.since)', 0)
               /\ l.n = epoch' => l.filter = filter'
    <3>1. CASE l \in firsts
      BY <1>1, <1>2, <2>1, <3>1, FirstsStay
    <3>2. CASE l = new
      BY <1>2, <1>3, <3>2
    <3> QED BY <1>2, <3>1, <3>2
  <2> QED BY <2>2, <2>3, <2>4 DEF FirstsInv
<1>8. ScreenInv'
  BY <1>2 DEF ScreenInv, TooShort
<1> QED BY <1>4, <1>5, <1>6, <1>7, <1>8

LEMMA ReloadKeeps ==
  ASSUME ListInv, Reload
  PROVE  ListInv'
<1>1. PICK f \in DOMAIN Matching[view] : filter' = f /\ Ask(f)
  BY DEF Reload
<1>2. f \in Filters /\ ~TooShort(f)
  BY DEF ListInv, ListTypes, Filters, Reload, TooShort
<1> QED BY <1>1, <1>2, AskKeeps DEF Reload

LEMMA SearchKeeps ==
  ASSUME ListInv, Search
  PROVE  ListInv'
<1>1. filter \in Filters /\ ~TooShort(filter) /\ filter' = filter
  BY DEF ListInv, ListTypes, Search, ScreenInv
<1> QED BY <1>1, AskKeeps DEF Search

\* An empty list lacks nothing, and no further page goes on from it.
LEMMA ClearedBase ==
  ASSUME ListInv, Clear, view' = view, epoch' = epoch
  PROVE  BaseInv' /\ base' \in [epoch : Nat, filter : Filters, since : SUBSET Rows] /\ items' \in Seq(Shown)
<1>1. /\ items' = <<>> /\ cursor' = 0 /\ mixed' = FALSE
      /\ base' = [epoch |-> 0, filter |-> "all", since |-> {}]
  BY DEF Clear
<1>2. RowsOf(items') = {} /\ DOMAIN items' = {}
  BY <1>1 DEF RowsOf
<1>3. "all" \in Filters
  BY ViewAssumption DEF Filters, ListInv, ListTypes
<1>4. Wanted(base.filter, base.since)' = {}
  BY <1>1 DEF Wanted
<1>5. Descends(items', cursor', Matching[view'][base'.filter], 0) /\ Covers(items', cursor', {}, 0)
  BY <1>2 DEF Descends, Covers
<1>6. items' \in Seq(Shown) /\ base' \in [epoch : Nat, filter : Filters, since : SUBSET Rows]
  BY <1>1, <1>3
<1>7. base'.epoch <= epoch' /\ base'.since \subseteq visible'
  BY <1>1 DEF ListInv, ListTypes
<1> HIDE DEF Wanted
<1> QED BY <1>4, <1>5, <1>6, <1>7 DEF BaseInv

\* A further page under way at a Clear was asked for with a query, or with none
\* and then comes back empty and not whole.
LEMMA ClearedMore ==
  ASSUME ListInv, Clear, view' = view, view = "people", epoch' = epoch, more' = more
  PROVE  MoreInv'
<1> SUFFICES ASSUME more # None PROVE MoreInv'
  BY DEF MoreInv
<1>1. base'.filter = "all" /\ base'.since = {}
  BY DEF Clear
<1>2. more.filter = base'.filter => TooShort(more.filter) /\ TooShort(more.filter)'
  BY <1>1 DEF TooShort
<1>3. Wanted(more.filter, base.since)' = {}
  BY <1>1 DEF Wanted
<1>4. Covers(more.page.items, more.page.next, {}, more.cursor)
  BY DEF Covers
<1> QED BY <1>1, <1>2, <1>3, <1>4 DEF MoreInv, ListInv, TooShort

LEMMA TypeKeeps ==
  ASSUME ListInv, Type
  PROVE  ListInv'
<1>1. Grows
  BY NoChange DEF Type, ListInv
<1>2. PICK f \in DOMAIN Matching[view] \ {filter}, cut \in BOOLEAN :
        /\ filter' = f
        /\ typing' = (f # "all")
        /\ IF f = "all" \/ cut THEN Clear ELSE UNCHANGED <<items, cursor, base, mixed>>
  BY DEF Type
<1>3. /\ view = "people" /\ firsts' = {}
      /\ UNCHANGED <<view, database, busy, epoch, more, marking, lost>>
  BY DEF Type
<1>4. filter' \in Filters
  BY <1>2 DEF Filters, ListInv, ListTypes
<1>5. CASE f = "all" \/ cut
  <2>1. Clear
    BY <1>2, <1>5
  <2>2. BaseInv' /\ base' \in [epoch : Nat, filter : Filters, since : SUBSET Rows] /\ items' \in Seq(Shown)
    BY <1>3, <2>1, ClearedBase
  <2>3. MoreInv'
    BY <1>3, <2>1, ClearedMore
  <2>4. items' = <<>> /\ cursor' = 0 /\ base'.filter = "all"
    BY <2>1 DEF Clear
  <2>5. ListTypes'
    BY <1>1, <1>3, <1>4, <2>2, <2>4 DEF ListInv, ListTypes, database
  <2>6. FirstsInv' /\ ScreenInv'
    BY <1>2, <1>3, <2>4 DEF FirstsInv, ScreenInv, TooShort
  <2> QED BY <2>2, <2>3, <2>5, <2>6 DEF ListInv
<1>6. CASE ~ (f = "all" \/ cut)
  <2>1. UNCHANGED <<items, cursor, base, mixed>>
    BY <1>2, <1>6
  <2>2. ListTypes'
    BY <1>1, <1>3, <1>4, <2>1 DEF ListInv, ListTypes, database
  <2>3. BaseInv'
    BY <1>1, <1>3, <2>1, BaseStays DEF ListInv, ListTypes
  <2>4. MoreInv'
    BY <1>1, <1>3, <2>1, MoreStays DEF ListInv, ListTypes
  <2>5. FirstsInv' /\ ScreenInv'
    BY <1>2, <1>3, <1>6 DEF FirstsInv, ScreenInv, TooShort
  <2> QED BY <2>2, <2>3, <2>4, <2>5 DEF ListInv
<1> QED BY <1>5, <1>6

\* The other loads, once one has arrived or failed.
LEMMA OthersWait ==
  ASSUME ListInv, NEW load \in firsts, firsts' = firsts \ {load},
         UNCHANGED <<view, database, filter, epoch, more>>,
         load.n = epoch \/ base' = base
  PROVE  FirstsInv'
<1>1. \A l \in firsts' : l \in firsts /\ (l.n = epoch => load.n # epoch)
  BY DEF ListInv, FirstsInv
<1>2. Grows
  BY NoChange DEF ListInv
<1> QED BY <1>1, <1>2, FirstsStay DEF FirstsInv, ListInv

LEMMA FirstArrivesKeeps ==
  ASSUME ListInv, FirstArrives
  PROVE  ListInv'
<1>1. PICK load \in firsts :
    /\ load.page # None
    /\ firsts' = firsts \ {load}
    /\ IF Newest(load)
       THEN /\ items' = load.page.items
            /\ cursor' = load.page.next
            /\ busy' = FALSE
            /\ base' = [epoch |-> load.n, filter |-> load.filter, since |-> load.since]
            /\ mixed' = FALSE
       ELSE UNCHANGED <<items, cursor, busy, base, mixed>>
    /\ UNCHANGED <<view, database, filter, typing, epoch, more, marking, lost>>
  BY DEF FirstArrives
<1>2. Grows
  BY <1>1, NoChange DEF ListInv
<1>3. load \in [n : Nat, filter : Filters, page : Pages \cup {None}, since : SUBSET Rows] /\ load.page \in Pages
  BY <1>1 DEF ListInv, ListTypes
<1>4. ~TooShort(filter)
  BY DEF ListInv, ScreenInv
<1>5. CASE load.n = epoch
  <2>1. /\ items' = load.page.items /\ cursor' = load.page.next /\ busy' = FALSE /\ mixed' = FALSE
        /\ base' = [epoch |-> load.n, filter |-> load.filter, since |-> load.since]
    BY <1>1, <1>5 DEF Newest
  <2>2. /\ base'.epoch = epoch' /\ base'.filter = load.filter /\ base'.since = load.since
        /\ base' \in [epoch : Nat, filter : Filters, since : SUBSET Rows]
    BY <1>1, <1>3, <1>5, <2>1
  <2>3. ListTypes'
    BY <1>1, <1>2, <1>3, <2>1, <2>2 DEF ListInv, ListTypes, Pages, database
  <2>4. BaseInv'
    <3>1. /\ load.since \subseteq visible'
          /\ Descends(load.page.items, load.page.next, Matching[view'][load.filter], 0)
          /\ Covers(load.page.items, load.page.next, Wanted(load.filter, load.since)', 0)
      BY <1>1, <1>2, FirstsStay DEF ListInv
    <3>2. Wanted(base.filter, base.since)' = Wanted(load.filter, load.since)'
      BY <2>2 DEF Wanted, Fits
    <3>3. base'.epoch <= epoch'
      BY <1>1, <2>2 DEF ListInv, ListTypes
    <3> HIDE DEF Wanted
    <3> QED BY <2>1, <2>2, <3>1, <3>2, <3>3 DEF BaseInv
  <2>5. MoreInv'
    <3>1. more' # None => more'.epoch < epoch' /\ more'.epoch # base'.epoch
      BY <1>1, <1>5, <2>2 DEF ListInv, FirstsInv, ListTypes
    <3> QED BY <1>1, <3>1 DEF ListInv, MoreInv, TooShort
  <2>6. FirstsInv'
    BY <1>1, <1>5, OthersWait
  <2>7. ScreenInv'
    BY <1>1, <1>4, <1>5, <2>2 DEF ListInv, ScreenInv, FirstsInv, TooShort
  <2> QED BY <2>3, <2>4, <2>5, <2>6, <2>7 DEF ListInv
<1>6. CASE load.n # epoch
  <2>1. UNCHANGED <<items, cursor, busy, base, mixed>>
    BY <1>1, <1>6 DEF Newest
  <2>2. ListTypes'
    BY <1>1, <1>2, <2>1 DEF ListInv, ListTypes, database
  <2>3. BaseInv'
    BY <1>1, <1>2, <2>1, BaseStays DEF ListInv, ListTypes
  <2>4. MoreInv'
    BY <1>1, <1>2, <2>1, MoreStays DEF ListInv, ListTypes
  <2>5. FirstsInv'
    BY <1>1, <2>1, OthersWait
  <2>6. ScreenInv'
    BY <1>1, <1>4, <2>1 DEF ListInv, ScreenInv, TooShort
  <2> QED BY <2>2, <2>3, <2>4, <2>5, <2>6 DEF ListInv
<1> QED BY <1>5, <1>6

LEMMA FirstFailsKeeps ==
  ASSUME ListInv, FirstFails
  PROVE  ListInv'
<1>1. PICK load \in firsts :
    /\ firsts' = firsts \ {load}
    /\ IF Newest(load)
       THEN /\ busy' = FALSE
            /\ lost' = TRUE
            /\ IF view = "people" THEN Clear ELSE UNCHANGED <<items, cursor, base, mixed>>
       ELSE UNCHANGED <<busy, items, cursor, past>>
    /\ UNCHANGED <<view, database, filter, typing, epoch, more, marking>>
  BY DEF FirstFails
<1>2. Grows
  BY <1>1, NoChange DEF ListInv
<1>3. ~TooShort(filter)
  BY DEF ListInv, ScreenInv
<1>4. CASE Newest(load) /\ view = "people"
  <2>1. Clear /\ lost' = TRUE
    BY <1>1, <1>4
  <2>2. BaseInv' /\ base' \in [epoch : Nat, filter : Filters, since : SUBSET Rows] /\ items' \in Seq(Shown)
    BY <1>1, <2>1, ClearedBase
  <2>3. MoreInv'
    BY <1>1, <1>4, <2>1, ClearedMore
  <2>4. cursor' = 0
    BY <2>1 DEF Clear
  <2>5. ListTypes'
    BY <1>1, <1>2, <2>2, <2>4 DEF ListInv, ListTypes, database
  <2>6. FirstsInv'
    BY <1>1, <1>4, OthersWait DEF Newest
  <2>7. ScreenInv'
    BY <1>1, <1>3, <2>1 DEF ScreenInv, TooShort
  <2> QED BY <2>2, <2>3, <2>5, <2>6, <2>7 DEF ListInv
<1>5. CASE ~ (Newest(load) /\ view = "people")
  <2>1. UNCHANGED <<items, cursor, base, mixed>> /\ (lost' = TRUE \/ UNCHANGED <<busy, lost>>)
    BY <1>1, <1>5 DEF past
  <2>2. ListTypes'
    BY <1>1, <1>2, <2>1 DEF ListInv, ListTypes, database
  <2>3. BaseInv'
    BY <1>1, <1>2, <2>1, BaseStays DEF ListInv, ListTypes
  <2>4. MoreInv'
    BY <1>1, <1>2, <2>1, MoreStays DEF ListInv, ListTypes
  <2>5. FirstsInv'
    BY <1>1, <2>1, OthersWait
  <2>6. ScreenInv'
    BY <1>1, <1>3, <2>1 DEF ListInv, ScreenInv, TooShort
  <2> QED BY <2>2, <2>3, <2>4, <2>5, <2>6 DEF ListInv
<1> QED BY <1>4, <1>5
-------------------------------------------------------------------------------
LEMMA ListStarts ==
  ASSUME ListInit
  PROVE  ListInv
<1>1. "all" \in Filters
  BY ViewAssumption DEF Filters, Views
<1>2. items \in Seq(Shown) /\ RowsOf(items) = {} /\ DOMAIN items = {}
  BY DEF ListInit, RowsOf
<1>3. firsts \in SUBSET {[n |-> 1, filter |-> filter, page |-> None, since |-> {}]} /\ filter = "all"
      /\ (view = "people" => firsts = {})
  BY DEF ListInit
<1>4. firsts \in SUBSET [n : Nat, filter : Filters, page : Pages \cup {None}, since : SUBSET Rows]
      /\ \A load \in firsts : load.n = 1 /\ load.filter = filter /\ load.page = None /\ load.since = {}
  BY <1>1, <1>3
<1>5. /\ base \in [epoch : Nat, filter : Filters, since : SUBSET Rows]
      /\ base.epoch = 0 /\ base.filter = "all" /\ base.since = {}
  BY <1>1 DEF ListInit
<1>6. ListTypes
  BY <1>1, <1>2, <1>4, <1>5 DEF ListInit, ListTypes
<1>7. FirstsInv
  <2>1. \A load1, load2 \in firsts : load1 = load2
    BY <1>3
  <2>2. epoch = 1 /\ more = None
    BY DEF ListInit
  <2> QED BY <1>4, <1>5, <2>1, <2>2 DEF FirstsInv
<1>8. BaseInv
  <2>1. Wanted(base.filter, base.since) = {}
    BY <1>5 DEF Wanted
  <2>2. Descends(items, cursor, Matching[view][base.filter], 0) /\ Covers(items, cursor, {}, 0)
    BY <1>2 DEF Descends, Covers
  <2>3. epoch = 1 /\ base.epoch <= epoch /\ base.since \subseteq visible
    BY <1>5 DEF ListInit
  <2> QED BY <2>1, <2>2, <2>3 DEF BaseInv
<1>9. MoreInv /\ ScreenInv
  BY <1>3, <1>5 DEF ListInit, MoreInv, ScreenInv, TooShort
<1> QED BY <1>6, <1>7, <1>8, <1>9 DEF ListInv

LEMMA ServerKeeps ==
  ASSUME ListInv, Server
  PROVE  ListInv'
<1>1. UNCHANGED <<view, screen, epoch, past>>
  BY DEF Server
<1>2. CASE ServeMark
  <2>1. marking \in [row : Rows, done : BOOLEAN] /\ marking' \in [row : Rows, done : BOOLEAN]
    BY <1>2 DEF ServeMark, ListInv, ListTypes
  <2>2. Grows
    BY <1>1, <1>2, <2>1 DEF ServeMark, Grows, ListInv, ListTypes
  <2> QED BY <1>1, <1>2, <2>1, <2>2, QuietKeeps DEF ServeMark
<1>3. CASE Change
  <2>1. Grows
    BY <1>1, <1>3 DEF Change, Grows, ListInv, ListTypes
  <2> QED BY <1>1, <1>3, <2>1, QuietKeeps DEF Change, ListInv, ListTypes
<1> QED BY <1>1, <1>2, <1>3, ServeFirstKeeps, ServeMoreKeeps DEF Server

LEMMA ListSteps ==
  ASSUME ListInv, [ListNext]_listVars
  PROVE  ListInv'
<1>1. CASE MoreFails \/ MarkFails \/ UNCHANGED listVars
  <2>1. UNCHANGED <<view, database, screen, epoch, firsts, past>>
    BY <1>1 DEF MoreFails, MarkFails, listVars, awaited
  <2>2. more' \in {more, None} /\ marking' \in {marking, None}
    BY <1>1 DEF MoreFails, MarkFails, listVars, awaited
  <2> QED BY <2>1, <2>2, NoChange, QuietKeeps DEF ListInv, ListTypes
<1>2. CASE MarkRead
  <2>1. PICK i \in DOMAIN items : marking' = [row |-> items[i].row, done |-> FALSE]
    BY <1>2 DEF MarkRead
  <2>2. items[i] \in Shown
    BY ElementOfSeq, LenProperties DEF ListInv, ListTypes
  <2>3. marking' \in [row : Rows, done : BOOLEAN]
    BY <2>1, <2>2 DEF Shown
  <2> QED BY <1>2, <2>3, NoChange, QuietKeeps DEF MarkRead, ListInv
<1> QED
  BY <1>1, <1>2, ReloadKeeps, TypeKeeps, SearchKeeps, FirstArrivesKeeps, FirstFailsKeeps, LoadMoreKeeps,
     MoreArrivesKeeps, MarkAnsweredKeeps, ServerKeeps DEF ListNext

\* What each page shows, or will show when it arrives, is right in every reachable
\* state (the conjuncts of ListInv).
THEOREM ListInvariance == ListSpec => []ListInv
  BY ListStarts, ListSteps, PTL DEF ListSpec

\* Page after page, whatever becomes visible, is read or suspended meanwhile, a
\* list on which no page of another was put is in order, without a row twice, and
\* lacks no row down to its cursor (loadMore and the keyset queries).
THEOREM NoRowIsMissing == ListSpec => []NoRowMissing
<1>1. ListInv => NoRowMissing
  <2> SUFFICES ASSUME ListInv, ~mixed PROVE NoRowMissing
    BY DEF NoRowMissing
  <2>1. /\ Descends(items, cursor, Matching[view][base.filter], 0)
        /\ Covers(items, cursor, Wanted(base.filter, base.since), 0)
        /\ base.since \subseteq Rows /\ cursor \in Rows \cup {0} /\ RowsOf(items) = Listed
    BY DEF ListInv, ListTypes, BaseInv, RowsOf, Listed
  <2>2. Ordered /\ Listed \subseteq Matching[view][base.filter]
    BY <2>1 DEF Descends, Ordered
  <2>3. ASSUME NEW r \in base.since, Fits(base.filter, r), cursor = 0 \/ r >= cursor
        PROVE  r \in Listed
    <3>1. r \in Wanted(base.filter, base.since)
      BY <2>3 DEF Wanted
    <3>2. cursor <= r
      <4>1. r \in Rows /\ cursor \in Rows \cup {0}
        BY <2>1
      <4>2. r \in Nat /\ cursor \in Nat
        BY <4>1, RowsAssumption
      <4> QED BY <2>3, <4>2
    <3> QED BY <2>1, <3>1, <3>2 DEF Covers
  <2> QED BY <2>2, <2>3 DEF NoRowMissing
<1> QED BY <1>1, ListInvariance, PTL

\* A load that was superseded never replaces the list of the newest, and nothing
\* stays beneath a query too short to search with (the abort signals of the pages).
THEOREM NewestLoadWins == ListSpec => []NewestLoadShown
<1>1. ListInv => NewestLoadShown
  BY DEF ListInv, ScreenInv, NewestLoadShown, TooShort, Listed
<1> QED BY <1>1, ListInvariance, PTL
-------------------------------------------------------------------------------
\* One step of an undisturbed reader.
Undisturbing == (LoadMore => filter = base.filter) /\ (base' # base => more = None)

LEMMA ContinuesInit == ListInit => ContinuesInv
  BY DEF ListInit, ContinuesInv

LEMMA ContinuesStep ==
  ASSUME ListInv, ContinuesInv, [ListNext]_listVars, Undisturbing
  PROVE  ContinuesInv'
<1> SUFFICES ASSUME view' # "people" PROVE ContinuesInv'
  BY DEF ContinuesInv
<1>1. view' = view
  BY DEF ListNext, Reload, Type, Search, FirstArrives, FirstFails, LoadMore, MoreArrives, MoreFails,
         MarkRead, MarkAnswered, MarkFails, Server, listVars
<1>2. /\ ~mixed
      /\ more # None => more.epoch = base.epoch /\ more.filter = base.filter /\ more.whole
  BY <1>1 DEF ContinuesInv
<1>3. ASSUME more' = more, mixed' = mixed \/ mixed' = FALSE
      PROVE  ContinuesInv'
  BY <1>2, <1>3 DEF ContinuesInv, Undisturbing
<1>4. CASE Reload \/ MarkRead \/ MarkAnswered \/ MarkFails \/ Search \/ UNCHANGED listVars
  BY <1>3, <1>4 DEF Reload, MarkRead, MarkAnswered, MarkFails, Search, listVars, awaited, past
<1>5. CASE Type
  BY <1>1, <1>5 DEF Type
<1>6. CASE FirstArrives \/ FirstFails
  BY <1>3, <1>6 DEF FirstArrives, FirstFails, Clear, past
<1>7. CASE LoadMore
  <2>1. more' = [filter |-> filter, cursor |-> cursor, epoch |-> base.epoch, page |-> None, whole |-> TRUE]
        /\ base' = base /\ mixed' = mixed /\ filter = base.filter
    BY <1>7 DEF LoadMore, past, Undisturbing
  <2>2. more'.epoch = base'.epoch /\ more'.filter = base'.filter /\ more'.whole
    BY <2>1
  <2> QED BY <1>2, <2>1, <2>2 DEF ContinuesInv
<1>8. CASE MoreArrives
  <2>1. more' = None /\ ~mixed'
    BY <1>2, <1>8 DEF MoreArrives
  <2> QED BY <2>1 DEF ContinuesInv
<1>9. CASE MoreFails
  BY <1>2, <1>9 DEF MoreFails, past, ContinuesInv
<1>10. CASE Server
  <2>1. base' = base /\ mixed' = mixed
    BY <1>10 DEF Server, past
  <2>2. CASE ServeFirst \/ ServeMark \/ Change
    BY <1>3, <2>1, <2>2 DEF ServeFirst, ServeMark, Change
  <2>3. CASE ServeMore
    <3>1. Continues(more.filter, more.cursor)
      BY <1>1 DEF Continues
    <3>2. more # None /\ more' = [more EXCEPT !.page = Page(more.filter, more.cursor), !.whole = Continues(more.filter, more.cursor)]
      BY <2>3 DEF ServeMore
    <3>3. more'.epoch = more.epoch /\ more'.filter = more.filter /\ more'.whole
      BY <3>1, <3>2 DEF ListInv, ListTypes
    <3> QED BY <1>2, <2>1, <3>2, <3>3 DEF ContinuesInv
  <2> QED BY <1>10, <2>2, <2>3 DEF Server
<1> QED BY <1>4, <1>5, <1>6, <1>7, <1>8, <1>9, <1>10 DEF ListNext

\* Where the reader asks for more only of the list on the screen and leaves it in
\* place until the answer is in, no page lands beneath a list it does not
\* continue: that loadMore does not check its answer is the one cause (the activity
\* feed and the notifications page; a search can besides lose its cursor).
THEOREM PatientReadersSeeOneList == ListSpec /\ Undisturbed => []ListIsOne
<1>1. ListInv /\ ContinuesInv /\ [ListNext]_listVars /\ [Undisturbing]_listVars => ContinuesInv'
  <2>1. CASE UNCHANGED listVars
    BY <2>1 DEF ContinuesInv, listVars, awaited, past
  <2> QED BY <2>1, ContinuesStep
<1>2. ContinuesInv => ListIsOne
  BY DEF ContinuesInv, ListIsOne
<1>3. Undisturbed => [][Undisturbing]_listVars
  BY PTL DEF Undisturbed, Undisturbing
<1> QED BY <1>1, <1>2, <1>3, ContinuesInit, ListInvariance, PTL DEF ListSpec
===============================================================================
