----------------------------- MODULE RequestsPage -----------------------------
(***************************************************************************)
(* The web client's requests page (app/(app)/requests/page.tsx and its     *)
(* MoneyRequestList) in front of the API's money requests.  The page has   *)
(* one compose form, one decision in flight at a time, and a list it loads *)
(* with two requests, again after everything it was told went through.     *)
(* The network may lose a request or its answer, or deliver it after the   *)
(* browser gave up on it.                                                  *)
(*                                                                         *)
(* A key is named by the number of the first request that carried it, and  *)
(* a money request of the user by the key it was created under.  A button  *)
(* mints a key for each click, used by that one request: it is left out.   *)
(***************************************************************************)
EXTENDS Integers, Sequences

CONSTANTS
  Inputs,      \* what each field of the form can be given
  Incoming,     \* requests of others to the user
  Nothing,      \* an empty field, and no key or awaited request
  MaxEdits,     \* bounds of an exploration: edits of the form,
  MaxPosts,     \* state-changing requests,
  MaxLoads      \* and loads of the list

Fields == {"payer", "amount", "note"}
Keys == 1..MaxPosts
MoneyRequests == Incoming \cup Keys
Values == {Nothing} \cup UNION {Inputs[field] : field \in Fields}
Forms == [Fields -> Values]
Blank == [field \in Fields |-> Nothing]

Result == [accept |-> "ACCEPTED", decline |-> "DECLINED", cancel |-> "CANCELLED"]
Actions == DOMAIN Result

ASSUME FormAssumption == \A field \in Fields : Nothing \notin Inputs[field]
ASSUME NamesAssumption ==
  /\ Nothing \notin Keys \cup Forms
  /\ Incoming \cap Keys = {}
ASSUME RequestBounds == MaxEdits \in Nat /\ MaxPosts \in Nat /\ MaxLoads \in Nat

VARIABLES
  \* The page
  composing, form,
  key,          \* idempotencyKeyRef
  creating,     \* the creation awaited: isSubmitting
  acting,       \* the decision awaited: pendingAction
  token,        \* reloadToken, counted on over mounts
  loading, listError,
  shown,        \* the status each listed request is shown with
  \* The network
  posts,        \* the state-changing requests sent
  travelling,   \* those the API has not handled (and may never see)
  confirmed,    \* those it answered with success
  loads,        \* the loads awaited: what their two requests were answered
  \* The API
  made,         \* the body each key created a money request with
  status,
  late,         \* requests whose deadline has passed
  \* History
  edits,
  told          \* the posts the page was told went through

composer == <<composing, form, key, creating>>
lists == <<token, loading, listError, shown, loads>>
wire == <<posts, travelling, confirmed>>
api == <<made, status, late>>
history == <<edits, told>>
requestsVars == <<composer, acting, lists, wire, api, history>>
-------------------------------------------------------------------------------
NewLoad(n) == [n |-> n, incoming |-> Nothing, outgoing |-> Nothing]
Answered(load) == load.incoming # Nothing /\ load.outgoing # Nothing

\* The effect on reloadToken.  It aborts the load before, whose requests are
\* rejected unless both answers are already in.
StartLoad ==
  /\ token < MaxLoads
  /\ token' = token + 1
  /\ loads' = {load \in loads : Answered(load)} \cup {NewLoad(token + 1)}
  /\ loading' = TRUE
  /\ listError' = FALSE

\* resetComposeForm
ResetForm == form' = Blank /\ key' = Nothing

KeptForTheNote(field) == IF field = "note" THEN key ELSE Nothing   \* not: a new note is a new intent
KeyAfter(field) == Nothing

\* The fields' handlers: disabled while a creation is awaited.
Edit ==
  /\ composing /\ creating = Nothing
  /\ edits < MaxEdits
  /\ \E field \in Fields :
       /\ \E value \in Inputs[field] \cup {Nothing} : form' = [form EXCEPT ![field] = value]
       /\ key' = KeyAfter(field)
  /\ edits' = edits + 1
  /\ UNCHANGED <<composing, creating, acting, lists, wire, api, told>>

\* New request, and Cancel, which stays enabled while a creation is awaited.
ToggleCompose ==
  /\ composing' = ~composing
  /\ IF composing THEN ResetForm ELSE UNCHANGED <<form, key>>
  /\ UNCHANGED <<creating, acting, lists, wire, api, history>>

Post(what) ==
  /\ Len(posts) < MaxPosts
  /\ posts' = Append(posts, what)
  /\ travelling' = travelling \cup {Len(posts) + 1}
  /\ UNCHANGED confirmed

Complete == form["payer"] # Nothing /\ form["amount"] # Nothing
FreshKey == Len(posts) + 1   \* not: a key for each attempt
KeyToPost == IF key = Nothing THEN Len(posts) + 1 ELSE key

\* handleCreate past its checks, up to its await.
Submit ==
  /\ composing /\ creating = Nothing
  /\ Complete
  /\ Post([what |-> "create", key |-> KeyToPost, body |-> form, edits |-> edits])
  /\ key' = KeyToPost
  /\ creating' = Len(posts) + 1
  /\ UNCHANGED <<composing, form, acting, lists, api, history>>

CreateAnswered ==
  /\ creating \in confirmed
  /\ composing' = FALSE
  /\ ResetForm
  /\ StartLoad
  /\ creating' = Nothing
  /\ told' = told \cup {creating}
  /\ UNCHANGED <<acting, shown, wire, api, edits>>

\* An error, an unreadable answer or none: a message, and the same form and key.
CreateFails ==
  /\ creating # Nothing
  /\ creating' = Nothing
  /\ UNCHANGED <<composing, form, key, acting, lists, wire, api, history>>

Offered(r) == IF r \in Incoming THEN {"accept", "decline"} ELSE {"cancel"}

\* runAction up to its await: the buttons of a row listed as PENDING, on the tab
\* that lists it.
Click ==
  /\ acting = Nothing /\ ~loading
  /\ \E r \in MoneyRequests :
       /\ shown[r] = "PENDING"
       /\ \E action \in Offered(r) : Post([what |-> action, request |-> r])
  /\ acting' = Len(posts) + 1
  /\ UNCHANGED <<composer, lists, api, history>>

ActAnswered ==
  /\ acting \in confirmed
  /\ StartLoad
  /\ acting' = Nothing
  /\ told' = told \cup {acting}
  /\ UNCHANGED <<composer, shown, wire, api, edits>>

ActFails ==
  /\ acting # Nothing
  /\ acting' = Nothing
  /\ UNCHANGED <<composer, lists, wire, api, history>>

AnyLoad(load) == TRUE   \* not: aborted loads are not told apart
Current(load) == load.n = token

\* Both GETs answered, in time or just before the load was aborted.
LoadArrives ==
  \E load \in loads :
    /\ Answered(load)
    /\ loads' = loads \ {load}
    /\ IF Current(load)
       THEN /\ shown' = [r \in MoneyRequests |->
                  IF r \in Incoming THEN load.incoming[r] ELSE load.outgoing[r]]
            /\ loading' = FALSE
       ELSE UNCHANGED <<shown, loading>>
    /\ UNCHANGED <<composer, acting, token, listError, wire, api, history>>

LoadFails ==
  \E load \in loads :
    /\ loads' = loads \ {load}
    /\ IF Current(load)
       THEN listError' = TRUE /\ loading' = FALSE
       ELSE UNCHANGED <<listError, loading>>
    /\ UNCHANGED <<composer, acting, token, shown, wire, api, history>>

\* Leaving the page and coming back, or a reload of the browser.
Remount ==
  /\ composing' = FALSE /\ ResetForm
  /\ creating' = Nothing /\ acting' = Nothing
  /\ shown' = [r \in MoneyRequests |-> "absent"]
  /\ StartLoad
  /\ UNCHANGED <<wire, api, history>>
-------------------------------------------------------------------------------
Answer(p) ==
  /\ confirmed' = confirmed \cup {p}
  /\ travelling' = travelling \ {p}
  /\ UNCHANGED posts

\* MoneyRequestService.create: its transaction, or the stored result of the key.
Create(p) ==
  /\ posts[p].what = "create"
  /\ \/ /\ made[posts[p].key] = Nothing
        /\ made' = [made EXCEPT ![posts[p].key] = posts[p].body]
        /\ status' = [status EXCEPT ![posts[p].key] = "PENDING"]
     \/ /\ made[posts[p].key] = posts[p].body
        /\ UNCHANGED <<made, status>>
  /\ Answer(p)
  /\ UNCHANGED late

\* accept, decline and cancel of a request that is still PENDING.
Resolve(p) ==
  /\ posts[p].what \in Actions
  /\ status[posts[p].request] = "PENDING"
  /\ posts[p].what = "accept" => posts[p].request \notin late
  /\ status' = [status EXCEPT ![posts[p].request] = Result[posts[p].what]]
  /\ Answer(p)
  /\ UNCHANGED <<made, late>>

\* Any answer without an effect.
Refuse(p) ==
  /\ travelling' = travelling \ {p}
  /\ UNCHANGED <<posts, confirmed, api>>

\* effectiveStatus
Effective(r) == IF status[r] = "PENDING" /\ r \in late THEN "EXPIRED" ELSE status[r]

\* listIncoming and listOutgoing, each for its own GET.
Serve(load) ==
  \/ /\ load.incoming = Nothing
     /\ loads' = (loads \ {load}) \cup
                   {[load EXCEPT !.incoming = [r \in Incoming |-> Effective(r)]]}
  \/ /\ load.outgoing = Nothing
     /\ loads' = (loads \ {load}) \cup
                   {[load EXCEPT !.outgoing = [k \in Keys |-> Effective(k)]]}

Handle ==
  /\ \/ /\ \E p \in travelling : Create(p) \/ Resolve(p) \/ Refuse(p)
        /\ UNCHANGED loads
     \/ /\ \E load \in loads : Serve(load)
        /\ UNCHANGED <<wire, api>>
  /\ UNCHANGED <<composer, acting, token, loading, listError, shown, history>>

\* The other party of a request, and deadlines: the page asks for none, so its
\* own requests have no deadline.
Others ==
  /\ \E r \in MoneyRequests :
       \/ /\ r \in Incoming /\ status[r] = "absent"
          /\ status' = [status EXCEPT ![r] = "PENDING"] /\ UNCHANGED late
       \/ /\ status[r] = "PENDING"
          /\ \E action \in Actions \ Offered(r) : status' = [status EXCEPT ![r] = Result[action]]
          /\ UNCHANGED late
       \/ /\ r \in Incoming /\ status[r] = "PENDING"
          /\ late' = late \cup {r} /\ UNCHANGED status
  /\ UNCHANGED <<composer, acting, lists, wire, made, history>>
-------------------------------------------------------------------------------
RequestsInit ==
  /\ composing = FALSE /\ form = Blank /\ key = Nothing /\ creating = Nothing
  /\ acting = Nothing /\ token = 1
  /\ loading = TRUE /\ listError = FALSE
  /\ shown = [r \in MoneyRequests |-> "absent"]
  /\ posts = <<>> /\ travelling = {} /\ confirmed = {}
  /\ loads = {NewLoad(1)}
  /\ made = [k \in Keys |-> Nothing]
  /\ status = [r \in MoneyRequests |-> "absent"]
  /\ late = {}
  /\ edits = 0 /\ told = {}

RequestsNext ==
  \/ Edit \/ ToggleCompose \/ Submit \/ CreateAnswered \/ CreateFails
  \/ Click \/ ActAnswered \/ ActFails
  \/ LoadArrives \/ LoadFails \/ Remount
  \/ Handle \/ Others

RequestsSpec == RequestsInit /\ [][RequestsNext]_requestsVars
===============================================================================
