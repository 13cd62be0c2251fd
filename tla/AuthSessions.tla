----------------------------- MODULE AuthSessions -----------------------------
(***************************************************************************)
(* Refresh-token sessions (AuthService, AuthSessionRepository): login      *)
(* inserts a session, refresh retires the presented one and inserts its    *)
(* successor, a token presented after its session was revoked sweeps every *)
(* active session of the user, logout revokes one session.  Each handler   *)
(* reads the session first, outside any transaction, and writes later.     *)
(*                                                                         *)
(* A session is named by the call that inserted it, and its refresh token  *)
(* by the session.                                                         *)
(***************************************************************************)
CONSTANTS
  Users,
  Calls,    \* login, refresh and logout calls, each made at most once
  Nobody    \* no session, and a token the table does not know

ASSUME NobodyAssumption == Nobody \notin Calls \cup Users

VARIABLES
  \* auth_sessions
  sessions,   \* rows
  user,       \* user_id of each row
  revoked,    \* rows whose revoked_at is set
  lapsed,     \* rows whose expires_at has passed
  \* Calls
  pc,
  task,       \* what each call was asked to do
  presented,  \* the session whose token it presented
  seen,       \* the active sessions a sweep's UPDATE found
  answer,     \* what the client was told
  \* History
  known,      \* sessions already revoked or lapsed when the call was made
  line,       \* each session's ancestors and itself
  before,     \* the sessions there were when a call's sweep began
  swept       \* each user's last sweep: the sessions there were when it began
              \* and the calls made by the time it ended

rows == <<sessions, user, revoked, lapsed>>
history == <<known, line, before, swept>>
vars == <<rows, pc, task, presented, seen, answer, history>>
-------------------------------------------------------------------------------
SessionId(c) == presented[c]   \* not: the row's id where its user_id belongs

Owner(c) == user[presented[c]]

\* The tokens clients hold: a token in an answer that was lost is nobody's.
HandedOut == {s \in sessions : answer[s] = "issued"}

Submit(c, what, token) ==
  /\ pc[c] = "idle"
  /\ task' = [task EXCEPT ![c] = what]
  /\ presented' = [presented EXCEPT ![c] = token]
  /\ known' = [known EXCEPT ![c] = revoked \cup lapsed]
  /\ pc' = [pc EXCEPT ![c] = IF what = "login" THEN "create" ELSE "find"]
  /\ UNCHANGED <<rows, seen, answer, line, before, swept>>

Step(c, label) ==
  /\ pc' = [pc EXCEPT ![c] = label]
  /\ UNCHANGED answer

Reply(c, a) ==
  /\ pc' = [pc EXCEPT ![c] = "done"]
  /\ answer' = [answer EXCEPT ![c] = a]

\* A committed write whose answer the client receives, or does not.
ReplyOrLose(c, a) == Reply(c, a) \/ Reply(c, "lost")

Insert(c, u, ancestors) ==
  /\ sessions' = sessions \cup {c}
  /\ user' = [user EXCEPT ![c] = u]
  /\ line' = [line EXCEPT ![c] = ancestors \cup {c}]
-------------------------------------------------------------------------------
\* login's checks and createSession.  A failure before the insert, or of it, is
\* a refusal.
Create(c) ==
  /\ pc[c] = "create"
  /\ \/ \E u \in Users : Insert(c, u, {}) /\ ReplyOrLose(c, "issued")
     \/ UNCHANGED <<sessions, user, line>> /\ Reply(c, "refused")
  /\ UNCHANGED <<revoked, lapsed, task, presented, seen, known, before, swept>>

NeverRevoked(c) == FALSE   \* not: a revoked session taken for a live one

Found(c) == presented[c] \in sessions
Reused(c) == presented[c] \in revoked
Expired(c) == presented[c] \in lapsed

\* findByTokenHash, and the branch each handler takes on the row it read.
Find(c) ==
  /\ pc[c] = "find"
  /\ \/ task[c] = "refresh" /\ ~Found(c) /\ Reply(c, "refused")
     \/ task[c] = "refresh" /\ Found(c) /\ Reused(c) /\ Step(c, "sweep")
     \/ task[c] = "refresh" /\ Found(c) /\ ~Reused(c) /\ Expired(c) /\ Reply(c, "refused")
     \/ task[c] = "refresh" /\ Found(c) /\ ~Reused(c) /\ ~Expired(c) /\ Step(c, "rotate")
     \/ task[c] = "logout" /\ Found(c) /\ ~Reused(c) /\ Step(c, "revoke")
     \/ task[c] = "logout" /\ (~Found(c) \/ Reused(c)) /\ Reply(c, "ok")
  /\ UNCHANGED <<rows, task, presented, seen, history>>

KeepOld(c) == UNCHANGED revoked   \* not: a rotation that only adds

Retire(c) == revoked' = revoked \cup {presented[c]}

\* The rotation's transaction: unconditional, whatever happened to the session
\* since it was read.
Rotate(c) ==
  /\ pc[c] = "rotate"
  /\ \/ /\ Retire(c)
        /\ Insert(c, Owner(c), line[presented[c]])
        /\ ReplyOrLose(c, "issued")
     \/ UNCHANGED <<revoked, sessions, user, line>> /\ Reply(c, "refused")
  /\ UNCHANGED <<lapsed, task, presented, seen, known, before, swept>>

OnlyPresented(c) == {presented[c]}   \* not: the replayed session and no other

Active == sessions \ revoked
Targets(c) == {s \in Active : user[s] = Owner(c)}

\* revokeAllActiveForUser: the UPDATE picks its rows when it begins ...
BeginSweep(c) ==
  /\ pc[c] = "sweep"
  /\ seen' = [seen EXCEPT ![c] = Targets(c)]
  /\ before' = [before EXCEPT ![c] = sessions]
  /\ Step(c, "endSweep")
  /\ UNCHANGED <<rows, task, presented, known, line, swept>>

\* ... and has revoked them when it ends.  If it fails, nothing is revoked.
EndSweep(c) ==
  /\ pc[c] = "endSweep"
  /\ \/ /\ revoked' = revoked \cup seen[c]
        /\ swept' = [swept EXCEPT ![Owner(c)] =
             [sessions |-> before[c], calls |-> {d \in Calls : pc[d] # "idle"}]]
     \/ UNCHANGED <<revoked, swept>>
  /\ Reply(c, "refused")
  /\ UNCHANGED <<sessions, user, lapsed, task, presented, seen, known, line, before>>

\* logout's write, unconditional as well.
Revoke(c) ==
  /\ pc[c] = "revoke"
  /\ \/ revoked' = revoked \cup {presented[c]} /\ ReplyOrLose(c, "ok")
     \/ UNCHANGED revoked /\ Reply(c, "refused")
  /\ UNCHANGED <<sessions, user, lapsed, task, presented, seen, history>>

\* Time passes expires_at.
Lapse(s) ==
  /\ s \in sessions \ lapsed
  /\ lapsed' = lapsed \cup {s}
  /\ UNCHANGED <<sessions, user, revoked, pc, task, presented, seen, answer, history>>
-------------------------------------------------------------------------------
NoSweep == [sessions |-> {}, calls |-> {}]

Init ==
  /\ sessions = {} /\ revoked = {} /\ lapsed = {}
  /\ user = [c \in Calls |-> Nobody]
  /\ pc = [c \in Calls |-> "idle"]
  /\ task = [c \in Calls |-> "none"]
  /\ presented = [c \in Calls |-> Nobody]
  /\ seen = [c \in Calls |-> {}]
  /\ answer = [c \in Calls |-> "none"]
  /\ known = [c \in Calls |-> {}]
  /\ line = [c \in Calls |-> {}]
  /\ before = [c \in Calls |-> {}]
  /\ swept = [u \in Users |-> NoSweep]

Next ==
  \/ \E c \in Calls :
       \/ Submit(c, "login", Nobody)
       \/ \E t \in HandedOut \cup {Nobody}, what \in {"refresh", "logout"} : Submit(c, what, t)
       \/ Create(c) \/ Find(c) \/ Rotate(c) \/ BeginSweep(c) \/ EndSweep(c) \/ Revoke(c)
  \/ \E s \in Calls : Lapse(s)

Spec == Init /\ [][Next]_vars
===============================================================================
