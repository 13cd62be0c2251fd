------------------------ MODULE AuthSessionsProperties ------------------------
(***************************************************************************)
(* What refresh-token sessions guarantee when logins, refreshes, logouts   *)
(* and sweeps of one user run at the same time and answers are lost.       *)
(***************************************************************************)
EXTENDS AuthSessions

Labels == {"idle", "create", "find", "sweep", "endSweep", "rotate", "revoke", "done"}
Answers == {"none", "issued", "ok", "refused", "lost"}

\* Every variable has its type; only sessions that exist are revoked, swept or
\* anybody's ancestors.
TypeOK ==
  /\ sessions \subseteq Calls
  /\ user \in [Calls -> Users \cup {Nobody}]
  /\ \A s \in sessions : user[s] \in Users
  /\ revoked \subseteq sessions
  /\ lapsed \subseteq sessions
  /\ pc \in [Calls -> Labels]
  /\ task \in [Calls -> {"none", "login", "refresh", "logout"}]
  /\ presented \in [Calls -> sessions \cup {Nobody}]
  /\ seen \in [Calls -> SUBSET sessions]
  /\ answer \in [Calls -> Answers]
  /\ known \in [Calls -> SUBSET sessions]
  /\ line \in [Calls -> SUBSET sessions]
  /\ before \in [Calls -> SUBSET sessions]
  /\ swept \in [Users -> [sessions : SUBSET sessions, calls : SUBSET Calls]]
-------------------------------------------------------------------------------
\* A call never gets a session for a token that was already revoked (rotated,
\* swept or logged out) or expired when the call was made: after a refresh or a
\* logout is answered its token is spent, whatever else is in flight.
SpentTokenIssuesNothing ==
  \A s \in sessions : task[s] = "refresh" => presented[s] \notin known[s]

\* Rotation leaves no ancestor usable: every session in the line of a session,
\* but the session itself, is revoked.
AncestorsRevoked == \A s \in sessions : line[s] \ {s} \subseteq revoked

\* What survives a sweep has an excuse: an active session descends from (or is)
\* a session that was not there when its user's last sweep began, inserted by a
\* login or by a call made before that sweep was over.
Excused(s) ==
  LET last == swept[user[s]] IN
  last = NoSweep \/ \E a \in line[s] \ last.sessions : task[a] = "login" \/ a \in last.calls
SessionsHaveAnExcuse == \A s \in Active : Excused(s)
-------------------------------------------------------------------------------
(***************************************************************************)
(* The inductive invariant.                                                *)
(***************************************************************************)
\* A call that has looked its session up has found it, and what was spent when
\* it was made is spent.
FoundInv ==
  \A c \in Calls :
    /\ pc[c] \in {"sweep", "endSweep", "rotate", "revoke"} => Found(c)
    /\ pc[c] \in {"rotate", "sweep", "endSweep"} => task[c] = "refresh"
    /\ pc[c] = "create" => task[c] = "login"
    /\ pc[c] = "revoke" => task[c] = "logout"
    /\ known[c] \subseteq revoked \cup lapsed

\* Sessions belong to calls that are done, and contain themselves.
InsertedInv ==
  \A s \in sessions : pc[s] = "done" /\ s \in line[s] /\ task[s] \in {"login", "refresh"}

\* A rotation in flight was made with a token that was good at the time, and
\* whose session was excused then.
RotatingInv ==
  \A c \in Calls, t \in sessions :
    pc[c] = "rotate" /\ presented[c] = t =>
      t \notin known[c] /\ (c \in swept[user[t]].calls \/ Excused(t))

\* What a sweep under way has yet to revoke, it has found.
SweepingInv ==
  \A c \in Calls :
    pc[c] = "endSweep" => \A s \in Active \cap before[c] : user[s] = Owner(c) => s \in seen[c]

IInv ==
  /\ TypeOK /\ FoundInv /\ InsertedInv /\ RotatingInv /\ SweepingInv
  /\ SpentTokenIssuesNothing /\ AncestorsRevoked /\ SessionsHaveAnExcuse
-------------------------------------------------------------------------------
\* auth.service.ts says that a token can be used to refresh at most once.
TokenRefreshesOnce ==
  \A c, d \in sessions :
    task[c] = "refresh" /\ task[d] = "refresh" /\ presented[c] = presented[d] => c = d
\* It holds of clients that let a call with a token end, answered or not, before
\* they make another with the same token.
InFlight(c) == pc[c] \notin {"idle", "done"}
OneCallPerToken ==
  \A c, d \in Calls :
    InFlight(c) /\ InFlight(d) /\ presented[c] = presented[d] /\ presented[c] # Nobody => c = d

\* Then whoever is about to rotate a session is the first to.
FirstToRotateInv ==
  /\ \A s \in sessions : task[s] = "refresh" => presented[s] \in revoked
  /\ \A c \in Calls, s \in sessions :
       pc[c] = "rotate" /\ task[s] = "refresh" => presented[s] # presented[c]
  /\ TokenRefreshesOnce
-------------------------------------------------------------------------------
\* A token that is spent refreshes nothing for a call made from then on, ever.
SpentForGood ==
  \A c, t \in Calls :
    [](t \in revoked /\ pc[c] = "idle"
         => [](c \in sessions /\ task[c] = "refresh" => presented[c] # t))

\* Every session goes back to one login, of its own user, through sessions of
\* that user: no rotation crosses from one user or one login to another.
OneLogin(s) ==
  \E a \in line[s] :
    /\ task[a] = "login"
    /\ \A b \in line[s] : user[b] = user[s] /\ a \in line[b] /\ (task[b] = "login" => b = a)
SessionsGoBackToALogin == \A s \in sessions : OneLogin(s)
===============================================================================
