-------------------------- MODULE AuthSessionsProofs --------------------------
(***************************************************************************)
(* The inductive invariant of AuthSessions and what follows from it, for   *)
(* any number of users and calls.                                          *)
(***************************************************************************)
EXTENDS AuthSessionsProperties, TLAPS

\* Initially there are no sessions and every call is idle.
LEMMA InitInvariant == Init => IInv
  BY NobodyAssumption DEF Init, IInv, TypeOK, Labels, Answers, NoSweep, FoundInv, InsertedInv,
     RotatingInv, SweepingInv, SpentTokenIssuesNothing, AncestorsRevoked, SessionsHaveAnExcuse, Active

\* A session keeps its excuse in every step but the end of a sweep.
LEMMA ExcuseKept ==
  ASSUME TypeOK, NEW s \in sessions, Excused(s),
         user'[s] = user[s], line'[s] = line[s], swept' = swept,
         \A a \in sessions : task'[a] = task[a]
  PROVE  Excused(s)'
<1> DEFINE last == swept[user[s]]
<1>1. CASE last = NoSweep
  BY <1>1 DEF Excused, NoSweep
<1>2. CASE last # NoSweep
  <2>1. PICK a \in line[s] \ last.sessions : task[a] = "login" \/ a \in last.calls
    BY <1>2 DEF Excused
  <2>2. a \in sessions
    BY <2>1 DEF TypeOK
  <2> QED BY <2>1, <2>2 DEF Excused
<1> QED BY <1>1, <1>2

\* A call is made: only what concerns that call changes, and it was idle.
LEMMA SubmitKeeps ==
  ASSUME IInv, NEW c \in Calls, NEW what \in {"login", "refresh", "logout"},
         NEW token \in sessions \cup {Nobody}, Submit(c, what, token)
  PROVE  IInv'
<1> USE DEF IInv
<1>0. pc[c] = "idle" /\ c \notin sessions
  BY DEF Submit, InsertedInv
<1>1. TypeOK'
  BY DEF TypeOK, Labels, Submit, rows
<1>2. FoundInv'
  BY <1>0 DEF FoundInv, Found, Submit, rows, TypeOK
<1>3. InsertedInv'
  BY <1>0 DEF InsertedInv, Submit, rows, TypeOK
<1>4. \A s \in sessions : Excused(s) => Excused(s)'
  BY <1>0, ExcuseKept DEF Submit, rows, TypeOK
<1>5. RotatingInv'
  BY <1>0, <1>4 DEF RotatingInv, Submit, rows, TypeOK
<1>6. SweepingInv'
  BY <1>0 DEF SweepingInv, Active, Owner, Submit, rows, TypeOK
<1>7. SpentTokenIssuesNothing'
  BY <1>0 DEF SpentTokenIssuesNothing, Submit, rows, TypeOK
<1>8. AncestorsRevoked'
  BY DEF AncestorsRevoked, Submit, rows
<1>9. SessionsHaveAnExcuse'
  BY <1>4 DEF SessionsHaveAnExcuse, Active, Submit, rows
<1> QED BY <1>1, <1>2, <1>3, <1>5, <1>6, <1>7, <1>8, <1>9

\* A call looks its session up: it rotates only a session that is active, and so
\* excused, and not expired.
LEMMA FindKeeps == ASSUME IInv, NEW c \in Calls, Find(c) PROVE IInv'
<1> USE DEF IInv
<1>0. /\ pc[c] = "find" /\ c \notin sessions
      /\ UNCHANGED <<sessions, user, revoked, lapsed, task, presented, seen, known, line, before,
                     swept>>
      /\ pc' \in [Calls -> Labels] /\ \A d \in Calls \ {c} : pc'[d] = pc[d]
  BY DEF Find, InsertedInv, rows, history, Step, Reply, TypeOK, Labels
<1>1. TypeOK'
  BY <1>0 DEF TypeOK, Find, Step, Reply, Answers
<1>2. FoundInv'
  BY <1>0 DEF FoundInv, Found, Find, Step, Reply, TypeOK
<1>3. InsertedInv'
  BY <1>0 DEF InsertedInv, TypeOK
<1>4. \A s \in sessions : Excused(s) => Excused(s)'
  BY <1>0, ExcuseKept
<1>5. ASSUME NEW d \in Calls, NEW t \in sessions, pc'[d] = "rotate", presented[d] = t
      PROVE  t \notin known[d] /\ (d \in swept[user[t]].calls \/ Excused(t))
  <2>1. CASE d # c
    BY <1>0, <1>5, <2>1 DEF RotatingInv
  <2>2. CASE d = c
    <3>1. t \in Active /\ t \notin lapsed
      BY <1>0, <1>5, <2>2 DEF Find, Step, Reply, Found, Reused, Expired, Active, TypeOK
    <3> QED BY <1>0, <2>2, <3>1 DEF FoundInv, SessionsHaveAnExcuse, Active
  <2> QED BY <2>1, <2>2
<1>6. RotatingInv'
  BY <1>0, <1>4, <1>5 DEF RotatingInv
<1>7. SweepingInv'
  BY <1>0 DEF SweepingInv, Active, Owner, Find, Step, Reply, TypeOK
<1>8. SpentTokenIssuesNothing'
  BY <1>0 DEF SpentTokenIssuesNothing
<1>9. AncestorsRevoked'
  BY <1>0 DEF AncestorsRevoked
<1>10. SessionsHaveAnExcuse'
  BY <1>0, <1>4 DEF SessionsHaveAnExcuse, Active
<1> QED BY <1>1, <1>2, <1>3, <1>6, <1>7, <1>8, <1>9, <1>10

\* A call ends without a session; it may have revoked some.
LEMMA EndKeeps ==
  ASSUME IInv, NEW c \in Calls, c \notin sessions,
         revoked \subseteq revoked', revoked' \subseteq sessions, pc' = [pc EXCEPT ![c] = "done"], answer' \in [Calls -> Answers],
         UNCHANGED <<sessions, user, lapsed, task, presented, seen, history>>
  PROVE  IInv'
<1> USE DEF IInv, history
<1>1. TypeOK'
  BY DEF TypeOK, Labels
<1>2. FoundInv'
  BY DEF FoundInv, Found, TypeOK
<1>3. InsertedInv'
  BY DEF InsertedInv, TypeOK
<1>4. \A s \in sessions : Excused(s) => Excused(s)'
  BY ExcuseKept
<1>5. RotatingInv'
  BY <1>4 DEF RotatingInv, TypeOK
<1>6. SweepingInv'
  BY DEF SweepingInv, Active, Owner, TypeOK
<1>7. SpentTokenIssuesNothing'
  BY DEF SpentTokenIssuesNothing
<1>8. AncestorsRevoked'
  BY DEF AncestorsRevoked
<1>9. SessionsHaveAnExcuse'
  BY <1>4 DEF SessionsHaveAnExcuse, Active
<1> QED BY <1>1, <1>2, <1>3, <1>5, <1>6, <1>7, <1>8, <1>9

\* A call ends with a session of its own, whose ancestors are revoked.
LEMMA InsertKeeps ==
  ASSUME IInv, NEW c \in Calls, NEW u \in Users, NEW A \in SUBSET sessions,
         c \notin sessions, Insert(c, u, A),
         task[c] = "login" \/ (task[c] = "refresh" /\ presented[c] \notin known[c]),
         A \subseteq revoked', revoked \subseteq revoked', revoked' \subseteq sessions,
         \/ swept[u] = NoSweep \/ task[c] = "login" \/ c \in swept[u].calls
         \/ \E a \in A \ swept[u].sessions : task[a] = "login" \/ a \in swept[u].calls,
         pc' = [pc EXCEPT ![c] = "done"], answer' \in [Calls -> Answers],
         UNCHANGED <<lapsed, task, presented, seen, known, before, swept>>
  PROVE  IInv'
<1> USE DEF IInv
<1>0. /\ sessions' = sessions \cup {c}
      /\ \A s \in sessions : user'[s] = user[s] /\ line'[s] = line[s]
      /\ user'[c] = u /\ line'[c] = A \cup {c} /\ pc'[c] = "done"
      /\ \A d \in Calls \ {c} : pc'[d] = pc[d]
  BY DEF Insert, TypeOK
<1>1. TypeOK'
  <2>1. /\ user' \in [Calls -> Users \cup {Nobody}]
        /\ pc' \in [Calls -> Labels]
        /\ line' \in [Calls -> SUBSET sessions']
    BY DEF TypeOK, Labels, Insert
  <2>2. /\ presented' \in [Calls -> sessions' \cup {Nobody}]
        /\ seen' \in [Calls -> SUBSET sessions']
        /\ known' \in [Calls -> SUBSET sessions']
        /\ before' \in [Calls -> SUBSET sessions']
    BY <1>0 DEF TypeOK
  <2>3. swept' \in [Users -> [sessions : SUBSET sessions', calls : SUBSET Calls]]
    BY <1>0 DEF TypeOK
  <2> QED BY <1>0, <2>1, <2>2, <2>3 DEF TypeOK
<1>2. FoundInv'
  BY <1>0 DEF FoundInv, Found, TypeOK
<1>3. InsertedInv'
  BY <1>0 DEF InsertedInv, TypeOK
<1>4. \A s \in sessions : Excused(s) => Excused(s)'
  BY <1>0, ExcuseKept
<1>5. RotatingInv'
  <2> SUFFICES ASSUME NEW d \in Calls, NEW t \in sessions', pc'[d] = "rotate", presented[d] = t
               PROVE  t \notin known[d] /\ (d \in swept[user'[t]].calls \/ Excused(t)')
    BY DEF RotatingInv
  <2>1. t \in sessions
    BY <1>0, NobodyAssumption DEF TypeOK
  <2>2. pc[d] = "rotate"
    BY <1>0
  <2> QED BY <1>0, <1>4, <2>1, <2>2 DEF RotatingInv
<1>6. SweepingInv'
  <2> SUFFICES ASSUME NEW d \in Calls, pc'[d] = "endSweep", NEW s \in Active' \cap before[d],
                      user'[s] = user'[presented[d]]
               PROVE  s \in seen[d]
    BY DEF SweepingInv, Owner
  <2>1. pc[d] = "endSweep" /\ presented[d] \in sessions
    BY <1>0 DEF FoundInv, Found
  <2>2. s \in Active /\ s \in sessions
    BY <1>0 DEF Active, TypeOK
  <2> QED BY <1>0, <2>1, <2>2 DEF SweepingInv, Owner
<1>7. SpentTokenIssuesNothing'
  BY <1>0 DEF SpentTokenIssuesNothing
<1>8. AncestorsRevoked'
  BY <1>0 DEF AncestorsRevoked, TypeOK
<1>9. Excused(c)'
  <2>1. c \notin swept[u].sessions
    BY DEF TypeOK
  <2>2. CASE swept[u] = NoSweep
    BY <1>0, <2>2 DEF Excused, NoSweep
  <2>3. CASE task[c] = "login" \/ c \in swept[u].calls
    BY <1>0, <2>1, <2>3 DEF Excused
  <2>4. CASE \E a \in A \ swept[u].sessions : task[a] = "login" \/ a \in swept[u].calls
    BY <1>0, <2>4 DEF Excused
  <2> QED BY <2>2, <2>3, <2>4
<1>10. SessionsHaveAnExcuse'
  BY <1>0, <1>4, <1>9 DEF SessionsHaveAnExcuse, Active
<1> QED BY <1>1, <1>2, <1>3, <1>5, <1>6, <1>7, <1>8, <1>10

\* A login's session starts a line of its own.
LEMMA CreateKeeps == ASSUME IInv, NEW c \in Calls, Create(c) PROVE IInv'
<1>0. c \notin sessions /\ task[c] = "login" /\ answer \in [Calls -> Answers] /\ revoked \subseteq sessions
  BY DEF Create, IInv, InsertedInv, FoundInv, TypeOK
<1>1. CASE \E u \in Users : Insert(c, u, {}) /\ ReplyOrLose(c, "issued")
  <2>1. PICK u \in Users : Insert(c, u, {}) /\ ReplyOrLose(c, "issued")
    BY <1>1
  <2>2. pc' = [pc EXCEPT ![c] = "done"] /\ answer' \in [Calls -> Answers]
    BY <1>0, <2>1 DEF ReplyOrLose, Reply, Answers
  <2>3. revoked' = revoked /\ UNCHANGED <<lapsed, task, presented, seen, known, before, swept>>
    BY DEF Create
  <2>4. {} \in SUBSET sessions /\ {} \subseteq revoked' /\ revoked \subseteq revoked' /\ revoked' \subseteq sessions
    BY <1>0, <2>3
  <2> QED BY <1>0, <2>1, <2>2, <2>3, <2>4, InsertKeeps
<1>2. CASE UNCHANGED <<sessions, user, line>> /\ Reply(c, "refused")
  <2>1. pc' = [pc EXCEPT ![c] = "done"] /\ answer' \in [Calls -> Answers]
    BY <1>0, <1>2 DEF Reply, Answers
  <2>2. revoked' = revoked /\ UNCHANGED <<sessions, user, lapsed, task, presented, seen, history>>
    BY <1>2 DEF Create, history
  <2> QED BY <1>0, <2>1, <2>2, EndKeeps
<1> QED BY <1>1, <1>2 DEF Create

\* A rotation revokes the session it replaces, and inherits its line and excuse.
LEMMA RotateKeeps == ASSUME IInv, NEW c \in Calls, Rotate(c) PROVE IInv'
<1> DEFINE t == presented[c]
<1>0. /\ c \notin sessions /\ task[c] = "refresh" /\ answer \in [Calls -> Answers]
      /\ revoked \subseteq sessions /\ pc[c] = "rotate" /\ t \in sessions /\ user[t] \in Users /\ line[t] \in SUBSET sessions
  BY DEF Rotate, IInv, InsertedInv, FoundInv, Found, TypeOK
<1>1. CASE Retire(c) /\ Insert(c, Owner(c), line[t]) /\ ReplyOrLose(c, "issued")
  <2>1. pc' = [pc EXCEPT ![c] = "done"] /\ answer' \in [Calls -> Answers]
    BY <1>0, <1>1 DEF ReplyOrLose, Reply, Answers
  <2>2. /\ revoked' = revoked \cup {t} /\ Insert(c, user[t], line[t])
        /\ UNCHANGED <<lapsed, task, presented, seen, known, before, swept>>
    BY <1>1 DEF Rotate, Retire, Owner
  <2>3. line[t] \subseteq revoked \cup {t}
    BY <1>0 DEF IInv, AncestorsRevoked
  <2>4. t \notin known[c] /\ (c \in swept[user[t]].calls \/ Excused(t))
    BY <1>0 DEF IInv, RotatingInv
  <2>5. \/ swept[user[t]] = NoSweep \/ c \in swept[user[t]].calls
        \/ \E a \in line[t] \ swept[user[t]].sessions : task[a] = "login" \/ a \in swept[user[t]].calls
    BY <2>4 DEF Excused
  <2> QED BY <1>0, <2>1, <2>2, <2>3, <2>4, <2>5, InsertKeeps
<1>2. CASE UNCHANGED <<revoked, sessions, user, line>> /\ Reply(c, "refused")
  <2>1. pc' = [pc EXCEPT ![c] = "done"] /\ answer' \in [Calls -> Answers]
    BY <1>0, <1>2 DEF Reply, Answers
  <2>2. revoked' = revoked /\ UNCHANGED <<sessions, user, lapsed, task, presented, seen, history>>
    BY <1>2 DEF Rotate, history
  <2> QED BY <1>0, <2>1, <2>2, EndKeeps
<1> QED BY <1>1, <1>2 DEF Rotate

\* A sweep begins: it finds every active session of the user there is.
LEMMA BeginSweepKeeps == ASSUME IInv, NEW c \in Calls, BeginSweep(c) PROVE IInv'
<1> USE DEF IInv
<1>0. /\ c \notin sessions /\ pc' = [pc EXCEPT ![c] = "endSweep"] /\ Found(c) /\ pc[c] = "sweep"
      /\ task[c] = "refresh"
      /\ UNCHANGED <<sessions, user, revoked, lapsed, task, presented, answer, known, line, swept>>
  BY DEF BeginSweep, InsertedInv, FoundInv, rows, Step
<1>1. TypeOK'
  <2>1. Targets(c) \in SUBSET sessions
    BY DEF Targets, Active
  <2> QED BY <1>0, <2>1 DEF TypeOK, BeginSweep, Labels
<1>2. FoundInv'
  BY <1>0 DEF FoundInv, Found, TypeOK
<1>3. InsertedInv'
  BY <1>0 DEF InsertedInv, TypeOK
<1>4. \A s \in sessions : Excused(s) => Excused(s)'
  BY <1>0, ExcuseKept
<1>5. RotatingInv'
  BY <1>0, <1>4 DEF RotatingInv, TypeOK
<1>6. SweepingInv'
  BY <1>0 DEF SweepingInv, BeginSweep, Targets, Active, Owner, TypeOK
<1>7. SpentTokenIssuesNothing'
  BY <1>0 DEF SpentTokenIssuesNothing
<1>8. AncestorsRevoked'
  BY <1>0 DEF AncestorsRevoked
<1>9. SessionsHaveAnExcuse'
  BY <1>0, <1>4 DEF SessionsHaveAnExcuse, Active
<1> QED BY <1>1, <1>2, <1>3, <1>5, <1>6, <1>7, <1>8, <1>9

\* A sweep ends: the sessions it left active were inserted since it began, by
\* calls made before now, and so were those rotating now.
LEMMA EndSweepKeeps == ASSUME IInv, NEW c \in Calls, EndSweep(c) PROVE IInv'
<1> USE DEF IInv
<1> DEFINE u == Owner(c)
           made == {d \in Calls : pc[d] # "idle"}
<1>0. /\ c \notin sessions /\ pc[c] = "endSweep" /\ u \in Users
      /\ pc' = [pc EXCEPT ![c] = "done"] /\ answer' \in [Calls -> Answers]
      /\ UNCHANGED <<sessions, user, lapsed, task, presented, seen, known, line, before>>
  BY DEF EndSweep, InsertedInv, FoundInv, Found, Owner, Reply, TypeOK, Answers
<1>a. CASE UNCHANGED <<revoked, swept>>
  <2>1. revoked \subseteq revoked' /\ revoked' \subseteq sessions
    BY <1>a DEF TypeOK
  <2>2. UNCHANGED <<sessions, user, lapsed, task, presented, seen, history>>
    BY <1>0, <1>a DEF history
  <2> QED BY <1>0, <2>1, <2>2, EndKeeps
<1>b. CASE /\ revoked' = revoked \cup seen[c]
           /\ swept' = [swept EXCEPT ![u] = [sessions |-> before[c], calls |-> made]]
  <2>0. /\ swept'[u] = [sessions |-> before[c], calls |-> made]
        /\ \A v \in Users \ {u} : swept'[v] = swept[v]
    BY <1>0, <1>b DEF TypeOK
  <2>1. TypeOK'
    <3>1. [sessions |-> before[c], calls |-> made] \in [sessions : SUBSET sessions, calls : SUBSET Calls]
      BY DEF TypeOK
    <3>2. swept' \in [Users -> [sessions : SUBSET sessions, calls : SUBSET Calls]]
      BY <1>b, <3>1 DEF TypeOK
    <3> QED BY <1>0, <1>b, <3>2 DEF TypeOK, Labels
  <2>2. FoundInv'
    BY <1>0, <1>b DEF FoundInv, Found, TypeOK
  <2>3. InsertedInv'
    BY <1>0 DEF InsertedInv, TypeOK
  <2>4. ASSUME NEW s \in sessions, user[s] # u, Excused(s)
        PROVE  Excused(s)'
    <3>1. swept'[user[s]] = swept[user[s]]
      BY <2>0, <2>4 DEF TypeOK
    <3> QED BY <1>0, <2>4, <3>1 DEF Excused, NoSweep
  <2>5. RotatingInv'
    <3> SUFFICES ASSUME NEW d \in Calls, NEW t \in sessions, pc'[d] = "rotate", presented[d] = t
                 PROVE  t \notin known[d] /\ (d \in swept'[user[t]].calls \/ Excused(t)')
      BY <1>0 DEF RotatingInv
    <3>1. pc[d] = "rotate"
      BY <1>0 DEF TypeOK
    <3>2. CASE user[t] = u
      BY <2>0, <3>1, <3>2 DEF RotatingInv
    <3>3. CASE user[t] # u
      <4>1. swept'[user[t]] = swept[user[t]]
        BY <2>0, <3>3 DEF TypeOK
      <4> QED BY <2>4, <3>1, <3>3, <4>1 DEF RotatingInv
    <3> QED BY <3>2, <3>3
  <2>6. SweepingInv'
    BY <1>0, <1>b DEF SweepingInv, Active, Owner, TypeOK
  <2>7. SpentTokenIssuesNothing'
    BY <1>0 DEF SpentTokenIssuesNothing
  <2>8. AncestorsRevoked'
    BY <1>0, <1>b DEF AncestorsRevoked
  <2>9. SessionsHaveAnExcuse'
    <3> SUFFICES ASSUME NEW s \in Active'
                 PROVE  Excused(s)'
      BY DEF SessionsHaveAnExcuse
    <3>1. s \in Active /\ s \in sessions /\ s \notin seen[c]
      BY <1>0, <1>b DEF Active
    <3>2. CASE user[s] = u
      <4>1. s \notin before[c]
        BY <1>0, <3>1, <3>2 DEF SweepingInv
      <4>2. s \in line[s] /\ s \in made
        BY <3>1 DEF InsertedInv, TypeOK
      <4> QED BY <1>0, <2>0, <3>2, <4>1, <4>2 DEF Excused
    <3>3. CASE user[s] # u
      BY <2>4, <3>1, <3>3 DEF SessionsHaveAnExcuse
    <3> QED BY <3>2, <3>3
  <2> QED BY <2>1, <2>2, <2>3, <2>5, <2>6, <2>7, <2>8, <2>9
<1> QED BY <1>a, <1>b DEF EndSweep

\* A logout ends.
LEMMA RevokeKeeps == ASSUME IInv, NEW c \in Calls, Revoke(c) PROVE IInv'
<1>0. /\ c \notin sessions /\ presented[c] \in sessions /\ revoked \subseteq sessions
      /\ answer \in [Calls -> Answers]
  BY DEF Revoke, IInv, InsertedInv, FoundInv, Found, TypeOK
<1>1. pc' = [pc EXCEPT ![c] = "done"] /\ answer' \in [Calls -> Answers]
  BY <1>0 DEF Revoke, ReplyOrLose, Reply, Answers
<1>2. revoked \subseteq revoked' /\ revoked' \subseteq sessions
  BY <1>0 DEF Revoke
<1>3. UNCHANGED <<sessions, user, lapsed, task, presented, seen, history>>
  BY DEF Revoke
<1> QED BY <1>0, <1>1, <1>2, <1>3, EndKeeps

\* A session expires.
LEMMA LapseKeeps == ASSUME IInv, NEW s \in Calls, Lapse(s) PROVE IInv'
<1> USE DEF IInv, Lapse, history
<1>1. TypeOK'
  BY DEF TypeOK
<1>2. FoundInv' /\ InsertedInv'
  BY DEF FoundInv, Found, InsertedInv
<1>3. \A x \in sessions : Excused(x) => Excused(x)'
  BY ExcuseKept
<1>4. RotatingInv' /\ SpentTokenIssuesNothing' /\ AncestorsRevoked'
  BY <1>3 DEF RotatingInv, SpentTokenIssuesNothing, AncestorsRevoked
<1>5. SweepingInv' /\ SessionsHaveAnExcuse'
  BY <1>3 DEF SweepingInv, SessionsHaveAnExcuse, Active, Owner
<1> QED BY <1>1, <1>2, <1>4, <1>5

-------------------------------------------------------------------------------
\* The inductive invariant holds in every reachable state.
THEOREM SessionInvariance == Spec => []IInv
<1>1. IInv /\ [Next]_vars => IInv'
  <2> SUFFICES ASSUME IInv, [Next]_vars PROVE IInv'
    OBVIOUS
  <2>1. ASSUME NEW c \in Calls, Submit(c, "login", Nobody) PROVE IInv'
    BY <2>1, SubmitKeeps
  <2>2. ASSUME NEW c \in Calls, NEW t \in HandedOut \cup {Nobody},
               NEW what \in {"refresh", "logout"}, Submit(c, what, t)
        PROVE  IInv'
    <3>1. t \in sessions \cup {Nobody} /\ what \in {"login", "refresh", "logout"}
      BY DEF HandedOut
    <3> QED BY <2>2, <3>1, SubmitKeeps
  <2>3. ASSUME NEW c \in Calls,
               Create(c) \/ Find(c) \/ Rotate(c) \/ BeginSweep(c) \/ EndSweep(c) \/ Revoke(c)
        PROVE  IInv'
    BY <2>3, CreateKeeps, FindKeeps, RotateKeeps, BeginSweepKeeps, EndSweepKeeps, RevokeKeeps
  <2>4. ASSUME NEW s \in Calls, Lapse(s) PROVE IInv'
    BY <2>4, LapseKeeps
  <2>5. CASE UNCHANGED vars
    BY <2>5 DEF vars, rows, history, IInv, TypeOK, FoundInv, Found, InsertedInv, RotatingInv,
       SweepingInv, SpentTokenIssuesNothing, AncestorsRevoked, SessionsHaveAnExcuse, Excused, Active,
       Owner, NoSweep
  <2> QED BY <2>1, <2>2, <2>3, <2>4, <2>5 DEF Next
<1> QED BY InitInvariant, <1>1, PTL DEF Spec

\* Every variable keeps its type.
THEOREM SessionTypes == Spec => []TypeOK
<1>1. IInv => TypeOK
  BY DEF IInv
<1> QED BY SessionInvariance, <1>1, PTL

\* A token that is rotated, swept, logged out or expired when a refresh is made
\* issues nothing to it.
THEOREM SpentTokensStaySpent == Spec => []SpentTokenIssuesNothing
<1>1. IInv => SpentTokenIssuesNothing
  BY DEF IInv
<1> QED BY SessionInvariance, <1>1, PTL

\* Every ancestor of a session is revoked.
THEOREM RotationRetiresTheLine == Spec => []AncestorsRevoked
<1>1. IInv => AncestorsRevoked
  BY DEF IInv
<1> QED BY SessionInvariance, <1>1, PTL

\* After a sweep only a login, or a call made before the sweep was over, starts a
\* line of active sessions.
THEOREM SweptUsersStartAnew == Spec => []SessionsHaveAnExcuse
<1>1. IInv => SessionsHaveAnExcuse
  BY DEF IInv
<1> QED BY SessionInvariance, <1>1, PTL
-------------------------------------------------------------------------------
\* A step changes the sessions only by the insertion of one call's own, and the
\* tasks and tokens only of calls that were idle.
LEMMA WhoInserts ==
  ASSUME IInv, [Next]_vars
  PROVE  /\ revoked \subseteq revoked'
         /\ \/ sessions' = sessions /\ user' = user /\ line' = line
            \/ \E c \in Calls, u \in Users : Create(c) /\ sessions' = sessions \cup {c} /\ Insert(c, u, {})
            \/ \E c \in Calls : /\ Rotate(c) /\ Retire(c) /\ sessions' = sessions \cup {c}
                                /\ Insert(c, Owner(c), line[presented[c]])
         /\ \A c \in Calls : pc[c] # "idle" => pc'[c] # "idle" /\ task'[c] = task[c] /\ presented'[c] = presented[c]
<1>1. CASE UNCHANGED vars
  BY <1>1 DEF vars, rows, history
<1>2. ASSUME NEW c \in Calls, NEW what \in {"login", "refresh", "logout"}, NEW t \in sessions \cup {Nobody},
             Submit(c, what, t)
      PROVE  /\ UNCHANGED <<revoked, sessions, user, line>>
             /\ \A d \in Calls : pc[d] # "idle" => pc'[d] # "idle" /\ task'[d] = task[d] /\ presented'[d] = presented[d]
  BY <1>2 DEF Submit, rows, IInv, TypeOK
<1>3. ASSUME NEW c \in Calls, Find(c) \/ BeginSweep(c) \/ EndSweep(c) \/ Revoke(c)
      PROVE  /\ UNCHANGED <<sessions, user, line>> /\ revoked \subseteq revoked'
             /\ \A d \in Calls : pc[d] # "idle" => pc'[d] # "idle" /\ task'[d] = task[d] /\ presented'[d] = presented[d]
  BY <1>3 DEF Find, BeginSweep, EndSweep, Revoke, Step, Reply, ReplyOrLose, rows, history, IInv, TypeOK
<1>4. ASSUME NEW s \in Calls, Lapse(s)
      PROVE  UNCHANGED <<sessions, user, line, revoked, pc, task, presented>>
  BY <1>4 DEF Lapse, history
<1>5. ASSUME NEW c \in Calls, Create(c) \/ Rotate(c)
      PROVE  /\ revoked \subseteq revoked'
             /\ \A d \in Calls : pc[d] # "idle" => pc'[d] # "idle" /\ task'[d] = task[d] /\ presented'[d] = presented[d]
  BY <1>5 DEF Create, Rotate, Retire, Reply, ReplyOrLose, IInv, TypeOK
<1>6. ASSUME NEW c \in Calls, Create(c)
      PROVE  \/ sessions' = sessions /\ user' = user /\ line' = line
             \/ \E u \in Users : sessions' = sessions \cup {c} /\ Insert(c, u, {})
  BY <1>6 DEF Create, Insert
<1>7. ASSUME NEW c \in Calls, Rotate(c)
      PROVE  \/ sessions' = sessions /\ user' = user /\ line' = line
             \/ Retire(c) /\ sessions' = sessions \cup {c} /\ Insert(c, Owner(c), line[presented[c]])
  BY <1>7 DEF Rotate, Insert
<1>8. CASE \E c \in Calls : Create(c) \/ Rotate(c)
  BY <1>5, <1>6, <1>7, <1>8
<1>9. CASE ~\E c \in Calls : Create(c) \/ Rotate(c)
  <2>1. HandedOut \subseteq sessions
    BY DEF HandedOut
  <2> QED BY <1>1, <1>2, <1>3, <1>4, <1>9, <2>1 DEF Next
<1> QED BY <1>8, <1>9

\* A step of calls that respect OneCallPerToken keeps FirstToRotateInv.
LEMMA FirstToRotateKept ==
  IInv /\ FirstToRotateInv /\ OneCallPerToken /\ [Next]_vars => FirstToRotateInv'
<1> SUFFICES ASSUME IInv, FirstToRotateInv, OneCallPerToken, [Next]_vars PROVE FirstToRotateInv'
  OBVIOUS
<1>1. \A s \in sessions : pc[s] = "done" /\ task'[s] = task[s] /\ presented'[s] = presented[s] /\ s \in Calls
  BY WhoInserts DEF IInv, InsertedInv, TypeOK
<1>2. ASSUME NEW c \in Calls, pc'[c] = "rotate", pc[c] # "rotate"
      PROVE  /\ presented[c] \notin revoked /\ sessions' = sessions /\ task'[c] = task[c]
             /\ presented'[c] = presented[c]
  BY <1>2 DEF Next, vars, rows, history, Submit, Create, Find, Rotate, BeginSweep, EndSweep, Revoke, Lapse, Step, Reply,
     ReplyOrLose, Reused, IInv, TypeOK
<1>3. ASSUME sessions' = sessions PROVE FirstToRotateInv'
  <2>1. \A s \in sessions : task[s] = "refresh" => presented[s] \in revoked'
    BY WhoInserts DEF FirstToRotateInv
  <2>2. ASSUME NEW c \in Calls, NEW s \in sessions, pc'[c] = "rotate", task[s] = "refresh"
        PROVE  presented[s] # presented'[c]
    <3>1. CASE pc[c] = "rotate"
      BY <2>2, <3>1, WhoInserts DEF FirstToRotateInv
    <3>2. CASE pc[c] # "rotate"
      BY <1>2, <2>2, <3>2 DEF FirstToRotateInv
    <3> QED BY <3>1, <3>2
  <2> QED BY <1>1, <1>3, <2>1, <2>2 DEF FirstToRotateInv, TokenRefreshesOnce
<1>4. ASSUME NEW d \in Calls, Create(d) PROVE FirstToRotateInv'
  <2>1. /\ task[d] = "login" /\ sessions' \subseteq sessions \cup {d} /\ d \notin sessions
        /\ UNCHANGED <<task, presented, revoked>>
        /\ \A c \in Calls : pc'[c] = "rotate" => pc[c] = "rotate"
    BY <1>4 DEF Create, Insert, Reply, ReplyOrLose, IInv, FoundInv, InsertedInv, TypeOK
  <2> QED BY <2>1 DEF FirstToRotateInv, TokenRefreshesOnce
<1>5. ASSUME NEW d \in Calls, Rotate(d), Retire(d), sessions' = sessions \cup {d} PROVE FirstToRotateInv'
  <2>1. /\ pc[d] = "rotate" /\ pc'[d] = "done" /\ task[d] = "refresh" /\ presented[d] \in sessions
        /\ d \notin sessions /\ presented[d] # Nobody /\ UNCHANGED <<task, presented>>
        /\ revoked' = revoked \cup {presented[d]}
        /\ \A c \in Calls \ {d} : pc'[c] = pc[c]
    BY <1>5, NobodyAssumption DEF Rotate, Retire, Reply, ReplyOrLose, IInv, FoundInv, Found, InsertedInv, TypeOK
  <2>2. \A s \in sessions : task[s] = "refresh" => presented[s] # presented[d]
    BY <2>1 DEF FirstToRotateInv
  <2>3. \A c \in Calls \ {d} : pc[c] = "rotate" => presented[c] # presented[d]
    BY <2>1 DEF OneCallPerToken, InFlight
  <2> QED BY <1>5, <2>1, <2>2, <2>3 DEF FirstToRotateInv, TokenRefreshesOnce
<1> QED BY <1>3, <1>4, <1>5, WhoInserts

\* "A token can be used to refresh at most once" holds of clients that wait for a
\* call to end before they present its token again, even when answers are lost:
\* two refreshes in flight at once are all that breaks it.
THEOREM SequentialClientsRefreshOnce == Spec /\ []OneCallPerToken => []TokenRefreshesOnce
<1>1. Init => FirstToRotateInv
  BY DEF Init, FirstToRotateInv, TokenRefreshesOnce
<1>2. FirstToRotateInv => TokenRefreshesOnce
  BY DEF FirstToRotateInv
<1> QED BY <1>1, <1>2, FirstToRotateKept, SessionInvariance, PTL DEF Spec

\* A session, once spent, is spent for every refresh made afterwards: the same
\* as SpentTokenIssuesNothing, without its history variable.
THEOREM SpentTokensStayUseless == Spec => SpentForGood
<1> SUFFICES ASSUME NEW c \in Calls, NEW t \in Calls
             PROVE  Spec => [](t \in revoked /\ pc[c] = "idle"
                                 => [](c \in sessions /\ task[c] = "refresh" => presented[c] # t))
  BY DEF SpentForGood
<1> DEFINE P == t \in revoked /\ (pc[c] = "idle" \/ (presented[c] = t => t \in known[c]))
<1>1. IInv /\ P /\ [Next]_vars => P'
  <2> SUFFICES ASSUME IInv, P, [Next]_vars PROVE P'
    OBVIOUS
  <2>1. t \in revoked'
    BY WhoInserts
  <2>2. CASE pc'[c] # "idle" /\ pc[c] = "idle"
    <3>1. known'[c] = revoked \cup lapsed
      BY <2>2 DEF Next, vars, rows, history, Submit, Create, Find, Rotate, BeginSweep, EndSweep, Revoke, Lapse, Step,
         Reply, ReplyOrLose, IInv, TypeOK
    <3> QED BY <2>1, <3>1
  <2>3. CASE pc[c] # "idle"
    <3>1. known'[c] = known[c] /\ presented'[c] = presented[c]
      BY <2>3 DEF Next, vars, rows, history, Submit, Create, Find, Rotate, BeginSweep, EndSweep, Revoke, Lapse, Step,
         Reply, ReplyOrLose, IInv, TypeOK
    <3> QED BY <2>1, <2>3, <3>1
  <2> QED BY <2>1, <2>2, <2>3
<1>2. t \in revoked /\ pc[c] = "idle" => P
  OBVIOUS
<1>3. IInv /\ P => (c \in sessions /\ task[c] = "refresh" => presented[c] # t)
  BY DEF IInv, InsertedInv, SpentTokenIssuesNothing
<1> QED BY <1>1, <1>2, <1>3, SessionInvariance, PTL DEF Spec

\* A login's session is a line of its own; a rotation's inherits the login.
THEOREM SessionsHaveOneLogin == Spec => []SessionsGoBackToALogin
<1>1. Init => SessionsGoBackToALogin
  BY DEF Init, SessionsGoBackToALogin
<1>2. IInv /\ SessionsGoBackToALogin /\ [Next]_vars => SessionsGoBackToALogin'
  <2> SUFFICES ASSUME IInv, SessionsGoBackToALogin, [Next]_vars PROVE SessionsGoBackToALogin'
    OBVIOUS
  <2>1. \A s \in sessions : s \in Calls /\ pc[s] = "done" /\ task'[s] = task[s] /\ line[s] \subseteq sessions
    BY WhoInserts DEF IInv, InsertedInv, TypeOK
  <2>2. ASSUME NEW s \in sessions, user'[s] = user[s], line'[s] = line[s],
               \A b \in sessions : user'[b] = user[b] /\ line'[b] = line[b]
        PROVE  OneLogin(s)'
    BY <2>1, <2>2 DEF SessionsGoBackToALogin, OneLogin
  <2>3. CASE sessions' = sessions /\ user' = user /\ line' = line
    BY <2>2, <2>3 DEF SessionsGoBackToALogin
  <2>4. ASSUME NEW c \in Calls, NEW u \in Users, Create(c), sessions' = sessions \cup {c}, Insert(c, u, {})
        PROVE  SessionsGoBackToALogin'
    <3>1. /\ task[c] = "login" /\ task' = task /\ line'[c] = {c} /\ user'[c] = u /\ c \notin sessions
          /\ \A s \in sessions : user'[s] = user[s] /\ line'[s] = line[s]
      BY <2>1, <2>4 DEF Create, Insert, IInv, FoundInv, InsertedInv, TypeOK
    <3>2. OneLogin(c)'
      BY <3>1 DEF OneLogin
    <3> QED BY <2>2, <2>4, <3>1, <3>2 DEF SessionsGoBackToALogin
  <2>5. ASSUME NEW c \in Calls, Rotate(c), sessions' = sessions \cup {c},
               Insert(c, Owner(c), line[presented[c]])
        PROVE  SessionsGoBackToALogin'
    <3> DEFINE t == presented[c]
    <3>1. /\ task[c] = "refresh" /\ task' = task /\ t \in sessions /\ c \notin sessions
          /\ line'[c] = line[t] \cup {c} /\ user'[c] = user[t] /\ line[t] \subseteq sessions
          /\ \A s \in sessions : user'[s] = user[s] /\ line'[s] = line[s]
      BY <2>1, <2>5 DEF Rotate, Insert, Owner, IInv, FoundInv, Found, InsertedInv, TypeOK
    <3>2. PICK a \in line[t] :
            /\ task[a] = "login"
            /\ \A b \in line[t] : user[b] = user[t] /\ a \in line[b] /\ (task[b] = "login" => b = a)
      BY <3>1 DEF SessionsGoBackToALogin, OneLogin
    <3>3. OneLogin(c)'
      BY <3>1, <3>2 DEF OneLogin
    <3> QED BY <2>2, <2>5, <3>1, <3>3 DEF SessionsGoBackToALogin
  <2> QED BY <2>3, <2>4, <2>5, WhoInserts
<1> QED BY <1>1, <1>2, SessionInvariance, PTL DEF Spec
===============================================================================
