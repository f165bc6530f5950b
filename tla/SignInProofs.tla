------------------------------ MODULE SignInProofs ------------------------------
(***************************************************************************)
(* Theorems about SignIn: its types, that a session stays its owner's,     *)
(* that a role that was taken away is gone within one token life, and that *)
(* a sign-in nothing crosses passes the state check.                       *)
(***************************************************************************)
EXTENDS SignIn, TLAPS

-------------------------------------------------------------------------------
(* Types *)

\* A tab's entry has the fields its step says.
LEMMA Shapes ==
    ASSUME TypeOK, NEW t \in Tabs
    PROVE  /\ tab[t].step \in {"login", "microsoft"} => tab[t].attempt \in Attempts
           /\ tab[t].step = "callback" =>
                 tab[t].attempt \in Attempts /\ tab[t].sent \in {NoAttempt} \cup Attempts
           /\ tab[t].step = "upsert" => tab[t].who \in Accounts /\ tab[t].email \in Emails
           /\ tab[t].step = "refresh" =>
                 tab[t].id \in Ids /\ tab[t].role \in Roles /\ tab[t].by \in Accounts \cup {Dev}
           /\ tab[t].step = "answer" =>
                 tab[t].clears \in BOOLEAN /\ tab[t].session \in Token \cup {NoToken, Keep}
<1>1. tab[t] \in TabState
  BY DEF TypeOK
<1> QED
  BY <1>1 DEF TabState, Idle

\* An answer is an entry of a tab.
LEMMA AnswerTyped ==
    ASSUME NEW clears \in BOOLEAN, NEW session \in Token \cup {NoToken, Keep}
    PROVE  Answer(clears, session) \in TabState
BY DEF Answer, TabState

\* What a tab goes to is what the other tabs' types are left with.
LEMMA TabTyped ==
    ASSUME TypeOK, NEW t \in Tabs, NEW state \in TabState, Goes(t, state)
    PROVE  tab' \in [Tabs -> TabState]
BY DEF TypeOK, Goes

\* A token as signed.
LEMMA SignedTyped ==
    ASSUME NEW id \in Ids, NEW role \in Roles, NEW by \in Accounts \cup {Dev}
    PROVE  SignedToken(id, role, by) \in Token
BY SignInAssumption DEF SignedToken, Token

\* Writing a row and answering with its token keeps the types.
LEMMA SignsInTyped ==
    ASSUME TypeOK, NEW t \in Tabs, NEW id \in Ids, NEW row \in UserRow,
           NEW by \in Accounts \cup {Dev}, NEW clears \in BOOLEAN,
           SignsIn(t, id, row, by, clears)
    PROVE  /\ DOMAIN users' \subseteq Ids
           /\ \A i \in DOMAIN users' : users'[i] \in UserRow
           /\ since' \in [Ids -> [Roles -> 0 .. Never]]
           /\ tab' \in [Tabs -> TabState]
<1>1. row.role \in Roles
  BY DEF UserRow
<1>2. tab' \in [Tabs -> TabState]
  <2>1. Answer(clears, SignedToken(id, row.role, by)) \in TabState
    BY <1>1, SignedTyped, AnswerTyped
  <2> QED
    BY <2>1, TabTyped DEF SignsIn
<1>3. since' \in [Ids -> [Roles -> 0 .. Never]]
  BY <1>1, SignInAssumption DEF SignsIn, TypeOK, Never
<1>4. DOMAIN users' = DOMAIN users \cup {id}
  BY DEF SignsIn
<1>5. \A i \in DOMAIN users' : users'[i] \in UserRow
  BY <1>4 DEF SignsIn, TypeOK
<1> QED
  BY <1>2, <1>3, <1>4, <1>5 DEF TypeOK

\* The type invariant holds initially.
LEMMA TypeInit == Init => TypeOK
<1> SUFFICES ASSUME Init PROVE TypeOK
  OBVIOUS
<1>1. DOMAIN users = {} /\ DOMAIN codes = {}
  BY DEF Init
<1>2. mailOf \in [Accounts -> Emails]
  BY DEF Init, Directories
<1>3. jar \in [attempt : {NoAttempt} \cup Attempts, life : 0 .. AttemptLife,
               session : Token \cup {NoToken}]
  BY SignInAssumption DEF Init
<1>4. tab \in [Tabs -> TabState]
  BY DEF Init, TabState
<1>5. started \in {NoAttempt} \cup Attempts
  BY DEF Init, NoAttempt
<1>6. since \in [Ids -> [Roles -> 0 .. Never]]
  BY SignInAssumption DEF Init, Never
<1>7. troubled \subseteq Tabs
  BY DEF Init
<1>8. AllKnown
  BY DEF Init, Idle, AllKnown, Known
<1> QED
  BY <1>1, <1>2, <1>3, <1>4, <1>5, <1>6, <1>7, <1>8 DEF TypeOK

\* When one tab moves on to an entry that refers to what exists, everything
\* still refers to what exists: attempts, URLs and rows are never taken back.
LEMMA KnownStays ==
    ASSUME TypeOK, NEW t \in Tabs, NEW state \in TabState, Goes(t, state),
           1 .. started \subseteq 1 .. started',
           DOMAIN codes \subseteq DOMAIN codes',
           DOMAIN users \subseteq DOMAIN users',
           Known(state, 1 .. started', DOMAIN codes', DOMAIN users'),
           jar'.session = jar.session
    PROVE  AllKnown'
<1>1. ASSUME NEW u \in Tabs
      PROVE  Known(tab'[u], 1 .. started', DOMAIN codes', DOMAIN users')
  <2>1. CASE u = t
    BY <2>1 DEF TypeOK, Goes
  <2>2. CASE u # t
    <3>1. tab'[u] = tab[u]
      BY <2>2 DEF TypeOK, Goes
    <3>2. Known(tab[u], 1 .. started, DOMAIN codes, DOMAIN users)
      BY DEF TypeOK, AllKnown
    <3> QED
      BY <3>1, <3>2 DEF Known
  <2> QED
    BY <2>1, <2>2
<1>2. jar'.session # NoToken => jar'.session.id \in DOMAIN users'
  BY DEF TypeOK, AllKnown
<1> QED
  BY <1>1, <1>2 DEF AllKnown

\* The entries that refer to nothing.
LEMMA Free ==
    ASSUME NEW begun, NEW urls, NEW ids
    PROVE  /\ Known(Idle, begun, urls, ids)
           /\ Known(Refused, begun, urls, ids)
           /\ \A clears : Known(Answer(clears, NoToken), begun, urls, ids)
BY DEF Known, Idle, Refused, Answer

\* The steps of a sign-in up to the upsert keep the types.
LEMMA AttemptTyped ==
    ASSUME TypeOK, NEW t \in Tabs,
           \/ Login(t)
           \/ GoToMicrosoft(t)
           \/ \E a \in Accounts : Authorise(t, a)
           \/ GiveUp(t)
           \/ Revisit(t)
           \/ Callback(t)
    PROVE  TypeOK'
<1> USE Shapes
<1>1. CASE Login(t)
  <2>1. started' \in Attempts /\ started' = started + 1
    BY <1>1, SignInAssumption DEF Login, TypeOK, Attempts, NoAttempt
  <2>2. [step |-> "login", attempt |-> started + 1] \in TabState
    BY <2>1 DEF TabState
  <2>3. tab' \in [Tabs -> TabState]
    BY <1>1, <2>2, TabTyped DEF Login
  <2>4. troubled' \subseteq Tabs
    BY <1>1 DEF Login, Crosses, TypeOK
  <2>5. started \in Nat /\ 1 .. started \subseteq 1 .. started' /\ started' \in 1 .. started'
    BY <2>1, SignInAssumption DEF TypeOK, Attempts, NoAttempt
  <2>6. AllKnown'
    BY <1>1, <2>1, <2>2, <2>5, KnownStays DEF Login, Known
  <2> QED
    BY <1>1, <2>1, <2>3, <2>4, <2>5, <2>6 DEF Login, TypeOK
<1>2. CASE GoToMicrosoft(t)
  <2>1. tab[t].attempt \in Attempts
    BY <1>2 DEF GoToMicrosoft
  <2>2. [step |-> "microsoft", attempt |-> tab[t].attempt] \in TabState
    BY <2>1 DEF TabState
  <2>3. tab' \in [Tabs -> TabState]
    BY <1>2, <2>2, TabTyped DEF GoToMicrosoft
  <2>4. jar' \in [attempt : {NoAttempt} \cup Attempts, life : 0 .. AttemptLife,
                  session : Token \cup {NoToken}]
    <3>1. AttemptLife \in 0 .. AttemptLife
      BY SignInAssumption
    <3>2. jar' = [jar EXCEPT !.attempt = tab[t].attempt, !.life = AttemptLife]
      BY <1>2 DEF GoToMicrosoft, Stored
    <3> QED
      BY <2>1, <3>1, <3>2 DEF TypeOK
  <2>5. AllKnown'
    <3>1. tab[t].attempt \in 1 .. started
      BY <1>2 DEF GoToMicrosoft, TypeOK, AllKnown, Known
    <3>2. jar'.session = jar.session
      BY <1>2 DEF GoToMicrosoft, Stored, TypeOK
    <3> QED
      BY <1>2, <2>2, <3>1, <3>2, KnownStays DEF GoToMicrosoft, Known
  <2> QED
    BY <1>2, <2>3, <2>4, <2>5 DEF GoToMicrosoft, TypeOK
<1>3. ASSUME NEW a \in Accounts, Authorise(t, a) PROVE TypeOK'
  <2>1. tab[t].attempt \in Attempts /\ jar.attempt \in {NoAttempt} \cup Attempts
    BY <1>3 DEF Authorise, TypeOK
  <2>2. [step |-> "callback", attempt |-> tab[t].attempt, sent |-> jar.attempt] \in TabState
    BY <2>1 DEF TabState
  <2>3. tab' \in [Tabs -> TabState]
    BY <1>3, <2>2, TabTyped DEF Authorise
  <2>4. DOMAIN codes' = DOMAIN codes \cup {tab[t].attempt}
    BY <1>3 DEF Authorise
  <2>5. \A n \in DOMAIN codes' : codes'[n] \in Accounts \cup {Spent}
    BY <1>3, <2>4 DEF Authorise, TypeOK
  <2>6. DOMAIN codes' \subseteq 1 .. started
    BY <1>3, <2>4 DEF Authorise, TypeOK, AllKnown, Known
  <2>7. AllKnown'
    BY <1>3, <2>2, <2>4, KnownStays DEF Authorise, Known
  <2> QED
    BY <1>3, <2>3, <2>5, <2>6, <2>7 DEF Authorise, TypeOK
<1>4. CASE GiveUp(t)
  <2>1. Idle \in TabState /\ Idle.step = "idle"
    BY DEF TabState, Idle
  <2>2. tab' \in [Tabs -> TabState]
    BY <1>4, <2>1, TabTyped DEF GiveUp
  <2>3. AllKnown'
    BY <1>4, <2>1, KnownStays, Free DEF GiveUp
  <2> QED
    BY <1>4, <2>2, <2>3 DEF GiveUp, TypeOK
<1>5. CASE Revisit(t)
  <2>1. tab' \in [Tabs -> TabState] /\ AllKnown'
    <3>1. PICK n \in DOMAIN codes :
             Goes(t, [step |-> "callback", attempt |-> n, sent |-> jar.attempt])
      BY <1>5 DEF Revisit
    <3>2. n \in Attempts
      BY SignInAssumption DEF TypeOK, Attempts, NoAttempt
    <3>3. [step |-> "callback", attempt |-> n, sent |-> jar.attempt] \in TabState
      BY <3>2 DEF TabState, TypeOK
    <3>4. AllKnown'
      BY <1>5, <3>1, <3>3, KnownStays DEF Revisit, Known
    <3> QED
      BY <3>1, <3>3, <3>4, TabTyped
  <2>2. troubled' \subseteq Tabs
    BY <1>5 DEF Revisit, TypeOK
  <2> QED
    BY <1>5, <2>1, <2>2 DEF Revisit, TypeOK
<1>6. CASE Callback(t)
  <2> DEFINE n == tab[t].attempt
  <2>1. CASE /\ tab[t].sent = n /\ codes[n] # Spent
             /\ Goes(t, [step |-> "upsert", who |-> codes[n], email |-> mailOf[codes[n]]])
             /\ codes' = [codes EXCEPT ![n] = Spent]
    <3>1. codes[n] \in Accounts
      BY <1>6, <2>1 DEF Callback, TypeOK, AllKnown, Known
    <3>2. [step |-> "upsert", who |-> codes[n], email |-> mailOf[codes[n]]] \in TabState
      BY <3>1 DEF TabState, TypeOK
    <3>3. tab' \in [Tabs -> TabState]
      BY <2>1, <3>2, TabTyped
    <3>4. DOMAIN codes' = DOMAIN codes
      BY <2>1
    <3>5. AllKnown'
      BY <1>6, <2>1, <3>2, <3>4, KnownStays DEF Callback, Known
    <3>6. \A m \in DOMAIN codes' : codes'[m] \in Accounts \cup {Spent}
      BY <2>1, <3>4 DEF TypeOK
    <3> QED
      BY <1>6, <3>3, <3>4, <3>5, <3>6 DEF Callback, TypeOK
  <2>2. CASE Goes(t, Refused) /\ UNCHANGED codes
    <3>1. Refused \in TabState /\ Refused.step = "answer"
      BY AnswerTyped DEF Refused, Answer
    <3>2. tab' \in [Tabs -> TabState]
      BY <2>2, <3>1, TabTyped
    <3>3. AllKnown'
      BY <1>6, <2>2, <3>1, KnownStays, Free DEF Callback
    <3> QED
      BY <1>6, <2>2, <3>2, <3>3 DEF Callback, TypeOK
  <2> QED
    BY <1>6, <2>1, <2>2 DEF Callback
<1> QED
  BY <1>1, <1>2, <1>3, <1>4, <1>5, <1>6

\* The steps that write rows, and those that only handle tokens.
LEMMA AccountTyped ==
    ASSUME TypeOK, NEW t \in Tabs,
           \/ Upsert(t)
           \/ \E e \in Emails, r \in Roles : DevLogin(t, e, r)
           \/ Refresh(t)
           \/ Reissue(t)
           \/ Logout(t)
           \/ Arrive(t)
    PROVE  TypeOK'
<1> USE Shapes
<1>a. Refused \in TabState /\ Refused.step = "answer"
  BY AnswerTyped DEF Refused, Answer
<1>b. Idle \in TabState /\ Idle.step = "idle"
  BY DEF TabState, Idle
<1>d. ASSUME NEW id \in Ids, NEW row \in UserRow, NEW by \in Accounts \cup {Dev},
             NEW clears \in BOOLEAN, SignsIn(t, id, row, by, clears),
             UNCHANGED <<mailOf, jar, started, codes, troubled>>
      PROVE  TypeOK'
  <2>1. /\ DOMAIN users' \subseteq Ids
        /\ \A i \in DOMAIN users' : users'[i] \in UserRow
        /\ since' \in [Ids -> [Roles -> 0 .. Never]]
        /\ tab' \in [Tabs -> TabState]
    BY <1>d, SignsInTyped
  <2>2. AllKnown'
    <3> DEFINE state == Answer(clears, SignedToken(id, row.role, by))
    <3>1. state \in TabState
      BY SignedTyped, AnswerTyped DEF UserRow
    <3>2. DOMAIN users' = DOMAIN users \cup {id}
      BY <1>d DEF SignsIn
    <3>3. Known(state, 1 .. started', DOMAIN codes', DOMAIN users')
      BY <3>2 DEF Known, Answer, SignedToken
    <3>4. Goes(t, state)
      BY <1>d DEF SignsIn
    <3> HIDE DEF state
    <3> QED
      BY <1>d, <3>1, <3>2, <3>3, <3>4, KnownStays
  <2> QED
    BY <1>d, <2>1, <2>2 DEF TypeOK
<1>1. CASE Upsert(t)
  <2> DEFINE who == tab[t].who
             email == tab[t].email
             rows == RowOf(who, email)
  <2>1. who \in Accounts /\ email \in Emails
    BY <1>1 DEF Upsert
  <2>2. UNCHANGED <<mailOf, jar, started, codes, troubled>>
    BY <1>1 DEF Upsert
  <2>3. ASSUME NEW i \in rows, SignsIn(t, i, [users[i] EXCEPT !.email = email], who, TRUE)
        PROVE  TypeOK'
    <3>1. i \in Ids /\ users[i] \in UserRow
      BY DEF RowOf, TypeOK
    <3>2. [users[i] EXCEPT !.email = email] \in UserRow
      BY <2>1, <3>1 DEF UserRow
    <3> QED
      BY <1>d, <2>1, <2>2, <2>3, <3>1, <3>2
  <2>4. ASSUME NEW i \in Ids \ DOMAIN users,
               SignsIn(t, i, [oid |-> who, email |-> email, role |-> Student], who, TRUE)
        PROVE  TypeOK'
    <3>1. [oid |-> who, email |-> email, role |-> Student] \in UserRow
      BY <2>1, SignInAssumption DEF UserRow
    <3> QED
      BY <1>d, <2>1, <2>2, <2>4, <3>1
  <2>5. CASE Goes(t, Refused) /\ UNCHANGED <<users, since>>
    <3>1. tab' \in [Tabs -> TabState]
      BY <1>a, <2>5, TabTyped
    <3>2. AllKnown'
      BY <1>a, <2>2, <2>5, KnownStays, Free
    <3> QED
      BY <2>2, <2>5, <3>1, <3>2 DEF TypeOK
  <2> QED
    BY <1>1, <2>3, <2>4, <2>5 DEF Upsert
<1>2. ASSUME NEW e \in Emails, NEW r \in Roles, DevLogin(t, e, r) PROVE TypeOK'
  <2>1. UNCHANGED <<mailOf, jar, started, codes, troubled>>
    BY <1>2 DEF DevLogin
  <2>2. ASSUME NEW i \in DOMAIN users,
               SignsIn(t, i, [users[i] EXCEPT !.role = r], users[i].oid, FALSE)
        PROVE  TypeOK'
    <3>1. i \in Ids /\ users[i] \in UserRow
      BY DEF TypeOK
    <3>2. [users[i] EXCEPT !.role = r] \in UserRow /\ users[i].oid \in Accounts \cup {Dev}
      BY <3>1 DEF UserRow
    <3> QED
      BY <1>d, <2>1, <2>2, <3>1, <3>2
  <2>3. ASSUME NEW i \in Ids \ DOMAIN users,
               SignsIn(t, i, [oid |-> Dev, email |-> e, role |-> r], Dev, FALSE)
        PROVE  TypeOK'
    <3>1. [oid |-> Dev, email |-> e, role |-> r] \in UserRow
      BY DEF UserRow
    <3> QED
      BY <1>d, <2>1, <2>3, <3>1
  <2> QED
    BY <1>2, <2>2, <2>3 DEF DevLogin
<1>3. CASE Refresh(t)
  <2>1. jar.session \in Token
    BY <1>3 DEF Refresh, TypeOK
  <2> DEFINE entry == [step |-> "refresh", id |-> jar.session.id,
                       role |-> jar.session.role, by |-> jar.session.by]
  <2>2. entry \in TabState /\ Known(entry, 1 .. started, DOMAIN codes, DOMAIN users)
    BY <1>3, <2>1 DEF Refresh, Token, TabState, Known, TypeOK, AllKnown
  <2>3. Goes(t, entry)
    BY <1>3 DEF Refresh
  <2> HIDE DEF entry
  <2>4. tab' \in [Tabs -> TabState]
    BY <2>2, <2>3, TabTyped
  <2>5. AllKnown'
    BY <1>3, <2>2, <2>3, KnownStays DEF Refresh
  <2> QED
    BY <1>3, <2>4, <2>5 DEF Refresh, TypeOK
<1>4. CASE Reissue(t)
  <2>1. PICK state \in TabState :
           Goes(t, state) /\ Known(state, 1 .. started, DOMAIN codes, DOMAIN users)
    <3>1. CASE Goes(t, Idle)
      BY <1>b, <3>1, Free
    <3>2. CASE Goes(t, Answer(FALSE, Reissued(tab[t])))
      <4>1. tab[t].id \in DOMAIN users /\ users[tab[t].id] \in UserRow
        BY <1>4 DEF Reissue, TypeOK, AllKnown, Known
      <4>2. Reissued(tab[t]) \in Token /\ Reissued(tab[t]).id = tab[t].id
        <5>1. users[tab[t].id].role \in Roles
          BY <4>1 DEF UserRow
        <5> QED
          BY <1>4, <5>1, SignedTyped DEF Reissue, Reissued, SignedToken
      <4>3. Answer(FALSE, Reissued(tab[t])) \in TabState
        BY <4>2, AnswerTyped
      <4>4. Known(Answer(FALSE, Reissued(tab[t])), 1 .. started, DOMAIN codes, DOMAIN users)
        BY <4>1, <4>2 DEF Known, Answer
      <4> QED
        BY <3>2, <4>3, <4>4
    <3> QED
      BY <1>4, <3>1, <3>2 DEF Reissue
  <2>2. tab' \in [Tabs -> TabState]
    BY <2>1, TabTyped
  <2>3. AllKnown'
    BY <1>4, <2>1, KnownStays DEF Reissue
  <2> QED
    BY <1>4, <2>2, <2>3 DEF Reissue, TypeOK
<1>5. CASE Logout(t)
  <2>1. Answer(FALSE, NoToken) \in TabState
    BY AnswerTyped
  <2>2. tab' \in [Tabs -> TabState]
    BY <1>5, <2>1, TabTyped DEF Logout
  <2>3. AllKnown'
    BY <1>5, <2>1, KnownStays, Free DEF Logout
  <2> QED
    BY <1>5, <2>2, <2>3 DEF Logout, TypeOK
<1>6. CASE Arrive(t)
  <2>1. tab' \in [Tabs -> TabState]
    BY <1>6, <1>b, TabTyped DEF Arrive
  <2>2. jar' \in [attempt : {NoAttempt} \cup Attempts, life : 0 .. AttemptLife,
                  session : Token \cup {NoToken}]
    <3>1. 0 \in 0 .. AttemptLife
      BY SignInAssumption
    <3>2. tab[t].clears \in BOOLEAN /\ tab[t].session \in Token \cup {NoToken, Keep}
      BY <1>6 DEF Arrive
    <3> QED
      BY <1>6, <3>1, <3>2 DEF Arrive, TypeOK
  <2>3. troubled' \subseteq Tabs
    BY <1>6 DEF Arrive, TypeOK
  <2>4. AllKnown'
    <3>1. \A u \in Tabs : Known(tab'[u], 1 .. started, DOMAIN codes, DOMAIN users)
      <4>1. \A u \in Tabs : tab'[u] = IF u = t THEN Idle ELSE tab[u]
        BY <1>6 DEF Arrive, Goes, TypeOK
      <4> QED
        BY <4>1, Free DEF TypeOK, AllKnown
    <3>2. jar'.session # NoToken => jar'.session.id \in DOMAIN users
      <4>1. Known(tab[t], 1 .. started, DOMAIN codes, DOMAIN users)
        BY DEF TypeOK, AllKnown
      <4> QED
        BY <1>6, <4>1 DEF Arrive, Known, TypeOK, AllKnown
    <3> QED
      BY <1>6, <3>1, <3>2 DEF Arrive, AllKnown
  <2> QED
    BY <1>6, <2>1, <2>2, <2>3, <2>4 DEF Arrive, TypeOK
<1> QED
  BY <1>1, <1>2, <1>3, <1>4, <1>5, <1>6

\* A token that ages keeps its fields but the time it has left.
LEMMA AgedTyped ==
    ASSUME NEW k \in Token \cup {NoToken}
    PROVE  /\ Aged(k) \in Token \cup {NoToken}
           /\ Aged(k) # NoToken => /\ k \in Token
                                   /\ Aged(k).left = k.left - 1
                                   /\ Aged(k).id = k.id
                                   /\ Aged(k).role = k.role
                                   /\ Aged(k).by = k.by
<1>1. CASE k = NoToken \/ k.left = 1
  BY <1>1 DEF Aged
<1>2. CASE k # NoToken /\ k.left # 1
  <2>1. k \in Token
    BY <1>2
  <2>2. k.left - 1 \in 1 .. TokenLife
    BY <1>2, <2>1, SignInAssumption DEF Token
  <2>3. Aged(k) = [k EXCEPT !.left = k.left - 1]
    BY <1>2 DEF Aged
  <2> QED
    BY <2>1, <2>2, <2>3 DEF Token
<1> QED
  BY <1>1, <1>2

\* The steps of the directory, the operator, the clock and the process.
LEMMA WorldTyped ==
    ASSUME TypeOK,
           \/ Readdress
           \/ \E i \in Ids, r \in Roles : SetRole(i, r)
           \/ Tick
           \/ Restart
    PROVE  TypeOK'
<1>1. CASE Readdress
  BY <1>1 DEF Readdress, Directories, TypeOK, AllKnown
<1>2. ASSUME NEW i \in Ids, NEW r \in Roles, SetRole(i, r) PROVE TypeOK'
  <2>1. DOMAIN users' = DOMAIN users
    BY <1>2 DEF SetRole
  <2>2. \A j \in DOMAIN users' : users'[j] \in UserRow
    BY <1>2 DEF SetRole, TypeOK, UserRow
  <2>3. since' \in [Ids -> [Roles -> 0 .. Never]]
    BY <1>2, SignInAssumption DEF SetRole, TypeOK, Never
  <2> QED
    BY <1>2, <2>1, <2>2, <2>3 DEF SetRole, TypeOK, AllKnown
<1>3. CASE Tick
  <2>1. jar' \in [attempt : {NoAttempt} \cup Attempts, life : 0 .. AttemptLife,
                  session : Token \cup {NoToken}]
    <3>1. (IF jar.life > 0 THEN jar.life - 1 ELSE 0) \in 0 .. AttemptLife
      BY SignInAssumption DEF TypeOK
    <3>2. Aged(jar.session) \in Token \cup {NoToken}
      BY AgedTyped DEF TypeOK
    <3>3. jar.attempt \in {NoAttempt} \cup Attempts
      BY DEF TypeOK
    <3>4. PICK n \in {jar.attempt, NoAttempt} :
             jar' = [attempt |-> n, life |-> IF jar.life > 0 THEN jar.life - 1 ELSE 0,
                     session |-> Aged(jar.session)]
      BY <1>3 DEF Tick
    <3> QED
      BY <3>1, <3>2, <3>3, <3>4
  <2>2. since' \in [Ids -> [Roles -> 0 .. Never]]
    <3> DEFINE next(i, r) == IF i \in DOMAIN users /\ users[i].role = r THEN 0
                             ELSE IF since[i][r] = Never THEN Never ELSE since[i][r] + 1
    <3>1. since' = [i \in Ids |-> [r \in Roles |-> next(i, r)]]
      BY <1>3 DEF Tick
    <3>2. ASSUME NEW i \in Ids, NEW r \in Roles PROVE next(i, r) \in 0 .. Never
      <4>1. since[i][r] \in 0 .. Never
        BY DEF TypeOK
      <4> QED
        BY <4>1, SignInAssumption DEF Never
    <3> HIDE DEF next
    <3> QED
      BY <3>1, <3>2
  <2>3. troubled' \subseteq Tabs
    BY <1>3 DEF Tick, TypeOK
  <2>4. AllKnown'
    <3>1. jar'.session = Aged(jar.session)
      BY <1>3 DEF Tick
    <3>2. jar'.session # NoToken => jar'.session.id \in DOMAIN users
      <4>1. jar.session \in Token \cup {NoToken}
        BY DEF TypeOK
      <4>2. Aged(jar.session) # NoToken => jar.session # NoToken
        BY DEF Aged
      <4>3. Aged(jar.session) # NoToken => Aged(jar.session).id = jar.session.id
        BY <4>1, AgedTyped
      <4> QED
        BY <3>1, <4>2, <4>3 DEF TypeOK, AllKnown
    <3> QED
      BY <1>3, <3>2 DEF Tick, TypeOK, AllKnown
  <2> QED
    BY <1>3, <2>1, <2>2, <2>3, <2>4 DEF Tick, TypeOK
<1>4. CASE Restart
  <2>1. \A t \in Tabs : tab'[t] \in {tab[t], Idle}
    BY <1>4 DEF Restart
  <2>2. tab' \in [Tabs -> TabState]
    BY <1>4, <2>1 DEF Restart, TypeOK, TabState
  <2>3. AllKnown'
    BY <1>4, <2>1, Free DEF Restart, TypeOK, AllKnown
  <2>4. troubled' \subseteq Tabs
    BY <1>4 DEF Restart, TypeOK
  <2> QED
    BY <1>4, <2>2, <2>3, <2>4 DEF Restart, TypeOK
<1> QED
  BY <1>1, <1>2, <1>3, <1>4

\* Every step keeps the types.
LEMMA TypeNext == TypeOK /\ [Next]_vars => TypeOK'
<1> SUFFICES ASSUME TypeOK, [Next]_vars PROVE TypeOK'
  OBVIOUS
<1>1. CASE Next
  BY <1>1, AttemptTyped, AccountTyped, WorldTyped DEF Next
<1>2. CASE UNCHANGED vars
  BY <1>2 DEF vars, TypeOK, AllKnown
<1> QED
  BY <1>1, <1>2

\* The User table, the cookies and every request keep their types, and what
\* a request or a token refers to exists: for any number of tabs, accounts
\* and rows.
THEOREM TypeCorrect == Spec => []TypeOK
<1>1. Init => TypeOK
  BY TypeInit
<1>2. TypeOK /\ [Next]_vars => TypeOK'
  BY TypeNext
<1> QED
  BY <1>1, <1>2, PTL DEF Spec

-------------------------------------------------------------------------------
(* What a step does to rows and tokens *)

\* An entry that carries a token to the browser.
Carries(entry) == entry.step = "answer" /\ entry.session \notin {NoToken, Keep}

\* No step takes a row away or gives it to another account.
LEMMA RowsKeepOwner ==
    ASSUME TypeOK, [Next]_vars, NEW i \in DOMAIN users
    PROVE  i \in DOMAIN users' /\ users'[i].oid = users[i].oid
<1>1. ASSUME NEW t \in Tabs, Upsert(t)
      PROVE  i \in DOMAIN users' /\ users'[i].oid = users[i].oid
  <2>1. ASSUME NEW j \in DOMAIN users,
               SignsIn(t, j, [users[j] EXCEPT !.email = tab[t].email], tab[t].who, TRUE)
        PROVE  i \in DOMAIN users' /\ users'[i].oid = users[i].oid
    BY <2>1 DEF SignsIn, TypeOK, UserRow
  <2>2. ASSUME NEW j \in Ids \ DOMAIN users, NEW row \in UserRow, NEW by,
               SignsIn(t, j, row, by, TRUE)
        PROVE  i \in DOMAIN users' /\ users'[i].oid = users[i].oid
    BY <2>2 DEF SignsIn
  <2>3. tab[t].who \in Accounts /\ tab[t].email \in Emails
    BY <1>1, Shapes DEF Upsert
  <2>4. [oid |-> tab[t].who, email |-> tab[t].email, role |-> Student] \in UserRow
    BY <2>3, SignInAssumption DEF UserRow
  <2> QED
    BY <1>1, <2>1, <2>2, <2>4 DEF Upsert, RowOf
<1>2. ASSUME NEW t \in Tabs, NEW e \in Emails, NEW r \in Roles, DevLogin(t, e, r)
      PROVE  i \in DOMAIN users' /\ users'[i].oid = users[i].oid
  <2>1. ASSUME NEW j \in DOMAIN users,
               SignsIn(t, j, [users[j] EXCEPT !.role = r], users[j].oid, FALSE)
        PROVE  i \in DOMAIN users' /\ users'[i].oid = users[i].oid
    BY <2>1 DEF SignsIn, TypeOK, UserRow
  <2>2. ASSUME NEW j \in Ids \ DOMAIN users,
               SignsIn(t, j, [oid |-> Dev, email |-> e, role |-> r], Dev, FALSE)
        PROVE  i \in DOMAIN users' /\ users'[i].oid = users[i].oid
    BY <2>2 DEF SignsIn
  <2> QED
    BY <1>2, <2>1, <2>2 DEF DevLogin
<1>3. ASSUME NEW j \in Ids, NEW r \in Roles, SetRole(j, r)
      PROVE  i \in DOMAIN users' /\ users'[i].oid = users[i].oid
  BY <1>3 DEF SetRole, TypeOK, UserRow
<1>4. CASE UNCHANGED users
  BY <1>4
<1> QED
  BY <1>1, <1>2, <1>3, <1>4 DEF Next, vars, Login, GoToMicrosoft, Authorise, GiveUp, Revisit,
     Callback, Refresh, Reissue, Logout, Arrive, Readdress, Tick, Restart

\* A token on its way to the browser was there before, or it has just been
\* signed: with the row's role of now, for the row's owner or, on refresh,
\* for the owner the old token names.  A refresh starts from the session.
TokenOrigin(u) ==
    /\ Carries(tab'[u]) =>
          \/ tab'[u] = tab[u]
          \/ LET k == tab'[u].session IN
                /\ k.left = TokenLife
                /\ k.role = users'[k.id].role
                /\ \/ k.by = users'[k.id].oid
                   \/ tab[u].step = "refresh" /\ k.id = tab[u].id /\ k.by = tab[u].by
    /\ tab'[u].step = "refresh" =>
          \/ tab'[u] = tab[u]
          \/ jar.session # NoToken /\ tab'[u].id = jar.session.id /\ tab'[u].by = jar.session.by

LEMMA TokensComeFrom ==
    ASSUME TypeOK, [Next]_vars, NEW u \in Tabs
    PROVE  TokenOrigin(u)
<1>1. ASSUME NEW t \in Tabs, NEW state, Goes(t, state),
             ~ Carries(state), state.step # "refresh"
      PROVE  TokenOrigin(u)
  BY <1>1 DEF Goes, TypeOK, TokenOrigin
<1>2. ~ Carries(Idle) /\ Idle.step # "refresh"
  BY DEF Idle, Carries
<1>3. ~ Carries(Refused) /\ Refused.step # "refresh"
  BY DEF Refused, Answer, Carries
<1>4. ASSUME NEW t \in Tabs, NEW id \in Ids, NEW row, NEW clears,
             SignsIn(t, id, row, row.oid, clears)
      PROVE  TokenOrigin(u)
  <2>1. id \in DOMAIN users' /\ users'[id] = row
    BY <1>4 DEF SignsIn
  <2>2. CASE u = t
    <3>1. tab'[u] = Answer(clears, SignedToken(id, row.role, row.oid))
      BY <1>4, <2>2 DEF SignsIn, Goes, TypeOK
    <3> QED
      BY <2>1, <3>1 DEF Answer, SignedToken, TokenOrigin, Carries
  <2>3. CASE u # t
    BY <1>4, <2>3 DEF SignsIn, Goes, TypeOK, TokenOrigin
  <2> QED
    BY <2>2, <2>3
<1>5. ASSUME NEW t \in Tabs, Upsert(t) PROVE TokenOrigin(u)
  <2> DEFINE who == tab[t].who
             email == tab[t].email
  <2>1. ASSUME NEW i \in RowOf(who, email),
               SignsIn(t, i, [users[i] EXCEPT !.email = email], who, TRUE)
        PROVE  TokenOrigin(u)
    <3>1. i \in Ids /\ users[i] \in UserRow /\ users[i].oid = who
      BY DEF RowOf, TypeOK
    <3>2. [users[i] EXCEPT !.email = email].oid = who
      BY <3>1 DEF UserRow
    <3> QED
      BY <1>4, <2>1, <3>1, <3>2
  <2>2. ASSUME NEW i \in Ids \ DOMAIN users,
               SignsIn(t, i, [oid |-> who, email |-> email, role |-> Student], who, TRUE)
        PROVE  TokenOrigin(u)
    <3> DEFINE row == [oid |-> who, email |-> email, role |-> Student]
    <3>1. row.oid = who /\ SignsIn(t, i, row, who, TRUE)
      BY <2>2
    <3> HIDE DEF row
    <3> QED
      BY <1>4, <3>1
  <2> QED
    BY <1>1, <1>3, <1>5, <2>1, <2>2 DEF Upsert
<1>6. ASSUME NEW t \in Tabs, NEW e \in Emails, NEW r \in Roles, DevLogin(t, e, r)
      PROVE  TokenOrigin(u)
  <2>1. ASSUME NEW i \in DOMAIN users,
               SignsIn(t, i, [users[i] EXCEPT !.role = r], users[i].oid, FALSE)
        PROVE  TokenOrigin(u)
    <3>1. i \in Ids /\ users[i] \in UserRow
      BY DEF TypeOK
    <3>2. [users[i] EXCEPT !.role = r].oid = users[i].oid
      BY <3>1 DEF UserRow
    <3> QED
      BY <1>4, <2>1, <3>1, <3>2
  <2>2. ASSUME NEW i \in Ids \ DOMAIN users,
               SignsIn(t, i, [oid |-> Dev, email |-> e, role |-> r], Dev, FALSE)
        PROVE  TokenOrigin(u)
    <3> DEFINE row == [oid |-> Dev, email |-> e, role |-> r]
    <3>1. row.oid = Dev /\ SignsIn(t, i, row, Dev, FALSE)
      BY <2>2
    <3> HIDE DEF row
    <3> QED
      BY <1>4, <3>1
  <2> QED
    BY <1>6, <2>1, <2>2 DEF DevLogin
<1>7. ASSUME NEW t \in Tabs, Refresh(t) PROVE TokenOrigin(u)
  BY <1>7 DEF Refresh, Goes, TypeOK, TokenOrigin, Carries
<1>8. ASSUME NEW t \in Tabs, Reissue(t) PROVE TokenOrigin(u)
  <2>1. CASE Goes(t, Idle)
    BY <1>1, <1>2, <2>1
  <2>2. CASE Goes(t, Answer(FALSE, Reissued(tab[t])))
    <3>1. tab[t].step = "refresh" /\ users' = users
      BY <1>8 DEF Reissue
    <3> QED
      BY <2>2, <3>1 DEF Goes, Answer, Reissued, SignedToken, TypeOK, TokenOrigin, Carries
  <2> QED
    BY <1>8, <2>1, <2>2 DEF Reissue
<1>9. CASE \E t \in Tabs : \/ Login(t) \/ GoToMicrosoft(t) \/ Revisit(t) \/ Logout(t)
                          \/ \E a \in Accounts : Authorise(t, a)
  BY <1>9 DEF Login, GoToMicrosoft, Revisit, Logout, Authorise, Answer, Goes, TypeOK,
              TokenOrigin, Carries
<1>10. ASSUME NEW t \in Tabs, Callback(t) PROVE TokenOrigin(u)
  BY <1>1, <1>3, <1>10 DEF Callback, Carries
<1>11. ASSUME NEW t \in Tabs, GiveUp(t) \/ Arrive(t) PROVE TokenOrigin(u)
  BY <1>1, <1>2, <1>11 DEF GiveUp, Arrive
<1>12. CASE Restart
  BY <1>2, <1>12 DEF Restart, TokenOrigin, TypeOK
<1>13. CASE UNCHANGED tab
  BY <1>13 DEF TokenOrigin
<1> QED
  BY <1>5, <1>6, <1>7, <1>8, <1>9, <1>10, <1>11, <1>12, <1>13
     DEF Next, vars, Readdress, SetRole, Tick

\* The session cookie comes from an answer, or it ages.
LEMMA SessionComesFrom ==
    ASSUME TypeOK, [Next]_vars, jar'.session # NoToken
    PROVE  \/ jar'.session = jar.session /\ ~ Tick
           \/ \E t \in Tabs : Carries(tab[t]) /\ jar'.session = tab[t].session /\ ~ Tick
           \/ jar'.session = Aged(jar.session) /\ Tick
           \/ UNCHANGED vars
<1>1. CASE Tick
  BY <1>1 DEF Tick
<1>2. ASSUME NEW t \in Tabs, Arrive(t), ~ Tick
      PROVE  \/ jar'.session = jar.session
             \/ Carries(tab[t]) /\ jar'.session = tab[t].session
  BY <1>2 DEF Arrive, Carries
<1>3. ASSUME NEW t \in Tabs, GoToMicrosoft(t)
      PROVE  jar'.session = jar.session
  BY <1>3 DEF GoToMicrosoft, Stored, TypeOK
<1> QED
  BY <1>1, <1>2, <1>3 DEF Next, Login, Authorise, GiveUp, Revisit, Callback, Upsert, DevLogin,
     Refresh, Reissue, Logout, Readdress, SetRole, Restart

-------------------------------------------------------------------------------
(* A session stays its owner's *)

\* The inductive invariant: it speaks of the refreshes under way as well,
\* which hold the owner's name until they sign it again.
OwnersOK ==
    /\ jar.session # NoToken => users[jar.session.id].oid = jar.session.by
    /\ \A t \in Tabs :
          /\ Carries(tab[t]) => users[tab[t].session.id].oid = tab[t].session.by
          /\ tab[t].step = "refresh" => users[tab[t].id].oid = tab[t].by

LEMMA OwnersNext == TypeOK /\ OwnersOK /\ [Next]_vars => OwnersOK'
<1> SUFFICES ASSUME TypeOK, OwnersOK, [Next]_vars PROVE OwnersOK'
  OBVIOUS
<1>1. \A i \in DOMAIN users : i \in DOMAIN users' /\ users'[i].oid = users[i].oid
  BY RowsKeepOwner
<1>2. ASSUME NEW u \in Tabs
      PROVE  /\ Carries(tab[u]) => tab[u].session.id \in DOMAIN users
             /\ tab[u].step = "refresh" => tab[u].id \in DOMAIN users
  BY DEF TypeOK, AllKnown, Known, Carries
<1>3. jar.session # NoToken => jar.session.id \in DOMAIN users
  BY DEF TypeOK, AllKnown
<1>4. jar'.session # NoToken => users'[jar'.session.id].oid = jar'.session.by
  <2> SUFFICES ASSUME jar'.session # NoToken
               PROVE  users'[jar'.session.id].oid = jar'.session.by
    OBVIOUS
  <2>1. CASE jar'.session = jar.session
    BY <1>1, <1>3, <2>1 DEF OwnersOK
  <2>2. CASE \E t \in Tabs : Carries(tab[t]) /\ jar'.session = tab[t].session
    BY <1>1, <1>2, <2>2 DEF OwnersOK
  <2>3. CASE jar'.session = Aged(jar.session)
    <3>1. jar.session \in Token \cup {NoToken}
      BY DEF TypeOK
    <3>2. jar'.session.id = jar.session.id /\ jar'.session.by = jar.session.by
      BY <2>3, <3>1, AgedTyped
    <3>3. jar.session # NoToken
      BY <2>3 DEF Aged
    <3> QED
      BY <1>1, <1>3, <3>2, <3>3 DEF OwnersOK
  <2>4. CASE UNCHANGED vars
    BY <2>4 DEF vars, OwnersOK
  <2> QED
    BY <2>1, <2>2, <2>3, <2>4, SessionComesFrom
<1>5. ASSUME NEW u \in Tabs
      PROVE  /\ Carries(tab'[u]) => users'[tab'[u].session.id].oid = tab'[u].session.by
             /\ tab'[u].step = "refresh" => users'[tab'[u].id].oid = tab'[u].by
  <2>1. TokenOrigin(u)
    BY TokensComeFrom
  <2> QED
    BY <1>1, <1>2, <1>3, <2>1 DEF OwnersOK, TokenOrigin
<1> QED
  BY <1>4, <1>5 DEF OwnersOK, Carries

\* Whatever is renamed, upserted or refreshed meanwhile, the token in the
\* browser names the row of the account that signed in.
THEOREM SessionsStay == Spec => []SessionIsItsOwners
<1>1. Init => OwnersOK
  BY DEF Init, OwnersOK, Carries, Idle
<1>2. TypeOK /\ OwnersOK => SessionIsItsOwners
  BY DEF OwnersOK, SessionIsItsOwners, Tokens, Carries
<1> QED
  BY <1>1, <1>2, OwnersNext, TypeCorrect, PTL DEF Spec

-------------------------------------------------------------------------------
(* A role that was taken away fades *)

\* The inductive invariant: the role in the table is held now, and no token
\* is older than the loss of its role.
RolesOK ==
    /\ \A i \in DOMAIN users : since[i][users[i].role] = 0
    /\ jar.session # NoToken =>
          since[jar.session.id][jar.session.role] <= TokenLife - jar.session.left
    /\ \A t \in Tabs : Carries(tab[t]) =>
          since[tab[t].session.id][tab[t].session.role] <= TokenLife - tab[t].session.left

\* Only the clock moves a role further into the past, and by one tick.
LEMMA SinceMoves ==
    ASSUME TypeOK, [Next]_vars, NEW i \in Ids, NEW r \in Roles
    PROVE  /\ ~ Tick => since'[i][r] \in {since[i][r], 0}
           /\ Tick => since'[i][r] \in {0, Never, since[i][r] + 1}
           /\ Tick /\ since[i][r] # Never => since'[i][r] \in {0, since[i][r] + 1}
<1>1. ASSUME NEW t \in Tabs, NEW j \in Ids, NEW row, NEW by, NEW clears,
             SignsIn(t, j, row, by, clears)
      PROVE  since'[i][r] \in {since[i][r], 0}
  BY <1>1 DEF SignsIn, TypeOK
<1>2. ASSUME NEW t \in Tabs, Upsert(t) PROVE since'[i][r] \in {since[i][r], 0}
  BY <1>1, <1>2 DEF Upsert, RowOf, TypeOK
<1>3. ASSUME NEW t \in Tabs, NEW e \in Emails, NEW q \in Roles, DevLogin(t, e, q)
      PROVE  since'[i][r] \in {since[i][r], 0}
  BY <1>1, <1>3 DEF DevLogin, TypeOK
<1>4. ASSUME NEW j \in Ids, NEW q \in Roles, SetRole(j, q)
      PROVE  since'[i][r] \in {since[i][r], 0}
  BY <1>4 DEF SetRole, TypeOK
<1>5. CASE Tick
  BY <1>5 DEF Tick
<1> QED
  BY <1>2, <1>3, <1>4, <1>5 DEF Next, vars, Login, GoToMicrosoft, Authorise, GiveUp, Revisit,
     Callback, Refresh, Reissue, Logout, Arrive, Readdress, Restart

\* A role given to a row is held from that step on.
LEMMA HeldNow ==
    ASSUME TypeOK, RolesOK, [Next]_vars, NEW i \in DOMAIN users'
    PROVE  since'[i][users'[i].role] = 0
<1>1. ASSUME NEW t \in Tabs, NEW j \in Ids, NEW row \in UserRow, NEW by, NEW clears,
             SignsIn(t, j, row, by, clears)
      PROVE  since'[i][users'[i].role] = 0
  <2>1. row.role \in Roles
    BY DEF UserRow
  <2>2. CASE i = j
    BY <1>1, <2>1, <2>2 DEF SignsIn, TypeOK
  <2>3. CASE i # j
    <3>1. i \in DOMAIN users /\ users'[i] = users[i] /\ since'[i] = since[i]
      BY <1>1, <2>3 DEF SignsIn, TypeOK
    <3> QED
      BY <3>1 DEF RolesOK
  <2> QED
    BY <2>2, <2>3
<1>2. ASSUME NEW t \in Tabs, Upsert(t) PROVE since'[i][users'[i].role] = 0
  <2>1. tab[t].who \in Accounts /\ tab[t].email \in Emails
    BY <1>2, Shapes DEF Upsert
  <2>2. [oid |-> tab[t].who, email |-> tab[t].email, role |-> Student] \in UserRow
    BY <2>1, SignInAssumption DEF UserRow
  <2>3. \A j \in DOMAIN users : j \in Ids /\ [users[j] EXCEPT !.email = tab[t].email] \in UserRow
    BY <2>1 DEF TypeOK, UserRow
  <2>4. CASE UNCHANGED <<users, since>>
    BY <2>4 DEF RolesOK
  <2> QED
    BY <1>1, <1>2, <2>2, <2>3, <2>4 DEF Upsert, RowOf
<1>3. ASSUME NEW t \in Tabs, NEW e \in Emails, NEW q \in Roles, DevLogin(t, e, q)
      PROVE  since'[i][users'[i].role] = 0
  <2>1. [oid |-> Dev, email |-> e, role |-> q] \in UserRow
    BY DEF UserRow
  <2>2. \A j \in DOMAIN users : j \in Ids /\ [users[j] EXCEPT !.role = q] \in UserRow
    BY DEF TypeOK, UserRow
  <2> QED
    BY <1>1, <1>3, <2>1, <2>2 DEF DevLogin
<1>4. ASSUME NEW j \in Ids, NEW q \in Roles, SetRole(j, q)
      PROVE  since'[i][users'[i].role] = 0
  <2>1. i \in DOMAIN users /\ j \in DOMAIN users
    BY <1>4 DEF SetRole
  <2>2. CASE i = j
    BY <1>4, <2>1, <2>2 DEF SetRole, TypeOK, UserRow
  <2>3. CASE i # j
    BY <1>4, <2>1, <2>3 DEF SetRole, TypeOK, RolesOK
  <2> QED
    BY <2>2, <2>3
<1>5. CASE Tick
  BY <1>5 DEF Tick, TypeOK, UserRow
<1>6. CASE UNCHANGED <<users, since>>
  BY <1>6 DEF RolesOK
<1> QED
  BY <1>2, <1>3, <1>4, <1>5, <1>6 DEF Next, vars, Login, GoToMicrosoft, Authorise, GiveUp,
     Revisit, Callback, Refresh, Reissue, Logout, Arrive, Readdress, Restart

\* A recent token stays recent as long as the clock stands still.
LEMMA StaysRecent ==
    ASSUME TypeOK, [Next]_vars, ~ Tick, NEW k \in Token,
           since[k.id][k.role] <= TokenLife - k.left
    PROVE  since'[k.id][k.role] <= TokenLife - k.left
<1>1. k.id \in Ids /\ k.role \in Roles /\ k.left \in 1 .. TokenLife
  BY DEF Token
<1>2. since'[k.id][k.role] \in {since[k.id][k.role], 0}
  BY <1>1, SinceMoves
<1> QED
  BY <1>1, <1>2, SignInAssumption

LEMMA RolesNext == TypeOK /\ RolesOK /\ [Next]_vars => RolesOK'
<1> SUFFICES ASSUME TypeOK, RolesOK, [Next]_vars PROVE RolesOK'
  OBVIOUS
<1>1. TypeOK'
  BY TypeNext
<1>2. \A i \in DOMAIN users' : since'[i][users'[i].role] = 0
  BY HeldNow
<1>3. \A t \in Tabs : Carries(tab[t]) => tab[t].session \in Token
  BY Shapes DEF Carries
<1>4. ASSUME jar'.session # NoToken
      PROVE  since'[jar'.session.id][jar'.session.role] <= TokenLife - jar'.session.left
  <2>1. CASE jar'.session = jar.session /\ ~ Tick
    BY <1>4, <2>1, StaysRecent DEF RolesOK, TypeOK
  <2>2. CASE \E t \in Tabs : Carries(tab[t]) /\ jar'.session = tab[t].session /\ ~ Tick
    BY <1>3, <2>2, StaysRecent DEF RolesOK
  <2>3. CASE jar'.session = Aged(jar.session) /\ Tick
    <3> DEFINE k == jar.session
    <3>1. /\ k \in Token
          /\ jar'.session.left = k.left - 1
          /\ jar'.session.id = k.id
          /\ jar'.session.role = k.role
      BY <1>4, <2>3, AgedTyped DEF TypeOK
    <3>2. k.id \in Ids /\ k.role \in Roles /\ k.left \in 1 .. TokenLife
      BY <3>1 DEF Token
    <3>3. since[k.id][k.role] <= TokenLife - k.left
      BY <1>4, <2>3 DEF RolesOK, Aged
    <3>4. since[k.id][k.role] \in Nat
      BY <3>2, SignInAssumption DEF TypeOK, Never
    <3>5. since[k.id][k.role] # Never
      BY <3>2, <3>3, <3>4, SignInAssumption DEF Never
    <3>6. since'[k.id][k.role] \in {0, since[k.id][k.role] + 1}
      BY <2>3, <3>2, <3>5, SinceMoves
    <3> QED
      BY <3>1, <3>2, <3>3, <3>4, <3>6, SignInAssumption
  <2>4. CASE UNCHANGED vars
    BY <1>4, <2>4 DEF vars, RolesOK
  <2> QED
    BY <1>4, <2>1, <2>2, <2>3, <2>4, SessionComesFrom
<1>5. ASSUME NEW u \in Tabs, Carries(tab'[u])
      PROVE  since'[tab'[u].session.id][tab'[u].session.role] <= TokenLife - tab'[u].session.left
  <2> DEFINE k == tab'[u].session
  <2>1. TokenOrigin(u)
    BY TokensComeFrom
  <2>2. CASE tab'[u] = tab[u]
    <3>1. CASE Tick
      BY <1>5, <2>2, <3>1 DEF Tick, Carries
    <3>2. CASE ~ Tick
      BY <1>3, <1>5, <2>2, <3>2, StaysRecent DEF RolesOK
    <3> QED
      BY <3>1, <3>2
  <2>3. CASE k.left = TokenLife /\ k.role = users'[k.id].role
    <3>1. k.id \in DOMAIN users'
      BY <1>1, <1>5 DEF TypeOK, AllKnown, Known, Carries
    <3>2. since'[k.id][k.role] = 0
      BY <1>2, <2>3, <3>1
    <3> QED
      BY <2>3, <3>2, SignInAssumption
  <2> QED
    BY <1>5, <2>1, <2>2, <2>3 DEF TokenOrigin
<1> QED
  BY <1>2, <1>4, <1>5 DEF RolesOK, Carries

\* A role taken from a row is gone from every token one token life later,
\* refreshes included.
THEOREM RolesFade == Spec => []RoleIsRecent
<1>1. Init => RolesOK
  <2> SUFFICES ASSUME Init PROVE RolesOK
    OBVIOUS
  <2>1. DOMAIN users = {}
    BY DEF Init
  <2> QED
    BY <2>1 DEF Init, RolesOK, Carries, Idle
<1>2. TypeOK /\ RolesOK => RoleIsRecent
  BY DEF RolesOK, RoleIsRecent, Tokens, Carries
<1> QED
  BY <1>1, <1>2, RolesNext, TypeCorrect, PTL DEF Spec
-------------------------------------------------------------------------------
(* A sign-in nothing crosses passes *)

\* Two tabs that sign in at a time are both troubled, and a tab at Microsoft
\* that is not has its own attempt in the cookies.
Apart == \A t, o \in Tabs : t # o /\ SigningIn(t) /\ SigningIn(o) => t \in troubled
OwnCookies ==
    \A t \in Tabs : tab[t].step = "microsoft" /\ t \notin troubled => jar.attempt = tab[t].attempt

UncrossedOK == Apart /\ OwnCookies /\ UncrossedSignInPasses

\* A tab goes on, or ends what it began: the others are left as they were.
LEMMA OneMoves ==
    ASSUME TypeOK, UncrossedOK, NEW t \in Tabs, NEW state, Goes(t, state),
           troubled' \in {troubled, troubled \ {t}},
           SigningIn(t)' => SigningIn(t) /\ troubled' = troubled,
           jar'.attempt = jar.attempt \/ SigningIn(t),
           state.step = "microsoft" => jar'.attempt = state.attempt,
           state.step = "callback" /\ t \notin troubled => state.sent = state.attempt
    PROVE  UncrossedOK'
<1>1. \A o \in Tabs : tab'[o] = IF o = t THEN state ELSE tab[o]
  BY DEF Goes, TypeOK
<1>2. \A o \in Tabs : o # t => (SigningIn(o)' <=> SigningIn(o)) /\ (o \in troubled' <=> o \in troubled)
  BY <1>1 DEF SigningIn
<1>3. Apart'
  BY <1>2 DEF UncrossedOK, Apart
<1>4. OwnCookies'
  BY <1>1, <1>2 DEF UncrossedOK, Apart, OwnCookies, SigningIn
<1>5. UncrossedSignInPasses'
  <2>1. state.step = "callback" => SigningIn(t)'
    BY <1>1 DEF SigningIn
  <2>2. QED BY <1>1, <1>2, <2>1 DEF UncrossedOK, UncrossedSignInPasses
<1>6. QED BY <1>3, <1>4, <1>5 DEF UncrossedOK

\* A tab begins: it and whoever is signing in are troubled from now on.
LEMMA OneBegins ==
    ASSUME TypeOK, UncrossedOK, NEW t \in Tabs, NEW state, Goes(t, state), jar' = jar,
           troubled \subseteq troubled',
           \A o \in Tabs \ {t} : SigningIn(o) => o \in troubled' /\ t \in troubled',
           state.step # "microsoft", state.step = "callback" => t \in troubled'
    PROVE  UncrossedOK'
<1>1. \A o \in Tabs : tab'[o] = IF o = t THEN state ELSE tab[o]
  BY DEF Goes, TypeOK
<1>2. \A o \in Tabs : o # t => (SigningIn(o)' <=> SigningIn(o))
  BY <1>1 DEF SigningIn
<1>3. QED
  BY <1>1, <1>2 DEF UncrossedOK, Apart, OwnCookies, UncrossedSignInPasses

LEMMA UncrossedNext == TypeOK /\ UncrossedOK /\ [Next]_vars => UncrossedOK'
<1> SUFFICES ASSUME TypeOK, UncrossedOK, [Next]_vars PROVE UncrossedOK'
  OBVIOUS
<1> USE DEF TypeOK, Goes
<1>0. ASSUME NEW t \in Tabs, NEW state, tab' = [tab EXCEPT ![t] = state]
      PROVE  /\ tab'[t] = state
             /\ SigningIn(t)' => \/ state.step \in {"login", "microsoft", "callback", "upsert"}
                                 \/ state.step = "answer" /\ state.clears
  BY <1>0 DEF SigningIn
<1>1. ASSUME NEW t \in Tabs, Login(t) PROVE UncrossedOK'
  <2> DEFINE state == [step |-> "login", attempt |-> started + 1]
  <2>1. Goes(t, state) /\ state.step = "login" /\ jar' = jar
    BY <1>1 DEF Login
  <2>2. troubled \subseteq troubled'
        /\ \A o \in Tabs \ {t} : SigningIn(o) => o \in troubled' /\ t \in troubled'
    BY <1>1 DEF Login, Crosses
  <2> HIDE DEF state
  <2>3. QED BY <2>1, <2>2, OneBegins
<1>2. ASSUME NEW t \in Tabs, Revisit(t) PROVE UncrossedOK'
  <2>1. PICK n \in DOMAIN codes :
           Goes(t, [step |-> "callback", attempt |-> n, sent |-> jar.attempt])
    BY <1>2 DEF Revisit
  <2> DEFINE state == [step |-> "callback", attempt |-> n, sent |-> jar.attempt]
  <2>2. Goes(t, state) /\ state.step = "callback"
    BY <2>1
  <2>3. jar' = jar /\ t \in troubled' /\ troubled \subseteq troubled'
        /\ \A o \in Tabs : SigningIn(o) => o \in troubled'
    BY <1>2 DEF Revisit
  <2> HIDE DEF state
  <2>4. QED BY <2>2, <2>3, OneBegins
<1>3. ASSUME NEW t \in Tabs, GoToMicrosoft(t) PROVE UncrossedOK'
  <2>1. jar'.attempt = tab[t].attempt /\ SigningIn(t) /\ troubled' = troubled
    BY <1>3 DEF GoToMicrosoft, Stored, SigningIn
  <2>2. QED BY <1>3, <2>1, OneMoves DEF GoToMicrosoft
<1>4. ASSUME NEW t \in Tabs, NEW a \in Accounts, Authorise(t, a) PROVE UncrossedOK'
  <2>1. t \notin troubled => jar.attempt = tab[t].attempt
    BY <1>4 DEF Authorise, UncrossedOK, OwnCookies
  <2>2. SigningIn(t) /\ jar' = jar /\ troubled' = troubled
    BY <1>4 DEF Authorise, SigningIn
  <2>3. QED BY <1>4, <2>1, <2>2, OneMoves DEF Authorise
<1>5. ASSUME NEW t \in Tabs, NEW state, Goes(t, state), jar' = jar,
             troubled' \in {troubled, troubled \ {t}},
             state.step \notin {"login", "microsoft", "callback", "upsert"},
             ~ (state.step = "answer" /\ state.clears)
      PROVE  UncrossedOK'
  BY <1>0, <1>5, OneMoves
<1>6. Idle.step = "idle"
  BY DEF Idle
<1>7. ASSUME NEW t \in Tabs, GiveUp(t) PROVE UncrossedOK'
  BY <1>5, <1>6, <1>7 DEF GiveUp
<1>8. ASSUME NEW t \in Tabs, Callback(t) \/ Upsert(t) PROVE UncrossedOK'
  <2>1. SigningIn(t) /\ jar' = jar /\ troubled' = troubled
    BY <1>8 DEF Callback, Upsert, SigningIn
  <2>2. PICK state : Goes(t, state) /\ state.step \in {"upsert", "answer"}
    <3>1. \A k, c : Answer(c, k).step = "answer"
      BY DEF Answer
    <3>2. CASE Callback(t)
      <4>1. (\E s : Goes(t, s) /\ s.step = "upsert") \/ Goes(t, Refused)
        BY <1>8, <3>2 DEF Callback
      <4>2. QED BY <3>1, <4>1 DEF Refused
    <3>3. CASE Upsert(t)
      <4>1. Goes(t, Refused) \/ \E k : Goes(t, Answer(TRUE, k))
        BY <1>8, <3>3 DEF Upsert, SignsIn
      <4>2. QED BY <3>1, <4>1 DEF Refused
    <3>4. QED BY <1>8, <3>2, <3>3
  <2>3. QED BY <2>1, <2>2, OneMoves
<1>9. ASSUME NEW t \in Tabs, NEW e \in Emails, NEW r \in Roles, DevLogin(t, e, r)
      PROVE  UncrossedOK'
  <2>1. PICK k : Goes(t, Answer(FALSE, k))
    BY <1>9 DEF DevLogin, SignsIn
  <2>2. Answer(FALSE, k).step = "answer" /\ ~ Answer(FALSE, k).clears
    BY DEF Answer
  <2>3. QED BY <1>5, <1>9, <2>1, <2>2 DEF DevLogin
<1>10. ASSUME NEW t \in Tabs, Refresh(t) PROVE UncrossedOK'
  BY <1>5, <1>10 DEF Refresh
<1>11. ASSUME NEW t \in Tabs, Reissue(t) \/ Logout(t) PROVE UncrossedOK'
  <2>1. jar' = jar /\ troubled' = troubled
        /\ (Goes(t, Idle) \/ \E k : Goes(t, Answer(FALSE, k)))
    BY <1>11 DEF Reissue, Logout
  <2>2. \A k : Answer(FALSE, k).step = "answer" /\ ~ Answer(FALSE, k).clears
    BY DEF Answer
  <2>3. QED BY <1>5, <1>6, <2>1, <2>2
<1>12. ASSUME NEW t \in Tabs, Arrive(t) PROVE UncrossedOK'
  <2>1. Goes(t, Idle) /\ troubled' = troubled \ {t}
    BY <1>12 DEF Arrive
  <2>2. ~ SigningIn(t)'
    BY <1>0, <1>6, <2>1
  <2>3. jar'.attempt = jar.attempt \/ SigningIn(t)
    BY <1>12 DEF Arrive, SigningIn
  <2>4. QED BY <1>6, <2>1, <2>2, <2>3, OneMoves
<1>13. CASE Readdress \/ \E i \in Ids, r \in Roles : SetRole(i, r)
  BY <1>13 DEF Readdress, SetRole, UncrossedOK, Apart, OwnCookies, SigningIn,
     UncrossedSignInPasses
<1>14. CASE Tick
  <2>1. tab' = tab /\ \A t \in Tabs : SigningIn(t)' <=> SigningIn(t)
    BY <1>14 DEF Tick, SigningIn
  <2>2. \A t \in Tabs : tab[t].step # "callback"
    BY <1>14 DEF Tick
  <2>3. \/ jar'.attempt = jar.attempt /\ troubled' = troubled
        \/ troubled' = {t \in Tabs : SigningIn(t)}
    BY <1>14 DEF Tick
  <2>4. \A t \in Tabs : tab[t].step = "microsoft" => SigningIn(t)
    BY DEF SigningIn
  <2>5. QED BY <2>1, <2>2, <2>3, <2>4 DEF UncrossedOK, Apart, OwnCookies, UncrossedSignInPasses
<1>15. CASE Restart
  <2>1. \A t \in Tabs : tab'[t] = Idle \/ tab'[t] = tab[t]
    BY <1>15 DEF Restart
  <2>2. \A t \in Tabs : tab'[t] # Idle => (t \in troubled' <=> t \in troubled)
    BY <1>15 DEF Restart
  <2>3. \A t \in Tabs : SigningIn(t)' => tab'[t] # Idle /\ SigningIn(t)
    BY <1>6, <2>1 DEF SigningIn
  <2>4. jar' = jar
    BY <1>15 DEF Restart
  <2>5. QED BY <1>6, <2>1, <2>2, <2>3, <2>4 DEF UncrossedOK, Apart, OwnCookies, UncrossedSignInPasses
<1>16. CASE UNCHANGED vars
  BY <1>16 DEF vars, UncrossedOK, Apart, OwnCookies, SigningIn, UncrossedSignInPasses
<1>17. QED
  BY <1>1, <1>2, <1>3, <1>4, <1>7, <1>8, <1>9, <1>10, <1>11, <1>12, <1>13, <1>14, <1>15, <1>16
     DEF Next

\* SAFETY.  UncrossedSignInPasses, for any number of tabs and attempts: the
\* cookies a callback is sent with are those of its own login.
THEOREM UncrossedPasses == Spec => []UncrossedSignInPasses
<1>1. Init => UncrossedOK
  BY DEF Init, UncrossedOK, Apart, OwnCookies, SigningIn, UncrossedSignInPasses, Idle
<1>2. UncrossedOK => UncrossedSignInPasses
  BY DEF UncrossedOK
<1>3. QED BY <1>1, <1>2, UncrossedNext, TypeCorrect, PTL DEF Spec

-------------------------------------------------------------------------------
(* One row for an account *)

\* No two rows have one address or belong to one account.
OneRowEach ==
    \A i, j \in DOMAIN users : i # j =>
        /\ users[i].email # users[j].email
        /\ users[i].oid \in Accounts => users[i].oid # users[j].oid

\* A row is written: its address is nobody else's and neither is its account.
LEMMA RowWritten ==
    ASSUME OneRowEach, NEW id, NEW row,
           users' = [i \in DOMAIN users \cup {id} |-> IF i = id THEN row ELSE users[i]],
           \A i \in DOMAIN users \ {id} :
              /\ users[i].email # row.email
              /\ users[i].oid \in Accounts \/ row.oid \in Accounts => users[i].oid # row.oid
    PROVE  OneRowEach'
<1>1. DOMAIN users' = DOMAIN users \cup {id} /\ users'[id] = row
      /\ \A i \in DOMAIN users \ {id} : users'[i] = users[i]
  OBVIOUS
<1>2. SUFFICES ASSUME NEW i \in DOMAIN users \cup {id}, NEW j \in DOMAIN users \cup {id}, i # j
               PROVE  /\ users'[i].email # users'[j].email
                      /\ users'[i].oid \in Accounts => users'[i].oid # users'[j].oid
  BY <1>1 DEF OneRowEach
<1>3. CASE i = id
  BY <1>1, <1>2, <1>3
<1>4. CASE j = id
  BY <1>1, <1>2, <1>4
<1>5. CASE i # id /\ j # id
  BY <1>1, <1>2, <1>5 DEF OneRowEach
<1>6. QED BY <1>3, <1>4, <1>5

LEMMA OneRowNext ==
    ASSUME Dev \notin Accounts, TypeOK, OneRowEach, [Next]_vars
    PROVE  OneRowEach'
<1>1. ASSUME NEW t \in Tabs, Upsert(t) PROVE OneRowEach'
  <2>1. tab[t].who \in Accounts /\ tab[t].email \in Emails
    BY <1>1, Shapes DEF Upsert
  <2>2. ASSUME NEW i \in RowOf(tab[t].who, tab[t].email),
               Unused(RowOf(tab[t].who, tab[t].email), tab[t].email),
               SignsIn(t, i, [users[i] EXCEPT !.email = tab[t].email], tab[t].who, TRUE)
        PROVE  OneRowEach'
    <3> DEFINE row == [users[i] EXCEPT !.email = tab[t].email]
    <3>1. i \in DOMAIN users /\ users[i].oid = tab[t].who /\ users[i] \in UserRow
      BY DEF RowOf, TypeOK
    <3>2. row.email = tab[t].email /\ row.oid = tab[t].who
      BY <3>1 DEF UserRow
    <3>3. \A j \in DOMAIN users \ {i} : users[j].oid # tab[t].who
      BY <2>1, <3>1 DEF OneRowEach
    <3>4. \A j \in DOMAIN users \ {i} : users[j].email # tab[t].email
      BY <2>2, <3>3 DEF Unused, RowOf
    <3>5. users' = [j \in DOMAIN users \cup {i} |-> IF j = i THEN row ELSE users[j]]
      BY <2>2 DEF SignsIn
    <3> HIDE DEF row
    <3>6. QED BY <3>2, <3>3, <3>4, <3>5, RowWritten
  <2>3. ASSUME NEW i \in Ids \ DOMAIN users, RowOf(tab[t].who, tab[t].email) = {},
               Unused(RowOf(tab[t].who, tab[t].email), tab[t].email),
               SignsIn(t, i, [oid |-> tab[t].who, email |-> tab[t].email, role |-> Student],
                       tab[t].who, TRUE)
        PROVE  OneRowEach'
    <3> DEFINE row == [oid |-> tab[t].who, email |-> tab[t].email, role |-> Student]
    <3>1. row.email = tab[t].email /\ row.oid = tab[t].who
      OBVIOUS
    <3>2. \A j \in DOMAIN users : users[j].oid # tab[t].who /\ users[j].email # tab[t].email
      BY <2>3 DEF RowOf, Unused
    <3>3. users' = [j \in DOMAIN users \cup {i} |-> IF j = i THEN row ELSE users[j]]
      BY <2>3 DEF SignsIn
    <3> HIDE DEF row
    <3>4. QED BY <3>1, <3>2, <3>3, RowWritten
  <2>4. CASE UNCHANGED users
    BY <2>4 DEF OneRowEach
  <2>5. QED BY <1>1, <2>2, <2>3, <2>4 DEF Upsert
<1>2. ASSUME NEW t \in Tabs, NEW e \in Emails, NEW r \in Roles, DevLogin(t, e, r)
      PROVE  OneRowEach'
  <2>1. ASSUME NEW i \in DOMAIN users,
               SignsIn(t, i, [users[i] EXCEPT !.role = r], users[i].oid, FALSE)
        PROVE  OneRowEach'
    <3> DEFINE row == [users[i] EXCEPT !.role = r]
    <3>1. row.email = users[i].email /\ row.oid = users[i].oid
      BY DEF TypeOK, UserRow
    <3>2. users' = [j \in DOMAIN users \cup {i} |-> IF j = i THEN row ELSE users[j]]
      BY <2>1 DEF SignsIn
    <3> HIDE DEF row
    <3>3. QED BY <3>1, <3>2, RowWritten DEF OneRowEach
  <2>2. ASSUME NEW i \in Ids \ DOMAIN users, Unused({}, e),
               SignsIn(t, i, [oid |-> Dev, email |-> e, role |-> r], Dev, FALSE)
        PROVE  OneRowEach'
    <3> DEFINE row == [oid |-> Dev, email |-> e, role |-> r]
    <3>1. row.email = e /\ row.oid = Dev
      OBVIOUS
    <3>2. \A j \in DOMAIN users : users[j].email # e
      BY <2>2 DEF Unused
    <3>3. users' = [j \in DOMAIN users \cup {i} |-> IF j = i THEN row ELSE users[j]]
      BY <2>2 DEF SignsIn
    <3> HIDE DEF row
    <3>4. QED BY <3>1, <3>2, <3>3, RowWritten
  <2>3. QED BY <1>2, <2>1, <2>2 DEF DevLogin
<1>3. ASSUME NEW i \in Ids, NEW r \in Roles, SetRole(i, r) PROVE OneRowEach'
  <2>1. /\ DOMAIN users' = DOMAIN users
        /\ \A j \in DOMAIN users : users'[j].email = users[j].email /\ users'[j].oid = users[j].oid
    BY <1>3 DEF SetRole, TypeOK, UserRow
  <2>2. QED BY <2>1 DEF OneRowEach
<1>4. CASE UNCHANGED users
  BY <1>4 DEF OneRowEach
<1>5. QED
  BY <1>1, <1>2, <1>3, <1>4 DEF Next, vars, Login, GoToMicrosoft, Authorise, GiveUp, Revisit,
     Callback, Refresh, Reissue, Logout, Arrive, Readdress, Tick, Restart

\* Two sessions of one account are sessions of one row.
SessionsAgree ==
    \A k, l \in Tokens : k.by \in Accounts /\ k.by = l.by => k.id = l.id

\* A person is one user: although upsertUser finds its row by account and
\* writes the address, and devLogin finds its by address, no account and no
\* address ever gets a second row, and an account that signs in again, in
\* another tab or under a new address, gets a session of the same row.
THEOREM OnePersonOneRow ==
    ASSUME Dev \notin Accounts
    PROVE  Spec => [](OneRowEach /\ SessionsAgree)
<1>1. Init => OneRowEach
  BY DEF Init, OneRowEach
<1>2. TypeOK /\ OneRowEach /\ [Next]_vars => OneRowEach'
  BY OneRowNext
<1>3. TypeOK /\ OneRowEach /\ SessionIsItsOwners => SessionsAgree
  <2> SUFFICES ASSUME TypeOK, OneRowEach, SessionIsItsOwners, NEW k \in Tokens, NEW l \in Tokens,
                      k.by \in Accounts, k.by = l.by
               PROVE  k.id = l.id
    BY DEF SessionsAgree
  <2>1. k.id \in DOMAIN users /\ l.id \in DOMAIN users
    BY DEF Tokens, TypeOK, AllKnown, Known
  <2>2. users[k.id].oid = k.by /\ users[l.id].oid = l.by
    BY DEF SessionIsItsOwners
  <2>3. QED BY <2>1, <2>2 DEF OneRowEach
<1>4. QED BY <1>1, <1>2, <1>3, TypeCorrect, SessionsStay, PTL DEF Spec

===============================================================================
