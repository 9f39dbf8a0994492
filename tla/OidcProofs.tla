----------------------------- MODULE OidcProofs -----------------------------
(***************************************************************************)
(* The safety of Oidc for any number of users, logins, sessions and        *)
(* concurrent requests.                                                    *)
(***************************************************************************)
EXTENDS OidcInv, TLAPS

\* keycloak_roles keeps known roles only.
LEMMA KnownRoles == \A names : keycloak_roles(names) \subseteq Roles
BY DEF keycloak_roles

LEMMA RightsTyped ==
  ASSUME NEW u \in Subjects, NEW names
  PROVE  RightsOf(u, names) \subseteq Right
BY KnownRoles DEF RightsOf, Right, SubjectIds

LEMMA IdleTyped == Idle \in RequestRows
BY DEF Idle, Request, RequestRows

\* What an idle request and the fields a handler sets look like.
LEMMA IdleFields ==
  /\ Idle.pc = "idle" /\ Idle.kind = None /\ Idle.state = None /\ Idle.code = None
  /\ Idle.session = None /\ Idle.late = FALSE /\ Idle.subject = None /\ Idle.roles = {}
BY DEF Idle, Request

\* The rows a handler may leave are requests.
LEMMA RowTyped ==
  ASSUME NEW q \in RequestRows
  PROVE  /\ \A u \in SubjectIds, roles \in SUBSET Roles :
              [q EXCEPT !.pc = "create", !.code = None, !.subject = u, !.roles = roles]
                \in RequestRows
         /\ \A pc \in {"act", "role"} : [q EXCEPT !.pc = pc, !.token = None] \in RequestRows
         /\ \A u \in SubjectIds \cup {None} :
              [q EXCEPT !.pc = "act", !.subject = u] \in RequestRows
         /\ \A st \in States, c \in Code :
              [q EXCEPT !.pc = "exchange", !.state = st, !.code = c] \in RequestRows
<1>1. ASSUME NEW u \in SubjectIds, NEW roles \in SUBSET Roles
      PROVE  [q EXCEPT !.pc = "create", !.code = None, !.subject = u, !.roles = roles]
               \in RequestRows
  BY DEF RequestRows
<1>2. ASSUME NEW pc \in {"act", "role"}
      PROVE  [q EXCEPT !.pc = pc, !.token = None] \in RequestRows
  BY DEF RequestRows
<1>3. ASSUME NEW u \in SubjectIds \cup {None}
      PROVE  [q EXCEPT !.pc = "act", !.subject = u] \in RequestRows
  BY DEF RequestRows
<1>4. ASSUME NEW st \in States, NEW c \in Code
      PROVE  [q EXCEPT !.pc = "exchange", !.state = st, !.code = c] \in RequestRows
  BY DEF RequestRows
<1> QED
  BY <1>1, <1>2, <1>3, <1>4

LEMMA ArrivalTyped ==
  ASSUME NEW kind \in Roles \cup {"logout"}, NEW s \in Sessions,
         NEW t \in Sessions \cup {None}, NEW late \in BOOLEAN
  PROVE  [Idle EXCEPT !.pc = "csrf", !.kind = kind, !.session = s, !.token = t, !.late = late]
           \in RequestRows
BY DEF RequestRows, Idle, Request

LEMMA RequestTyped ==
  ASSUME Inv, NEW r \in Requests
  PROVE  requests[r] \in RequestRows
BY DEF Inv, TypeOK

LEMMA StepTyped ==
  ASSUME requests \in [Requests -> RequestRows], NEW r \in Requests, NEW row \in RequestRows,
         Step(r, row)
  PROVE  requests' \in [Requests -> RequestRows]
BY DEF Step

-----------------------------------------------------------------------------
\* The sessions table keeps its type when a row is inserted or its status set.
LEMMA SessionTyped ==
  ASSUME TypeOK, NEW s \in Sessions
  PROVE  /\ \A u \in SubjectIds \cup {None}, roles \in SUBSET Roles, st \in States \cup {None} :
              [sessions EXCEPT ![s] = SessionRow("live", u, roles, st)] \in [Sessions -> SessionRows]
         /\ \A status \in {"expired", "deleted"} :
              [sessions EXCEPT ![s].status = status] \in [Sessions -> SessionRows]
BY DEF TypeOK, SessionRow, SessionRows

\* Every step keeps the types.
LEMMA TypeStep == Inv /\ [Next]_vars => TypeOK'
<1> SUFFICES ASSUME Inv, [Next]_vars
             PROVE  TypeOK'
  OBVIOUS
<1>1. ASSUME NEW st \in States, oidc_login(st)
      PROVE  TypeOK'
  BY <1>1
  DEF oidc_login, Inv, TypeOK
<1>2. ASSUME NEW st \in States, AttemptExpires(st)
      PROVE  TypeOK'
  BY <1>2
  DEF AttemptExpires, Inv, TypeOK
<1>3. ASSUME NEW c \in Code, Authorize(c)
      PROVE  TypeOK'
  BY <1>3
  DEF Authorize, Inv, TypeOK
<1>4. ASSUME NEW s \in Sessions, SessionExpires(s)
      PROVE  TypeOK'
  BY <1>4, SessionTyped
  DEF SessionExpires, Inv, TypeOK
<1>5. ASSUME NEW u \in Subjects, NEW names \in Memberships, RealmChanges(u, names)
      PROVE  TypeOK'
  BY <1>5, RightsTyped
  DEF RealmChanges, Inv, TypeOK
<1>6. ASSUME NEW r \in Requests, NEW st \in States, NEW c \in Code,
             consume_oidc_login_attempt(r, st, c)
      PROVE  TypeOK'
  <2>1. requests' \in [Requests -> RequestRows]
    BY <1>6, IdleTyped, RowTyped, StepTyped DEF consume_oidc_login_attempt, Inv, TypeOK
  <2> QED
    BY <1>6, <2>1 DEF consume_oidc_login_attempt, AttemptAfter, Inv, TypeOK
<1>7. ASSUME NEW r \in Requests, exchange_code(r)
      PROVE  TypeOK'
  <2>1. requests[r] \in RequestRows
    BY RequestTyped, Zenon
  <2>2. requests[r].code \in Code
    BY <1>7 DEF exchange_code, Inv, TypeOK, UserInv
  <2>3. oidc_subject_id(requests[r].code.subject) \in SubjectIds
    BY <2>2 DEF Code, SubjectIds
  <2>4. keycloak_roles(realm[requests[r].code.subject]) \in SUBSET Roles
    BY KnownRoles, Zenon
  <2>5. [requests[r] EXCEPT !.pc = "create", !.code = None,
                            !.subject = oidc_subject_id(requests[r].code.subject),
                            !.roles = keycloak_roles(realm[requests[r].code.subject])]
          \in RequestRows
    BY <2>1, <2>3, <2>4, RowTyped
  <2>6. requests' \in [Requests -> RequestRows]
    BY <1>7, <2>5, StepTyped DEF exchange_code, Inv, TypeOK
  <2> QED
    BY <1>7, <2>6 DEF exchange_code, Inv, TypeOK
<1>8. ASSUME NEW r \in Requests, NEW s \in Sessions, create_oidc_session(r, s)
      PROVE  TypeOK'
  <2>1. requests' \in [Requests -> RequestRows]
    BY <1>8, IdleTyped, StepTyped DEF create_oidc_session, Inv, TypeOK
  <2>2. requests[r] \in RequestRows
    BY RequestTyped, Zenon
  <2>3. /\ requests[r].subject \in SubjectIds \cup {None}
        /\ requests[r].roles \in SUBSET Roles
        /\ requests[r].state \in States \cup {None}
    BY <2>2 DEF RequestRows
  <2>4. sessions' \in [Sessions -> SessionRows]
    BY <1>8, <2>3, SessionTyped DEF create_oidc_session, Inv
  <2> QED
    BY <1>8, <2>1, <2>4 DEF create_oidc_session, Inv, TypeOK
<1>9. ASSUME NEW r \in Requests, NEW kind \in Roles \cup {"logout"}, NEW s \in Sessions,
             NEW t \in Sessions \cup {None}, Arrive(r, kind, s, t)
      PROVE  TypeOK'
  <2>1. (sessions[s].status # "live") \in BOOLEAN
    OBVIOUS
  <2>2. [Idle EXCEPT !.pc = "csrf", !.kind = kind, !.session = s, !.token = t,
                     !.late = sessions[s].status # "live"] \in RequestRows
    BY <2>1, ArrivalTyped
  <2>3. requests' \in [Requests -> RequestRows]
    BY <1>9, <2>2, StepTyped DEF Arrive, Inv, TypeOK
  <2> QED
    BY <1>9, <2>3 DEF Arrive, Inv, TypeOK
<1>10. ASSUME NEW r \in Requests, validate_csrf(r)
      PROVE  TypeOK'
  <2>1. requests[r] \in RequestRows
    BY RequestTyped, Zenon
  <2> DEFINE pc == IF requests[r].kind = "logout" THEN "act" ELSE "role"
             row == [requests[r] EXCEPT !.pc = pc, !.token = None]
  <2>2. row \in RequestRows
    <3>1. pc \in {"act", "role"}
      OBVIOUS
    <3> HIDE DEF pc
    <3> QED
      BY <2>1, <3>1, RowTyped
  <2>3. Step(r, row)
    BY <1>10 DEF validate_csrf
  <2> HIDE DEF row
  <2>4. requests' \in [Requests -> RequestRows]
    BY <2>2, <2>3, StepTyped DEF Inv, TypeOK
  <2> QED
    BY <1>10, <2>4 DEF validate_csrf, Inv, TypeOK
<1>11. ASSUME NEW r \in Requests, identity(r)
      PROVE  TypeOK'
  <2>1. requests[r] \in RequestRows
    BY RequestTyped, Zenon
  <2>2. sessions[requests[r].session].subject \in SubjectIds \cup {None}
    BY <1>11 DEF identity, Inv, TypeOK, LateInv, SessionRows
  <2> DEFINE row == [requests[r] EXCEPT !.pc = "act",
                                        !.subject = sessions[requests[r].session].subject]
  <2>3. row \in RequestRows
    BY <2>1, <2>2, RowTyped
  <2>4. Step(r, row)
    BY <1>11 DEF identity
  <2> HIDE DEF row
  <2>5. requests' \in [Requests -> RequestRows]
    BY <2>3, <2>4, StepTyped DEF Inv, TypeOK
  <2> QED
    BY <1>11, <2>5 DEF identity, Inv, TypeOK
<1>12. ASSUME NEW r \in Requests, Write(r)
      PROVE  TypeOK'
  <2>1. requests' \in [Requests -> RequestRows]
    BY <1>12, IdleTyped, StepTyped DEF Write, Inv, TypeOK
  <2> QED
    BY <1>12, <2>1 DEF Write, Inv, TypeOK
<1>13. ASSUME NEW r \in Requests, delete_oidc_session(r)
      PROVE  TypeOK'
  <2>1. requests' \in [Requests -> RequestRows]
    BY <1>13, IdleTyped, StepTyped DEF delete_oidc_session, Inv, TypeOK
  <2>2. requests[r].session \in Sessions
    BY <1>13 DEF delete_oidc_session, Inv, LateInv
  <2>3. sessions' \in [Sessions -> SessionRows]
    BY <1>13, <2>2, SessionTyped DEF delete_oidc_session, Inv
  <2> QED
    BY <1>13, <2>1, <2>3 DEF delete_oidc_session, Inv, TypeOK
<1>14. ASSUME NEW r \in Requests, EndRequest(r)
      PROVE  TypeOK'
  <2>1. requests' \in [Requests -> RequestRows]
    BY <1>14, IdleTyped, StepTyped DEF EndRequest, Inv, TypeOK
  <2> QED
    BY <1>14, <2>1 DEF EndRequest, Inv, TypeOK
<1>15. CASE UNCHANGED vars
  BY <1>15 DEF vars, Inv, TypeOK
<1> QED
  BY <1>1, <1>2, <1>3, <1>4, <1>5, <1>6, <1>7, <1>8, <1>9, <1>10, <1>11, <1>12, <1>13, <1>14, <1>15
  DEF Next, CallbackStep, SessionStep

\* Every step keeps the logins apart.
LEMMA LoginStep == Inv /\ [Next]_vars => OneSessionPerLogin' /\ LoginInv'
<1> SUFFICES ASSUME Inv, [Next]_vars
             PROVE  OneSessionPerLogin' /\ LoginInv'
  OBVIOUS
<1>1. ASSUME NEW st \in States, oidc_login(st)
      PROVE  OneSessionPerLogin' /\ LoginInv'
  BY <1>1
  DEF oidc_login, Inv, TypeOK, OneSessionPerLogin, LoginInv, InCallback, Exists
<1>2. ASSUME NEW st \in States, AttemptExpires(st)
      PROVE  OneSessionPerLogin' /\ LoginInv'
  BY <1>2
  DEF AttemptExpires, Inv, TypeOK, OneSessionPerLogin, LoginInv, InCallback, Exists
<1>3. ASSUME NEW c \in Code, Authorize(c)
      PROVE  OneSessionPerLogin' /\ LoginInv'
  BY <1>3
  DEF Authorize, Inv, TypeOK, OneSessionPerLogin, LoginInv, InCallback, Exists
<1>4. ASSUME NEW s \in Sessions, SessionExpires(s)
      PROVE  OneSessionPerLogin' /\ LoginInv'
  BY <1>4
  DEF SessionExpires, Inv, TypeOK, OneSessionPerLogin, LoginInv, InCallback, Exists,
      SessionRows
<1>5. ASSUME NEW u \in Subjects, NEW names \in Memberships, RealmChanges(u, names)
      PROVE  OneSessionPerLogin' /\ LoginInv'
  BY <1>5
  DEF RealmChanges, Inv, TypeOK, OneSessionPerLogin, LoginInv, InCallback, Exists
<1>6. ASSUME NEW r \in Requests, NEW st \in States, NEW c \in Code,
             consume_oidc_login_attempt(r, st, c)
      PROVE  OneSessionPerLogin' /\ LoginInv'
  BY <1>6
  DEF consume_oidc_login_attempt, Inv, TypeOK, OneSessionPerLogin, LoginInv, InCallback,
      Exists, Step, RequestRows, Idle, Request, AttemptAfter
<1>7. ASSUME NEW r \in Requests, exchange_code(r)
      PROVE  OneSessionPerLogin' /\ LoginInv'
  BY <1>7
  DEF exchange_code, Inv, TypeOK, OneSessionPerLogin, LoginInv, InCallback, Exists, Step,
      RequestRows
<1>8. ASSUME NEW r \in Requests, NEW s \in Sessions, create_oidc_session(r, s)
      PROVE  OneSessionPerLogin' /\ LoginInv'
  BY <1>8
  DEF create_oidc_session, Inv, TypeOK, OneSessionPerLogin, LoginInv, InCallback, Exists,
      Step, RequestRows, Idle, Request, SessionRow
<1>9. ASSUME NEW r \in Requests, NEW kind \in Roles \cup {"logout"}, NEW s \in Sessions,
             NEW t \in Sessions \cup {None}, Arrive(r, kind, s, t)
      PROVE  OneSessionPerLogin' /\ LoginInv'
  BY <1>9
  DEF Arrive, Inv, TypeOK, OneSessionPerLogin, LoginInv, InCallback, Exists, Step,
      RequestRows, Idle, Request
<1>10. ASSUME NEW r \in Requests, validate_csrf(r)
      PROVE  OneSessionPerLogin' /\ LoginInv'
  BY <1>10
  DEF validate_csrf, Inv, TypeOK, OneSessionPerLogin, LoginInv, InCallback, Exists, Step,
      RequestRows
<1>11. ASSUME NEW r \in Requests, identity(r)
      PROVE  OneSessionPerLogin' /\ LoginInv'
  BY <1>11
  DEF identity, Inv, TypeOK, OneSessionPerLogin, LoginInv, InCallback, Exists, Step,
      RequestRows
<1>12. ASSUME NEW r \in Requests, Write(r)
      PROVE  OneSessionPerLogin' /\ LoginInv'
  BY <1>12
  DEF Write, Inv, TypeOK, OneSessionPerLogin, LoginInv, InCallback, Exists, Step,
      RequestRows, Idle, Request
<1>13. ASSUME NEW r \in Requests, delete_oidc_session(r)
      PROVE  OneSessionPerLogin' /\ LoginInv'
  BY <1>13
  DEF delete_oidc_session, Inv, TypeOK, OneSessionPerLogin, LoginInv, InCallback, Exists,
      Step, RequestRows, Idle, Request, LateInv, SessionRows
<1>14. ASSUME NEW r \in Requests, EndRequest(r)
      PROVE  OneSessionPerLogin' /\ LoginInv'
  BY <1>14
  DEF EndRequest, Inv, TypeOK, OneSessionPerLogin, LoginInv, InCallback, Exists, Step,
      RequestRows, Idle, Request
<1>15. CASE UNCHANGED vars
  BY <1>15 DEF vars, Inv, TypeOK, OneSessionPerLogin, LoginInv, InCallback, Exists
<1> QED
  BY <1>1, <1>2, <1>3, <1>4, <1>5, <1>6, <1>7, <1>8, <1>9, <1>10, <1>11, <1>12, <1>13, <1>14, <1>15
  DEF Next, CallbackStep, SessionStep

\* Every step keeps track of who authenticated for which attempt.
LEMMA UserStep == Inv /\ [Next]_vars => UserInv'
<1> SUFFICES ASSUME Inv, [Next]_vars
             PROVE  UserInv'
  OBVIOUS
<1>1. ASSUME NEW st \in States, oidc_login(st)
      PROVE  UserInv'
  BY <1>1
  DEF oidc_login, Inv, TypeOK, UserInv, SessionOfItsUser
<1>2. ASSUME NEW st \in States, AttemptExpires(st)
      PROVE  UserInv'
  BY <1>2
  DEF AttemptExpires, Inv, TypeOK, UserInv, SessionOfItsUser
<1>3. ASSUME NEW c \in Code, Authorize(c)
      PROVE  UserInv'
  BY <1>3
  DEF Authorize, Inv, TypeOK, UserInv, SessionOfItsUser
<1>4. ASSUME NEW s \in Sessions, SessionExpires(s)
      PROVE  UserInv'
  BY <1>4
  DEF SessionExpires, Inv, TypeOK, UserInv, SessionOfItsUser, SessionRows
<1>5. ASSUME NEW u \in Subjects, NEW names \in Memberships, RealmChanges(u, names)
      PROVE  UserInv'
  BY <1>5
  DEF RealmChanges, Inv, TypeOK, UserInv, SessionOfItsUser
<1>6. ASSUME NEW r \in Requests, NEW st \in States, NEW c \in Code,
             consume_oidc_login_attempt(r, st, c)
      PROVE  UserInv'
  BY <1>6
  DEF consume_oidc_login_attempt, Inv, TypeOK, UserInv, SessionOfItsUser, Step, RequestRows,
      Idle, Request
<1>7. ASSUME NEW r \in Requests, exchange_code(r)
      PROVE  UserInv'
  <2> DEFINE c == requests[r].code
  <2>1. c \in codes /\ c \in Code /\ c.state = requests[r].state
    BY <1>7 DEF exchange_code, ProviderAccepts, Inv, TypeOK, UserInv
  <2>2. c.subject \in Subjects /\ c = [state |-> requests[r].state, subject |-> c.subject]
    BY <2>1 DEF Code
  <2>3. /\ requests'[r].pc = "create" /\ requests'[r].state = requests[r].state
        /\ requests'[r].subject = oidc_subject_id(c.subject)
    BY <1>7 DEF exchange_code, Step, Inv, TypeOK, RequestRows
  <2>4. \A q \in Requests \ {r} : requests'[q] = requests[q]
    BY <1>7 DEF exchange_code, Step, Inv, TypeOK
  <2>5. codes' = codes /\ sessions' = sessions
    BY <1>7 DEF exchange_code
  <2>6. SessionOfItsUser'
    BY <2>5 DEF Inv, UserInv, SessionOfItsUser
  <2>7. \E u \in Subjects : /\ requests'[r].subject = oidc_subject_id(u)
                            /\ [state |-> requests'[r].state, subject |-> u] \in codes'
    <3>1. c.subject \in Subjects
      BY <2>2
    <3>2. [state |-> requests'[r].state, subject |-> c.subject] \in codes'
      BY <2>1, <2>2, <2>3, <2>5
    <3> QED
      BY <3>1, <3>2, <2>3
  <2> QED
    BY <2>3, <2>4, <2>5, <2>6, <2>7 DEF Inv, UserInv
<1>8. ASSUME NEW r \in Requests, NEW s \in Sessions, create_oidc_session(r, s)
      PROVE  UserInv'
  BY <1>8
  DEF create_oidc_session, Inv, TypeOK, UserInv, SessionOfItsUser, Step, RequestRows, Idle,
      Request, SessionRow
<1>9. ASSUME NEW r \in Requests, NEW kind \in Roles \cup {"logout"}, NEW s \in Sessions,
             NEW t \in Sessions \cup {None}, Arrive(r, kind, s, t)
      PROVE  UserInv'
  BY <1>9
  DEF Arrive, Inv, TypeOK, UserInv, SessionOfItsUser, Step, RequestRows, Idle, Request
<1>10. ASSUME NEW r \in Requests, validate_csrf(r)
      PROVE  UserInv'
  BY <1>10
  DEF validate_csrf, Inv, TypeOK, UserInv, SessionOfItsUser, Step, RequestRows
<1>11. ASSUME NEW r \in Requests, identity(r)
      PROVE  UserInv'
  BY <1>11
  DEF identity, Inv, TypeOK, UserInv, SessionOfItsUser, Step, RequestRows
<1>12. ASSUME NEW r \in Requests, Write(r)
      PROVE  UserInv'
  BY <1>12
  DEF Write, Inv, TypeOK, UserInv, SessionOfItsUser, Step, RequestRows, Idle, Request
<1>13. ASSUME NEW r \in Requests, delete_oidc_session(r)
      PROVE  UserInv'
  <2>1. /\ requests'[r].pc = "idle"
        /\ \A q \in Requests \ {r} : requests'[q] = requests[q]
    BY <1>13, IdleFields DEF delete_oidc_session, Step, Inv, TypeOK
  <2>2. codes' = codes
    BY <1>13 DEF delete_oidc_session
  <2>3. requests[r].session \in Sessions /\ Exists(requests[r].session)
    BY <1>13 DEF delete_oidc_session, Inv, LateInv
  <2>4. \A s \in Sessions : /\ Exists(s)' => Exists(s)
                            /\ sessions'[s].login = sessions[s].login
                            /\ sessions'[s].subject = sessions[s].subject
    BY <1>13, <2>3 DEF delete_oidc_session, Exists, Inv, TypeOK, SessionRows
  <2>5. SessionOfItsUser'
    BY <2>2, <2>4 DEF Inv, UserInv, SessionOfItsUser, Exists
  <2> QED
    BY <2>1, <2>2, <2>5 DEF Inv, UserInv
<1>14. ASSUME NEW r \in Requests, EndRequest(r)
      PROVE  UserInv'
  BY <1>14
  DEF EndRequest, Inv, TypeOK, UserInv, SessionOfItsUser, Step, RequestRows, Idle, Request
<1>15. CASE UNCHANGED vars
  BY <1>15 DEF vars, Inv, TypeOK, UserInv, SessionOfItsUser
<1> QED
  BY <1>1, <1>2, <1>3, <1>4, <1>5, <1>6, <1>7, <1>8, <1>9, <1>10, <1>11, <1>12, <1>13, <1>14, <1>15
  DEF Next, CallbackStep, SessionStep

\* Every step keeps late requests at their first check.
LEMMA LateStep == Inv /\ [Next]_vars => LateInv'
<1> SUFFICES ASSUME Inv, [Next]_vars
             PROVE  LateInv'
  OBVIOUS
<1>1. ASSUME NEW st \in States, oidc_login(st)
      PROVE  LateInv'
  BY <1>1
  DEF oidc_login, Inv, TypeOK, LateInv, Exists
<1>2. ASSUME NEW st \in States, AttemptExpires(st)
      PROVE  LateInv'
  BY <1>2
  DEF AttemptExpires, Inv, TypeOK, LateInv, Exists
<1>3. ASSUME NEW c \in Code, Authorize(c)
      PROVE  LateInv'
  BY <1>3
  DEF Authorize, Inv, TypeOK, LateInv, Exists
<1>4. ASSUME NEW s \in Sessions, SessionExpires(s)
      PROVE  LateInv'
  BY <1>4
  DEF SessionExpires, Inv, TypeOK, LateInv, Exists, SessionRows
<1>5. ASSUME NEW u \in Subjects, NEW names \in Memberships, RealmChanges(u, names)
      PROVE  LateInv'
  BY <1>5
  DEF RealmChanges, Inv, TypeOK, LateInv, Exists
<1>6. ASSUME NEW r \in Requests, NEW st \in States, NEW c \in Code,
             consume_oidc_login_attempt(r, st, c)
      PROVE  LateInv'
  BY <1>6
  DEF consume_oidc_login_attempt, Inv, TypeOK, LateInv, Exists, Step, RequestRows, Idle,
      Request
<1>7. ASSUME NEW r \in Requests, exchange_code(r)
      PROVE  LateInv'
  BY <1>7
  DEF exchange_code, Inv, TypeOK, LateInv, Exists, Step, RequestRows
<1>8. ASSUME NEW r \in Requests, NEW s \in Sessions, create_oidc_session(r, s)
      PROVE  LateInv'
  BY <1>8
  DEF create_oidc_session, Inv, TypeOK, LateInv, Exists, Step, RequestRows, Idle, Request,
      SessionRow
<1>9. ASSUME NEW r \in Requests, NEW kind \in Roles \cup {"logout"}, NEW s \in Sessions,
             NEW t \in Sessions \cup {None}, Arrive(r, kind, s, t)
      PROVE  LateInv'
  BY <1>9
  DEF Arrive, Inv, TypeOK, LateInv, Exists, Step, RequestRows, Idle, Request
<1>10. ASSUME NEW r \in Requests, validate_csrf(r)
      PROVE  LateInv'
  BY <1>10
  DEF validate_csrf, Inv, TypeOK, LateInv, Exists, Step, RequestRows, oidc_session
<1>11. ASSUME NEW r \in Requests, identity(r)
      PROVE  LateInv'
  BY <1>11
  DEF identity, Inv, TypeOK, LateInv, Exists, Step, RequestRows, oidc_session
<1>12. ASSUME NEW r \in Requests, Write(r)
      PROVE  LateInv'
  BY <1>12
  DEF Write, Inv, TypeOK, LateInv, Exists, Step, RequestRows, Idle, Request
<1>13. ASSUME NEW r \in Requests, delete_oidc_session(r)
      PROVE  LateInv'
  BY <1>13
  DEF delete_oidc_session, Inv, TypeOK, LateInv, Exists, Step, RequestRows, Idle, Request,
      SessionRows
<1>14. ASSUME NEW r \in Requests, EndRequest(r)
      PROVE  LateInv'
  BY <1>14
  DEF EndRequest, Inv, TypeOK, LateInv, Exists, Step, RequestRows, Idle, Request
<1>15. CASE UNCHANGED vars
  BY <1>15 DEF vars, Inv, TypeOK, LateInv, Exists
<1> QED
  BY <1>1, <1>2, <1>3, <1>4, <1>5, <1>6, <1>7, <1>8, <1>9, <1>10, <1>11, <1>12, <1>13, <1>14, <1>15
  DEF Next, CallbackStep, SessionStep

\* Every step keeps the roles within those that were granted.
LEMMA RoleStep == Inv /\ [Next]_vars => RoleInv'
<1> SUFFICES ASSUME Inv, [Next]_vars
             PROVE  RoleInv'
  OBVIOUS
<1>1. ASSUME NEW st \in States, oidc_login(st)
      PROVE  RoleInv'
  BY <1>1
  DEF oidc_login, Inv, TypeOK, RoleInv, RolesWereGranted, Exists
<1>2. ASSUME NEW st \in States, AttemptExpires(st)
      PROVE  RoleInv'
  BY <1>2
  DEF AttemptExpires, Inv, TypeOK, RoleInv, RolesWereGranted, Exists
<1>3. ASSUME NEW c \in Code, Authorize(c)
      PROVE  RoleInv'
  BY <1>3
  DEF Authorize, Inv, TypeOK, RoleInv, RolesWereGranted, Exists
<1>4. ASSUME NEW s \in Sessions, SessionExpires(s)
      PROVE  RoleInv'
  BY <1>4
  DEF SessionExpires, Inv, TypeOK, RoleInv, RolesWereGranted, Exists, SessionRows
<1>5. ASSUME NEW u \in Subjects, NEW names \in Memberships, RealmChanges(u, names)
      PROVE  RoleInv'
  BY <1>5
  DEF RealmChanges, Inv, TypeOK, RoleInv, RolesWereGranted, Exists
<1>6. ASSUME NEW r \in Requests, NEW st \in States, NEW c \in Code,
             consume_oidc_login_attempt(r, st, c)
      PROVE  RoleInv'
  BY <1>6
  DEF consume_oidc_login_attempt, Inv, TypeOK, RoleInv, RolesWereGranted, Exists, Step,
      RequestRows, Idle, Request
<1>7. ASSUME NEW r \in Requests, exchange_code(r)
      PROVE  RoleInv'
  BY <1>7
  DEF exchange_code, Inv, TypeOK, RoleInv, RolesWereGranted, Exists, Step, RequestRows,
      UserInv, Code, RightsOf
<1>8. ASSUME NEW r \in Requests, NEW s \in Sessions, create_oidc_session(r, s)
      PROVE  RoleInv'
  BY <1>8
  DEF create_oidc_session, Inv, TypeOK, RoleInv, RolesWereGranted, Exists, Step, RequestRows,
      Idle, Request, SessionRow
<1>9. ASSUME NEW r \in Requests, NEW kind \in Roles \cup {"logout"}, NEW s \in Sessions,
             NEW t \in Sessions \cup {None}, Arrive(r, kind, s, t)
      PROVE  RoleInv'
  BY <1>9
  DEF Arrive, Inv, TypeOK, RoleInv, RolesWereGranted, Exists, Step, RequestRows, Idle,
      Request
<1>10. ASSUME NEW r \in Requests, validate_csrf(r)
      PROVE  RoleInv'
  BY <1>10
  DEF validate_csrf, Inv, TypeOK, RoleInv, RolesWereGranted, Exists, Step, RequestRows,
      Roles
<1>11. ASSUME NEW r \in Requests, identity(r)
      PROVE  RoleInv'
  BY <1>11
  DEF identity, Inv, TypeOK, RoleInv, RolesWereGranted, Exists, Step, RequestRows, HasRole,
      LateInv
<1>12. ASSUME NEW r \in Requests, Write(r)
      PROVE  RoleInv'
  BY <1>12
  DEF Write, Inv, TypeOK, RoleInv, RolesWereGranted, Exists, Step, RequestRows, Idle,
      Request
<1>13. ASSUME NEW r \in Requests, delete_oidc_session(r)
      PROVE  RoleInv'
  BY <1>13
  DEF delete_oidc_session, Inv, TypeOK, RoleInv, RolesWereGranted, Exists, Step, RequestRows,
      Idle, Request, LateInv, SessionRows
<1>14. ASSUME NEW r \in Requests, EndRequest(r)
      PROVE  RoleInv'
  BY <1>14
  DEF EndRequest, Inv, TypeOK, RoleInv, RolesWereGranted, Exists, Step, RequestRows, Idle,
      Request
<1>15. CASE UNCHANGED vars
  BY <1>15 DEF vars, Inv, TypeOK, RoleInv, RolesWereGranted, Exists
<1> QED
  BY <1>1, <1>2, <1>3, <1>4, <1>5, <1>6, <1>7, <1>8, <1>9, <1>10, <1>11, <1>12, <1>13, <1>14, <1>15
  DEF Next, CallbackStep, SessionStep


-----------------------------------------------------------------------------
LEMMA InitInv == Init => Inv
<1> SUFFICES ASSUME Init
             PROVE  Inv
  OBVIOUS
<1>1. \A r \in Requests : requests[r] = Idle
  BY DEF Init
<1>2. \A s \in Sessions : sessions[s].status = "absent"
  BY DEF Init, SessionRow
<1>3. TypeOK
  <2>1. requests \in [Requests -> RequestRows]
    BY IdleTyped DEF Init
  <2>2. SessionRow("absent", None, {}, None) \in SessionRows
    BY DEF SessionRow, SessionRows
  <2>3. sessions \in [Sessions -> SessionRows]
    BY <2>2 DEF Init
  <2>4. granted \subseteq Right
    BY RightsTyped DEF Init
  <2> QED
    BY <2>1, <2>3, <2>4 DEF Init, TypeOK
<1>4. OneSessionPerLogin /\ LoginInv /\ UserInv /\ LateInv
  BY <1>1, <1>2, IdleFields
  DEF OneSessionPerLogin, LoginInv, UserInv, LateInv, InCallback, Exists, SessionOfItsUser
<1>5. RoleInv
  BY <1>1, <1>2, IdleFields DEF RoleInv, RolesWereGranted, Exists, Init
<1> QED
  BY <1>3, <1>4, <1>5 DEF Inv

\* Every reachable state satisfies the inductive invariant.
THEOREM Invariance == Spec => []Inv
<1>1. Inv /\ [Next]_vars => Inv'
  BY TypeStep, LoginStep, UserStep, LateStep, RoleStep DEF Inv
<1> QED
  BY <1>1, InitInv, PTL DEF Spec

\* The tables and the requests keep their types; in particular a session holds
\* no role but the two that the API knows, whatever the token lists.
THEOREM TypeCorrect == Spec => []TypeOK
<1>1. Inv => TypeOK
  BY DEF Inv
<1> QED
  BY <1>1, Invariance, PTL

\* However many callbacks race, a login attempt yields one session at most.
THEOREM LoginOnce == Spec => []OneSessionPerLogin
<1>1. Inv => OneSessionPerLogin
  BY DEF Inv
<1> QED
  BY <1>1, Invariance, PTL

\* Codes of other attempts never make a session of the wrong user.
THEOREM RightUser == Spec => []SessionOfItsUser
<1>1. Inv => SessionOfItsUser
  BY DEF Inv, UserInv
<1> QED
  BY <1>1, Invariance, PTL

\* A request that comes after the end of its session is refused.
THEOREM EndIsFinal == Spec => []EndedSessionIsDead
<1>1. Inv => EndedSessionIsDead
  BY DEF Inv, LateInv, EndedSessionIsDead
<1> QED
  BY <1>1, Invariance, PTL

\* No user acts in a role the provider never gave.
THEOREM OnlyGrantedRoles == Spec => []RolesWereGranted
<1>1. Inv => RolesWereGranted
  BY DEF Inv, RoleInv
<1> QED
  BY <1>1, Invariance, PTL
=============================================================================
