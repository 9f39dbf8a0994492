-------------------------------- MODULE Oidc --------------------------------
(***************************************************************************)
(* Logins, sessions and the requests made under them, with the development *)
(* identity switched off.  A handler awaits the database or the provider   *)
(* several times: each await is one action, so callbacks, logouts and      *)
(* requests interleave, and what a request has read may be stale when it   *)
(* acts.  A refused request changes nothing but its own place.             *)
(*                                                                         *)
(* State, nonce, PKCE verifier, session id and CSRF token are random and   *)
(* never repeated: an attempt is named by its state, a session's token by  *)
(* the session.                                                            *)
(***************************************************************************)
EXTENDS Integers, FiniteSets

CONSTANTS States,             \* the login attempts that can be made
          Sessions,           \* the sessions that can be created
          Subjects,           \* the provider's users
          oidc_subject_id(_), \* truncated SHA-256 of a subject
          Memberships,        \* what the token can list as groups and realm roles
          Requests,           \* concurrent requests to the API
          None

VARIABLES attempts,      \* oidc_login_attempts, by state; a deleted row is "consumed"
          codes,         \* for whom the provider issued codes, by attempt (external)
          realm,         \* groups and realm roles of each user (external)
          sessions,      \* oidc_sessions, by id; a deleted row stays as "deleted"
          requests,      \* where each request is and what it has read
          granted        \* history: the roles each user has had

Roles == {"organizer", "operator"}
Code == [state : States, subject : Subjects]
SubjectIds == {oidc_subject_id(u) : u \in Subjects}
Right == [subject : SubjectIds, role : Roles]

ASSUME OidcAssumption ==
  None \notin States \cup Sessions \cup Code \cup SubjectIds

vars == <<attempts, codes, realm, sessions, requests, granted>>

-----------------------------------------------------------------------------
\* `login' is a history of the attempt that led to the session.
SessionRow(status, subject, roles, login) ==
  [status |-> status, subject |-> subject, roles |-> roles, login |-> login]

SessionRows ==
  [status : {"absent", "live", "expired", "deleted"}, subject : SubjectIds \cup {None},
   roles : SUBSET Roles, login : States \cup {None}]

Request(pc, kind, state, code, session, token, late, subject, roles) ==
  [pc |-> pc, kind |-> kind, state |-> state, code |-> code, session |-> session,
   token |-> token, late |-> late, subject |-> subject, roles |-> roles]

Idle == Request("idle", None, None, None, None, None, FALSE, None, {})

\* `late' is a history: the session had ended when the request arrived.
RequestRows ==
  [pc : {"idle", "exchange", "create", "csrf", "role", "act"},
   kind : Roles \cup {"logout", None}, state : States \cup {None}, code : Code \cup {None},
   session : Sessions \cup {None}, token : Sessions \cup {None}, late : BOOLEAN,
   subject : SubjectIds \cup {None}, roles : SUBSET Roles]

TypeOK ==
  /\ attempts \in [States -> {"absent", "live", "expired", "consumed"}]
  /\ codes \subseteq Code
  /\ realm \in [Subjects -> Memberships]
  /\ sessions \in [Sessions -> SessionRows]
  /\ requests \in [Requests -> RequestRows]
  /\ granted \subseteq Right

RoleNames(role) ==
  CASE role = "organizer" -> {"organizer", "openpool-organizer"}
    [] role = "operator" -> {"operator", "openpool-operator"}

\* Other names than the four are dropped.
keycloak_roles(names) == {role \in Roles : names \cap RoleNames(role) # {}}

RightsOf(u, names) ==
  {[subject |-> oidc_subject_id(u), role |-> role] : role \in keycloak_roles(names)}

Init ==
  /\ attempts = [st \in States |-> "absent"]
  /\ codes = {}
  /\ realm \in [Subjects -> Memberships]
  /\ sessions = [s \in Sessions |-> SessionRow("absent", None, {}, None)]
  /\ requests = [r \in Requests |-> Idle]
  /\ granted = UNION {RightsOf(u, realm[u]) : u \in Subjects}

Step(r, row) == requests' = [requests EXCEPT ![r] = row]

-----------------------------------------------------------------------------
(* The login. *)

oidc_login(st) ==
  /\ attempts[st] = "absent"
  /\ attempts' = [attempts EXCEPT ![st] = "live"]
  /\ UNCHANGED <<codes, realm, sessions, requests, granted>>

\* A user follows the authorization URL and authenticates.  The provider redeems
\* a code once, but the URL yields another one, so a code remains available.
Authorize(c) ==
  /\ attempts[c.state] # "absent"
  /\ c \notin codes
  /\ codes' = codes \cup {c}
  /\ UNCHANGED <<attempts, realm, sessions, requests, granted>>

\* Mutant: the attempt is looked up and not deleted.
AttemptAfterLookup == "live"

AttemptAfter == "consumed"

\* GET /auth/callback with any state and any code that was issued.  With one that
\* was not, the exchange fails and the attempt is gone, as after AttemptExpires.
consume_oidc_login_attempt(r, st, c) ==
  /\ requests[r].pc = "idle"
  /\ c \in codes
  /\ attempts[st] = "live"
  /\ attempts' = [attempts EXCEPT ![st] = AttemptAfter]
  /\ Step(r, [Idle EXCEPT !.pc = "exchange", !.state = st, !.code = c])
  /\ UNCHANGED <<codes, realm, sessions, granted>>

\* Mutant: neither the PKCE verifier nor the nonce of the attempt is checked.
ProviderAcceptsAny(st, c) == TRUE

\* A code is redeemed only with the verifier and the nonce of its own attempt.
ProviderAccepts(st, c) == c.state = st

exchange_code(r) ==
  LET c == requests[r].code
  IN  /\ requests[r].pc = "exchange"
      /\ ProviderAccepts(requests[r].state, c)
      /\ Step(r, [requests[r] EXCEPT !.pc = "create", !.code = None,
                                     !.subject = oidc_subject_id(c.subject),
                                     !.roles = keycloak_roles(realm[c.subject])])
      /\ UNCHANGED <<attempts, codes, realm, sessions, granted>>

create_oidc_session(r, s) ==
  LET q == requests[r]
  IN  /\ q.pc = "create"
      /\ sessions[s].status = "absent"
      /\ sessions' = [sessions EXCEPT ![s] = SessionRow("live", q.subject, q.roles, q.state)]
      /\ Step(r, Idle)
      /\ UNCHANGED <<attempts, codes, realm, granted>>

-----------------------------------------------------------------------------
(* Requests under a session: a logout, or a write as organizer or operator. *)

\* The browser sends its cookie, and whatever token the page has.
Arrive(r, kind, s, token) ==
  /\ requests[r].pc = "idle"
  /\ sessions[s].status # "absent"
  /\ Step(r, [Idle EXCEPT !.pc = "csrf", !.kind = kind, !.session = s, !.token = token,
                          !.late = sessions[s].status # "live"])
  /\ UNCHANGED <<attempts, codes, realm, sessions, granted>>

\* Mutant: expires_at is not compared with now().
oidc_session_unexpired(s) == sessions[s].status \in {"live", "expired"}

oidc_session(s) == sessions[s].status = "live"

validate_csrf(r) ==
  LET q == requests[r]
  IN  /\ q.pc = "csrf"
      /\ oidc_session(q.session) /\ q.token = q.session
      /\ Step(r, [q EXCEPT !.pc = IF q.kind = "logout" THEN "act" ELSE "role", !.token = None])
      /\ UNCHANGED <<attempts, codes, realm, sessions, granted>>

\* Mutant: any role will do.
HasRoleAny(s, role) == sessions[s].roles # {}

HasRole(s, role) == role \in sessions[s].roles

\* identity of an organizer's request, require_operator of an operator's.
identity(r) ==
  LET q == requests[r]
  IN  /\ q.pc = "role"
      /\ oidc_session(q.session) /\ HasRole(q.session, q.kind)
      /\ Step(r, [q EXCEPT !.pc = "act", !.subject = sessions[q.session].subject])
      /\ UNCHANGED <<attempts, codes, realm, sessions, granted>>

\* What the handler then writes in the name of the subject, or as operator, is
\* the subject of Collection and JobQueue.
Write(r) ==
  /\ requests[r].pc = "act" /\ requests[r].kind # "logout"
  /\ Step(r, Idle)
  /\ UNCHANGED <<attempts, codes, realm, sessions, granted>>

delete_oidc_session(r) ==
  LET q == requests[r]
  IN  /\ q.pc = "act" /\ q.kind = "logout"
      /\ sessions' = [sessions EXCEPT ![q.session].status = "deleted"]
      /\ Step(r, Idle)
      /\ UNCHANGED <<attempts, codes, realm, granted>>

\* A request ends early: refused, a call to the database or the provider failed,
\* or the API process died.
EndRequest(r) ==
  /\ requests[r].pc # "idle"
  /\ Step(r, Idle)
  /\ UNCHANGED <<attempts, codes, realm, sessions, granted>>

-----------------------------------------------------------------------------
\* Ten minutes for an attempt, eight hours for a session.
AttemptExpires(st) ==
  /\ attempts[st] = "live"
  /\ attempts' = [attempts EXCEPT ![st] = "expired"]
  /\ UNCHANGED <<codes, realm, sessions, requests, granted>>

SessionExpires(s) ==
  /\ sessions[s].status = "live"
  /\ sessions' = [sessions EXCEPT ![s].status = "expired"]
  /\ UNCHANGED <<attempts, codes, realm, requests, granted>>

\* The provider's administrator changes what a user may do.
RealmChanges(u, names) ==
  /\ names # realm[u]
  /\ realm' = [realm EXCEPT ![u] = names]
  /\ granted' = granted \cup RightsOf(u, names)
  /\ UNCHANGED <<attempts, codes, sessions, requests>>

-----------------------------------------------------------------------------
CallbackStep(r) ==
  \/ \E st \in States, c \in Code : consume_oidc_login_attempt(r, st, c)
  \/ exchange_code(r)
  \/ \E s \in Sessions : create_oidc_session(r, s)

SessionStep(r) ==
  \/ \E kind \in Roles \cup {"logout"}, s \in Sessions, token \in Sessions \cup {None} :
       Arrive(r, kind, s, token)
  \/ validate_csrf(r)
  \/ identity(r)
  \/ Write(r)
  \/ delete_oidc_session(r)
  \/ EndRequest(r)

Next ==
  \/ \E st \in States : oidc_login(st) \/ AttemptExpires(st)
  \/ \E c \in Code : Authorize(c)
  \/ \E s \in Sessions : SessionExpires(s)
  \/ \E u \in Subjects, names \in Memberships : RealmChanges(u, names)
  \/ \E r \in Requests : CallbackStep(r) \/ SessionStep(r)

Spec == Init /\ [][Next]_vars

-----------------------------------------------------------------------------
(* What is checked. *)

\* A login attempt leads to one session at most, although its callback may be
\* sent twice, concurrently or after the first one failed
\* (consume_oidc_login_attempt: "Consumes the state exactly once").
OneSessionPerLogin ==
  \A s, t \in Sessions :
    sessions[s].status # "absent" /\ sessions[t].status # "absent"
      /\ sessions[s].login = sessions[t].login => s = t

\* A session belongs to a user who authenticated for the very attempt it comes
\* from, although a callback may bring the code of another attempt.
SessionOfItsUser ==
  \A s \in Sessions :
    sessions[s].status # "absent" =>
      \E u \in Subjects :
        /\ sessions[s].subject = oidc_subject_id(u)
        /\ [state |-> sessions[s].login, subject |-> u] \in codes

\* A request that arrives after its session has expired or was logged out never
\* gets to act, although the session is read anew by every check.
EndedSessionIsDead == \A r \in Requests : requests[r].late => requests[r].pc # "act"

\* Nothing is written in a user's name with a role that the provider never gave
\* that user, although roles are copied into the session at the login and
\* change at the provider afterwards.
RolesWereGranted ==
  \A r \in Requests :
    requests[r].pc = "act" /\ requests[r].kind \in Roles =>
      [subject |-> requests[r].subject, role |-> requests[r].kind] \in granted
=============================================================================
