------------------------------ MODULE OidcInv -------------------------------
(***************************************************************************)
(* The inductive invariant of Oidc: what a request that is under way knows *)
(* of the login or the session it works for.                               *)
(***************************************************************************)
EXTENDS Oidc

InCallback(r) == requests[r].pc \in {"exchange", "create"}

Exists(s) == sessions[s].status # "absent"

\* A consumed attempt is in the hands of one callback or behind one session.
LoginInv ==
  /\ \A r \in Requests :
       InCallback(r) => /\ requests[r].state \in States
                        /\ attempts[requests[r].state] = "consumed"
                        /\ \A s \in Sessions : Exists(s) => sessions[s].login # requests[r].state
  /\ \A r, q \in Requests :
       InCallback(r) /\ InCallback(q) /\ requests[r].state = requests[q].state => r = q
  /\ \A s \in Sessions :
       Exists(s) => sessions[s].login \in States /\ attempts[sessions[s].login] = "consumed"

\* Whom a callback has authenticated, and whom a session stands for.
UserInv ==
  /\ \A r \in Requests :
       /\ requests[r].pc = "exchange" => requests[r].code \in codes
       /\ requests[r].pc = "create" =>
            \E u \in Subjects : /\ requests[r].subject = oidc_subject_id(u)
                                /\ [state |-> requests[r].state, subject |-> u] \in codes
  /\ SessionOfItsUser

\* An ended session stays ended, so a late request passes no check.
LateInv ==
  \A r \in Requests :
    /\ requests[r].pc \in {"csrf", "role", "act"} =>
         requests[r].session \in Sessions /\ Exists(requests[r].session)
    /\ requests[r].late => /\ requests[r].pc = "csrf"
                           /\ sessions[requests[r].session].status # "live"

\* Roles of callbacks, sessions and requests were had by their user.
RoleInv ==
  /\ \A u \in Subjects : RightsOf(u, realm[u]) \subseteq granted
  /\ \A r \in Requests : requests[r].pc = "create" =>
       \A role \in requests[r].roles : [subject |-> requests[r].subject, role |-> role] \in granted
  /\ \A s \in Sessions : Exists(s) =>
       \A role \in sessions[s].roles : [subject |-> sessions[s].subject, role |-> role] \in granted
  /\ RolesWereGranted

Inv == TypeOK /\ OneSessionPerLogin /\ LoginInv /\ UserInv /\ LateInv /\ RoleInv
=============================================================================
