SPECIFICATION Spec
CONSTANTS
  States = {st1, st2}
  Sessions = {s1, s2}
  Subjects = {u1, u2}
  oidc_subject_id <- MCSubjectId
  Memberships <- MCMemberships
  Requests = {r1, r2}
  None = None
SYMMETRY Symmetry
INVARIANTS OneSessionPerLogin SessionOfItsUser EndedSessionIsDead RolesWereGranted
