------------------------------- MODULE MCOidc -------------------------------
(* TLC instance of Oidc. *)
EXTENDS Oidc, TLC

MCSubjectId(u) == <<"sha256", u>>

\* An organizer, or an operator with a group that has no meaning here.
MCMemberships == {{"openpool-organizer"}, {"operator", "staff"}}

Symmetry == Permutations(States) \cup Permutations(Sessions)
              \cup Permutations(Subjects) \cup Permutations(Requests)
=============================================================================
