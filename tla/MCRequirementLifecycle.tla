----------------------- MODULE MCRequirementLifecycle -----------------------
EXTENDS RequirementLifecycle, TLC

\* Rows that do not exist hold one of the texts, which nothing reads.
Symmetry == Permutations(Rows) \cup Permutations(Texts)
              \cup Permutations(Editors) \cup Permutations(Procs)

\* What tells two states apart.  A token is only ever compared with the one a
\* form remembers, a form whose token is not the row's can only be closed, and
\* the columns of a row that does not exist are never read.
Saveable(e) == form[e].row \in live /\ ver[form[e].row].token = form[e].token

FormView ==
  [e \in Editors |->
     IF Saveable(e) THEN <<form[e].row, form[e].text, form[e].status>>
     ELSE <<form[e].row>>]

View ==
  <<present, archived, selected, linked, FormView, call,
    [r \in live |-> [ver[r] EXCEPT !.token = 0]]>>

\* With the history that PublishedWasReviewed reads.
HistoryView == <<View, [r \in live |-> reviewed[r]]>>
=============================================================================
