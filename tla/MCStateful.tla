----------------------------- MODULE MCStateful -----------------------------
(* Instances of Stateful for TLC. *)
EXTENDS Stateful, TLC

CONSTANTS p1, p2, o1, o2, rel1, rel2

Replace(op) == [kind |-> "replace", op |-> op, member |-> 0]
Update(op, ms) == [kind |-> "update", op |-> op, members |-> ms, rel |-> rel2]
Apply(op) == [kind |-> "apply", op |-> op]

Both(a, b, r) == [jobs |-> p1 :> a @@ p2 :> b, recipe |-> r]

\* Two replacements of one member; a replacement beside an ordered update of
\* the same member, with a recipe, or of another member, without; two updates;
\* an apply beside each.
Overlapping ==
  {Both(Replace(o1), Replace(o2), FALSE),
   Both(Replace(o1), Update(o2, {0, 1}), TRUE),
   Both(Replace(o1), Update(o2, {1}), FALSE),
   Both(Update(o1, {0, 1}), Update(o2, {0, 1}), TRUE),
   Both(Replace(o1), Apply(o2), TRUE),
   Both(Update(o1, {0, 1}), Apply(o2), FALSE)}

\* AWS, where no recipe exists: a replacement and an ordered update of the
\* same member.
NoRecipe == {Both(Replace(o1), Update(o2, {0, 1}), FALSE)}
=============================================================================
