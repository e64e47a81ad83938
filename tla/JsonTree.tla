------------------------------ MODULE JsonTree ------------------------------
(* JSON values as functions from the paths in them to what is there.  A path *)
(* is a sequence of steps.                                                   *)
EXTENDS Naturals, Sequences, FiniteSets, SequencesExt

Under(v, s) == {p \in DOMAIN v : IsPrefix(s, p)}
Without(v, S) == [p \in DOMAIN v \ S |-> v[p]]

\* The value at a path.
Below(v, s) == [q \in {SubSeq(p, Len(s) + 1, Len(p)) : p \in Under(v, s)} |-> v[s \o q]]

\* A value with what is at a path replaced.
Placed(v, s, w) ==
  LET kept == DOMAIN v \ Under(v, s)
      new  == {s \o q : q \in DOMAIN w}
  IN  [p \in kept \cup new |-> IF p \in new THEN w[SubSeq(p, Len(s) + 1, Len(p))] ELSE v[p]]

=============================================================================
