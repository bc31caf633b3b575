-------------------------------- MODULE Steps --------------------------------
(***************************************************************************)
(* Loops of the source as functions: an operation repeated, or applied to  *)
(* the members of a sequence in turn.  A loop's value is computed once a   *)
(* round, and in rounds of sixteen, to spare the stack of the checker.     *)
(***************************************************************************)
EXTENDS Naturals, Sequences

Once(Op(_), x) == CHOOSE y \in {Op(v) : v \in {x}} : TRUE

Repeat(Op(_), x, n) ==
  LET some(y, m) == LET f[k \in 0..m] == IF k = 0 THEN y ELSE Once(Op, f[k - 1])
                    IN f[m]
      sixteen(y) == some(y, 16)
      rest(y) == some(y, n % 16)
      f[k \in 0..(n \div 16)] == IF k = 0 THEN x ELSE Once(sixteen, f[k - 1])
  IN Once(rest, f[n \div 16])

Fold(Op(_, _), x, s) ==
  LET step(p) == [v |-> Op(p.v, s[p.i]), i |-> p.i + 1]
  IN Repeat(step, [v |-> x, i |-> 1], Len(s)).v
==============================================================================
