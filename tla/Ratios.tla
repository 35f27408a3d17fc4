-------------------------------- MODULE Ratios --------------------------------
(***************************************************************************)
(* Exact arithmetic on the quantities the Fortran code keeps as REAL: a      *)
(* ratio is a pair of integers in lowest terms, of which the second is      *)
(* positive, so that equal quantities are equal values.                     *)
(***************************************************************************)
EXTENDS Integers, SequencesExt

\* In lowest terms, the denominator is the least that n / d can have.
Denominator(n, d) == CHOOSE b \in 1..d : (n * b) % d = 0 /\ \A c \in 1..(b - 1) : (n * c) % d # 0
Ratio(n, d) == LET b == Denominator(n, d) IN <<(n * b) \div d, b>>
Rationals == {q \in Int \X (Nat \ {0}) : q = Ratio(q[1], q[2])}

Q(n) == <<n, 1>>
Zero == Q(0)

\* The operations are functions: TLC evaluates the arguments of those but once.
Pairs == Int \X Int
Added[p \in Pairs] == [q \in Pairs |-> Ratio(p[1] * q[2] + q[1] * p[2], p[2] * q[2])]
Multiplied[p \in Pairs] == [q \in Pairs |-> Ratio(p[1] * q[1], p[2] * q[2])]
Inverted[q \in Pairs] == IF q[1] > 0 THEN <<q[2], q[1]>> ELSE <<-q[2], -q[1]>>
Negated[q \in Pairs] == <<-q[1], q[2]>>
Smaller[p \in Pairs] == [q \in Pairs |-> p[1] * q[2] < q[1] * p[2]]

Plus(p, q)  == Added[p][q]
Minus(p, q) == Added[p][Negated[q]]
Times(p, q) == Multiplied[p][q]
\* q is not zero
Over(p, q)  == Multiplied[p][Inverted[q]]
Less(p, q)  == Smaller[p][q]
AtMost(p, q) == ~Less(q, p)
Amounts == {q \in Rationals : AtMost(Zero, q)}
Larger(p, q) == IF Less(p, q) THEN q ELSE p
SeqTotal(seq) ==
  LET total[n \in 0..Len(seq)] == IF n = 0 THEN Zero ELSE Plus(total[n - 1], seq[n])
  IN  total[Len(seq)]
===============================================================================
