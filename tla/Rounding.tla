------------------------------- MODULE Rounding -------------------------------
(***************************************************************************)
(* Python's round(), sum() and statistics.median, of whole numbers.        *)
(***************************************************************************)
EXTENDS Integers, Sequences, SequencesExt

\* round() of a quotient: half to even.
Rounded(n, d) ==
  LET q == n \div d
      twice == 2 * (n % d)
  IN  IF twice > d \/ (twice = d /\ q % 2 = 1) THEN q + 1 ELSE q

\* sum() of what a function gives.
Total(f) == SumFunctionOnSet(f, DOMAIN f)

\* The same of a field of records.
SumOver(S, field) == Total([x \in S |-> x[field]])

\* round() of the median; 0, for None, of nothing.
Median(numbers) ==
  LET sorted == SortSeq(numbers, LAMBDA x, y : x < y)
      half   == Len(numbers) \div 2
  IN  IF numbers = <<>> THEN 0
      ELSE IF Len(numbers) % 2 = 1 THEN sorted[half + 1]
      ELSE Rounded(sorted[half] + sorted[half + 1], 2)
=============================================================================
