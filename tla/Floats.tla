-------------------------------- MODULE Floats --------------------------------
(***************************************************************************)
(* What the code's float64 comparisons do, over fractions <<n, d>>: d > 0  *)
(* for a number, <<1, 0>> for +Inf and <<0, 0>> for NaN.  A comparison     *)
(* with NaN is false, in either direction.  Rounding errors are left out.  *)
(***************************************************************************)
EXTENDS Integers

NaN  == <<0, 0>>
Inf  == <<1, 0>>
Zero == <<0, 1>>
One  == <<1, 1>>

\* A text, or a JSON value of another type, that does not parse as a number.
Malformed == <<0, -1>>

IsFloat(x) == x \in Int \X Nat /\ (x[2] = 0 => x[1] \in -1 .. 1)

Less(x, y)   == x[1] * y[2] < y[1] * x[2]
AtMost(x, y) == NaN \notin {x, y} /\ ~Less(y, x)

Clamp(x) == IF Less(x, Zero) THEN Zero ELSE IF Less(One, x) THEN One ELSE x

\* FormatFloat(x, 'f', 4, 64): the number of ten-thousandths nearest to x.
Digits == 10000
FormatFloat(x) == (2 * Digits * x[1] + x[2]) \div (2 * x[2])
=============================================================================
