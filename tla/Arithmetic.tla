----------------------------- MODULE Arithmetic -----------------------------
(***************************************************************************)
(* The arithmetic that computes sizes (include/patton/detail/              *)
(* arithmetic.hpp).  max is the largest value of the unsigned type; what   *)
(* exceeds it wraps around.                                                *)
(***************************************************************************)
EXTENDS Integers

\* try_ceili, without the check for overflow.
Ceil(x, d) == IF x = 0 THEN 0 ELSE x + d - ((x - 1) % d) - 1

Wrap(x, max) == x % (max + 1)

\* arithmetic_result: a value, or that it is too large.
Value(x) == [value |-> x, ok |-> TRUE]
TooLarge == [value |-> 0, ok |-> FALSE]

\* Mistake: the product is compared with what has wrapped around already.
try_multiply_unsignedAfter(a, b, max) ==
    IF Wrap(a * b, max) < a THEN TooLarge ELSE Value(Wrap(a * b, max))

try_multiply_unsigned(a, b, max) ==
    IF b > 0 /\ a > max \div b THEN TooLarge ELSE Value(Wrap(a * b, max))

\* Mistake: the largest multiple that fits is taken for too large.
try_ceiliTooLarge(x, d, max) ==
    LET dx == Wrap(d - ((x - 1) % d) - 1, max)
    IN  IF x = 0 THEN Value(0)
        ELSE IF x >= max - dx THEN TooLarge ELSE Value(Wrap(x + dx, max))

try_ceili(x, d, max) ==
    LET dx == Wrap(d - ((x - 1) % d) - 1, max)
    IN  IF x = 0 THEN Value(0)
        ELSE IF x > max - dx THEN TooLarge ELSE Value(Wrap(x + dx, max))

----------------------------------------------------------------------------

\* The least multiple of d that is not less than x: the ceiling of x / d, times d.
IsCeiling(y, x, d) == y % d = 0 /\ x <= y /\ y < x + d

\* Sizes are computed exactly or not at all (aligned_buffer, aligned_row_buffer and
\* large_page_alloc): a result is reported to be too large exactly if it is, and is the
\* mathematical one otherwise, up to the largest value there is.
ExactUpToTheLimit(x, d, max) ==
    /\ try_multiply_unsigned(x, d, max) = IF x * d <= max THEN Value(x * d) ELSE TooLarge
    /\ d > 0 =>
           LET r == try_ceili(x, d, max)
           IN  IF r.ok THEN r.value <= max /\ IsCeiling(r.value, x, d)
               ELSE \A y \in x .. max : ~IsCeiling(y, x, d)

==============================================================================
