----------------------------- MODULE Arithmetic -----------------------------
(***************************************************************************)
(* The loops of src/essential_func.c, as functions of their arguments.     *)
(***************************************************************************)
EXTENDS Integers

\* fast_power_mod(): square and multiply.  The result is reduced only when it
\* has been multiplied.
PowerLoop(m) ==
  LET loop[result \in Nat, base \in Nat, exp \in Nat] ==
        IF exp = 0 THEN result
        ELSE loop[IF exp % 2 = 1 THEN (result * base) % m ELSE result,
                  (base * base) % m, exp \div 2]
  IN  loop
fast_power_mod(base, exp, m) == PowerLoop(m)[1, base, exp]

\* fast_power_mod(x, x, two, n) in miller_rabin_test(): the result is set to 1
\* before the base is copied, and they are one variable.
SquareInPlace(x, n) == fast_power_mod(1, 2, n)

\* n - 1 = 2^s * q with q odd.
OddPart(m) == LET halve[k \in Nat] == IF k % 2 = 0 THEN halve[k \div 2] ELSE k
              IN  halve[m]

\* One round of miller_rabin_test() with the random number a.  The counter of
\* the inner loop is not initialized: the loop is left before its first
\* iteration, or iterates and finds n - 1 or 1.
Round(n, a) ==
  LET x == fast_power_mod(a, OddPart(n - 1), n) IN
    x = 1 \/ x = n - 1 \/ SquareInPlace(x, n) = n - 1

\* (Slip: one good round is enough.)
miller_rabin_test_Once(n) ==
  n = 2 \/ (n > 2 /\ n % 2 = 1 /\ \E a \in 1 .. n - 1 : Round(n, a))

\* k rounds of random numbers find one that fails if there are any (but for a
\* probability of 4^-k; generate_prime() has k = 40).
miller_rabin_test(n) ==
  n = 2 \/ (n > 2 /\ n % 2 = 1 /\ \A a \in 1 .. n - 1 : Round(n, a))

\* What generate_prime() draws: numbers of so many bits, the highest and the
\* lowest of which are set.
Candidates(bits) == {c \in 2 ^ (bits - 1) .. 2 ^ bits - 1 : c % 2 = 1}
generate_prime(bits) == {c \in Candidates(bits) : miller_rabin_test(c)}
=============================================================================
