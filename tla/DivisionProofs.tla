---------------------------- MODULE DivisionProofs ----------------------------
(***************************************************************************)
(* Theorems that rest on division with remainder.  Of Rsa, for every       *)
(* number of bits, every public exponent and whatever primes are drawn:    *)
(* every call of extendedGCD() returns a combination of its arguments that *)
(* divides both, and where it is 1 the two exponents are inverse to each   *)
(* other.  Of Sha: the block count of sha256() and the padding of Pad(),   *)
(* for every length.                                                       *)
(***************************************************************************)
EXTENDS Rsa, SequenceTheorems, TLAPS

Hash == INSTANCE Sha

-----------------------------------------------------------------------------
(* Arithmetic.                                                             *)

\* A remainder is determined by the equation of the division.
LEMMA RemainderUnique ==
  ASSUME NEW m \in Nat \ {0}, NEW k \in Int, NEW t \in Int, NEW r \in 0 .. m - 1,
         k = m * t + r
  PROVE  k % m = r
BY Z3

\* Every integer has a quotient and a remainder.
LEMMA RemainderForm ==
  ASSUME NEW m \in Nat \ {0}, NEW k \in Int
  PROVE  \E t \in Int, r \in 0 .. m - 1 : k = m * t + r /\ r = k % m
BY Z3

\* Division of natural numbers.
LEMMA DivisionForm ==
  ASSUME NEW a \in Nat, NEW b \in Nat \ {0}
  PROVE  /\ a \div b \in Nat /\ a % b \in Nat
         /\ a = b * (a \div b) + (a % b)
<1>1. PICK t \in Int, r \in 0 .. b - 1 : a = b * t + r /\ r = a % b
  <2>1. a \in Int
    OBVIOUS
  <2> QED BY <2>1, RemainderForm
<1>2. a \div b = t
  BY <1>1, Z3
<1>3. t >= 0
  <2>1. SUFFICES ASSUME t <= -1 PROVE FALSE
    BY <1>1
  <2>2. b * t <= b * (-1)
    BY <1>1, <2>1
  <2> QED BY <1>1, <2>2
<1> QED BY <1>1, <1>2, <1>3

\* What divides two numbers divides their combination.
LEMMA DividesBack ==
  ASSUME NEW a \in Nat, NEW b \in Nat \ {0}, NEW g \in Nat \ {0},
         Divides(g, b), Divides(g, a % b)
  PROVE  Divides(g, a)
<1>1. PICK k \in 0 .. b : b = g * k
  BY DEF Divides
<1>2. PICK l \in 0 .. (a % b) : a % b = g * l
  BY DivisionForm DEF Divides
<1> DEFINE w == a \div b
<1>3. w \in Nat /\ a = b * w + (a % b)
  BY DivisionForm
<1> HIDE DEF w
<1>4. a = g * (k * w + l)
  <2>1. b * w = g * (k * w)
    BY <1>1, <1>3
  <2>2. g * (k * w + l) = g * (k * w) + g * l
    BY <1>3
  <2>3. a = g * (k * w) + g * l
    BY <1>2, <1>3, <2>1
  <2> QED BY <2>2, <2>3
<1>5. k * w + l \in Nat
  <2>1. k \in Nat /\ l \in Nat
    OBVIOUS
  <2> QED BY <2>1, <1>3
<1>6. \A m \in Nat : m <= g * m
  OBVIOUS
<1>7. k * w + l \in 0 .. a
  BY <1>4, <1>5, <1>6
<1> QED BY <1>4, <1>7 DEF Divides

\* The step of extendedGCD() from the inner call to its caller.
LEMMA CombineRight ==
  ASSUME NEW a \in Nat, NEW b \in Nat \ {0}, NEW x \in Int, NEW y \in Int
  PROVE  a * y + b * (x - (a \div b) * y) = b * x + (a % b) * y
<1> DEFINE w == a \div b
           r == a % b
<1>1. w \in Nat /\ r \in Nat /\ a = b * w + r
  BY DivisionForm
<1> HIDE DEF w, r
<1>2. a * y = b * (w * y) + r * y
  BY <1>1
<1>3. b * (x - w * y) = b * x - b * (w * y)
  BY <1>1
<1>4. b * x \in Int /\ b * (w * y) \in Int /\ r * y \in Int
  BY <1>1
<1>5. a * y + b * (x - w * y) = b * x + r * y
  BY <1>2, <1>3, <1>4
<1> QED BY <1>5 DEF w, r

\* A combination that is 1 gives the inverse.
LEMMA InverseOfCombination ==
  ASSUME NEW a \in Nat, NEW f \in Nat, f > 1, NEW x \in Int, NEW y \in Int,
         a * x + f * y = 1
  PROVE  (a * ((x + f) % f)) % f = 1
<1>1. x + f \in Int /\ f \in Nat \ {0}
  OBVIOUS
<1>2. PICK t \in Int, r \in 0 .. f - 1 : x + f = f * t + r /\ r = (x + f) % f
  BY <1>1, RemainderForm
<1>3. a * r = f * (a - y - a * t) + 1
  <2>1. r = x + f - f * t
    BY <1>2
  <2>2. a * r = a * x + a * f - a * (f * t)
    BY <2>1
  <2>3. f * (a - y - a * t) = f * a - f * y - f * (a * t)
    OBVIOUS
  <2>4. a * f = f * a /\ a * (f * t) = f * (a * t)
    OBVIOUS
  <2>5. /\ a * x \in Int /\ f * a \in Int /\ f * y \in Int /\ f * (a * t) \in Int
    OBVIOUS
  <2> QED BY <2>2, <2>3, <2>4, <2>5
<1>4. a - y - a * t \in Int /\ a * r \in Int /\ 1 \in 0 .. f - 1
  BY <1>2
<1>5. (a * r) % f = 1
  <2> DEFINE k == a * r
             w == a - y - a * t
  <2>1. k \in Int /\ w \in Int /\ k = f * w + 1
    BY <1>3, <1>4
  <2> HIDE DEF k, w
  <2>2. k % f = 1
    BY <1>1, <1>4, <2>1, RemainderUnique
  <2> QED BY <2>2 DEF k
<1> QED BY <1>2, <1>5

-----------------------------------------------------------------------------
(* The inductive invariant.                                                *)

Call == [a : Nat, b : Nat]
Root == [a |-> e, b |-> phi]
Result == [gcd : Nat, x : Int, y : Int]

\* The calls that have not returned: each but the first is the inner call of
\* the one before it.
Linked ==
  \A i \in 1 .. Len(calls) :
    /\ calls[i].a > 0
    /\ i = 1 => calls[i] = Root
    /\ i > 1 => calls[i - 1].b # 0 /\ calls[i] = Inner(calls[i - 1])

\* What a call with the arguments c should return.
Right(c, r) ==
  /\ r.gcd > 0
  /\ c.a * r.x + c.b * r.y = r.gcd
  /\ Divides(r.gcd, c.a) /\ Divides(r.gcd, c.b)

\* Before there are primes.
Fresh == {"start", "aborted"}

RsaInv ==
  /\ RsaTypeOK
  /\ at \in Fresh => returned = NoResult
  /\ at \notin Fresh => p > 2 /\ q > 2
  /\ Linked
  /\ at = "return" /\ calls # <<>> => Caller.b # 0
  /\ at \notin Fresh \cup {"call"} => Right(Finished, returned)
  /\ at \notin {"call", "return"} => calls = <<>>
  /\ at \notin Fresh \cup {"call", "return"} => d = PrivateExponent(returned.x)

-----------------------------------------------------------------------------
(* The steps.                                                              *)

LEMMA InitRsa == Init => RsaInv
<1> SUFFICES ASSUME Init PROVE RsaInv
  OBVIOUS
<1>1. calls = <<>> /\ Len(calls) = 0 /\ calls \in Seq(Call)
  BY DEF Init
<1>2. RsaTypeOK
  <2>1. returned \in Result
    BY DEF Init, NoResult, Result
  <2>4. quiet \in BOOLEAN
    BY DEF Init
  <2>5. message \in Messages \cup {<<>>}
    BY DEF Init
  <2>2. p \in Nat /\ q \in Nat /\ d \in Nat
    BY DEF Init
  <2>3. at = "start"
    BY DEF Init
  <2> QED BY <1>1, <2>1, <2>2, <2>3, <2>4, <2>5 DEF RsaTypeOK, Call, Result
<1>3. Linked
  BY <1>1 DEF Linked
<1> QED BY <1>1, <1>2, <1>3 DEF Init, Fresh, RsaInv

\* generate_prime() returns odd numbers above 2.
LEMMA PrimesAreLarge ==
  ASSUME NEW c \in generate_prime(Bits)
  PROVE  c \in Nat /\ c > 2
<1>1. c \in 2 ^ (Bits - 1) .. 2 ^ Bits - 1 /\ c % 2 = 1 /\ miller_rabin_test(c)
  BY DEF generate_prime, Candidates
<1>2. c \in Int
  BY <1>1
<1>3. c = 2 \/ c > 2
  BY <1>1 DEF miller_rabin_test
<1>4. c # 2
  BY <1>1
<1> QED BY <1>2, <1>3, <1>4

LEMMA PhiPositive ==
  ASSUME NEW u \in Nat, NEW v \in Nat, u > 2, v > 2
  PROVE  (u - 1) * (v - 1) \in Nat /\ (u - 1) * (v - 1) > 1
<1>1. \A j, k \in Nat : j > 1 /\ k > 1 => j * k \in Nat /\ j * k > 1
  OBVIOUS
<1>2. u - 1 \in Nat /\ v - 1 \in Nat /\ u - 1 > 1 /\ v - 1 > 1
  OBVIOUS
<1> QED BY <1>1, <1>2

LEMMA PhiOf ==
  ASSUME RsaInv, at \notin Fresh
  PROVE  phi \in Nat /\ phi > 1
BY PhiPositive DEF Fresh, RsaInv, RsaTypeOK, phi

LEMMA AbortStep == ASSUME RsaInv, Abort PROVE RsaInv'
<1>1. RsaTypeOK'
  BY DEF RsaInv, RsaTypeOK, Abort, keyVars
<1>2. Linked'
  BY DEF RsaInv, Linked, Root, Abort, keyVars, phi
<1> QED BY <1>1, <1>2 DEF Fresh, RsaInv, Abort, keyVars

LEMMA StartStep == ASSUME RsaInv, GeneratePrimes PROVE RsaInv'
<1>1. p' \in Nat /\ p' > 2 /\ q' \in Nat /\ q' > 2
  BY PrimesAreLarge DEF GeneratePrimes
<1>2. phi' \in Nat /\ phi' > 1
  BY <1>1, PhiPositive DEF phi
<1>3. calls' = <<Root'>> /\ Root' \in Call /\ Root'.a > 0
  BY <1>2, RsaConstants DEF GeneratePrimes, Root, phi, Call
<1>4. calls' \in Seq(Call) /\ Len(calls') = 1 /\ calls'[1] = Root'
  <2> DEFINE r == Root'
  <2>1. r \in Call /\ calls' = <<r>>
    BY <1>3
  <2> HIDE DEF r
  <2>2. <<r>> \in Seq(Call) /\ Len(<<r>>) = 1 /\ <<r>>[1] = r
    BY <2>1
  <2> QED BY <2>1, <2>2 DEF r
<1>5. Linked'
  BY <1>3, <1>4 DEF Linked
<1>6. RsaTypeOK'
  BY <1>1, <1>4 DEF Fresh, RsaInv, RsaTypeOK, GeneratePrimes, Call
<1> QED BY <1>1, <1>5, <1>6 DEF Fresh, RsaInv, GeneratePrimes

\* The calls, as far as every step uses them.
LEMMA Calls ==
  ASSUME RsaInv, calls # <<>>
  PROVE  /\ Len(calls) \in Nat /\ Len(calls) > 0
         /\ \A i \in 1 .. Len(calls) : calls[i] \in Call
         /\ Caller \in Call /\ Caller.a \in Nat /\ Caller.b \in Nat /\ Caller.a > 0
<1>1. calls \in Seq(Call)
  BY DEF RsaInv, RsaTypeOK, Call
<1>2. Len(calls) \in Nat /\ Len(calls) > 0
  BY <1>1, EmptySeq
<1>3. \A i \in 1 .. Len(calls) : calls[i] \in Call
  BY <1>1, ElementOfSeq
<1>4. Caller \in Call /\ Caller.a > 0
  BY <1>2, <1>3 DEF RsaInv, Linked, Caller
<1> QED BY <1>2, <1>3, <1>4 DEF Call

LEMMA RecurseStep == ASSUME RsaInv, Recurse PROVE RsaInv'
<1> DEFINE N == Len(calls)
           c == Inner(Caller)
<1>1. calls # <<>> /\ Caller.b # 0
  BY DEF RsaInv, RsaTypeOK, Recurse
<1>2. c \in Call /\ c.a > 0
  <2>1. Caller.a \in Nat /\ Caller.b \in Nat \ {0}
    BY <1>1, Calls
  <2>2. Caller.a % Caller.b \in Nat
    BY <2>1, DivisionForm
  <2> QED BY <2>1, <2>2 DEF Inner, Call
<1>3. calls \in Seq(Call) /\ calls' = Append(calls, c)
  BY DEF RsaInv, RsaTypeOK, Call, Recurse
<1>4. N \in Nat /\ N > 0 /\ Caller = calls[N]
  BY <1>1, Calls DEF Caller
<1> HIDE DEF c
<1>5. /\ calls' \in Seq(Call) /\ Len(calls') = N + 1 /\ calls' # <<>>
      /\ \A i \in 1 .. N : calls'[i] = calls[i]
      /\ calls'[N + 1] = c
  BY <1>2, <1>3, <1>4, AppendProperties
<1>6. Linked'
  <2> HIDE DEF N
  <2>1. Root' = Root
    BY DEF Recurse, Root, phi
  <2>2. ASSUME NEW i \in 1 .. N + 1
        PROVE  /\ calls'[i].a > 0
               /\ i = 1 => calls'[i] = Root
               /\ i > 1 => calls'[i - 1].b # 0 /\ calls'[i] = Inner(calls'[i - 1])
    <3>1. CASE i = N + 1
      <4>1. i > 1 /\ i - 1 = N /\ N \in 1 .. N
        BY <3>1, <1>4
      <4>2. calls'[i - 1] = Caller /\ calls'[i] = c
        BY <3>1, <4>1, <1>4, <1>5
      <4> QED BY <1>1, <1>2, <4>1, <4>2 DEF c
    <3>2. CASE i \in 1 .. N
      <4>1. calls'[i] = calls[i] /\ (i > 1 => calls'[i - 1] = calls[i - 1])
        BY <3>2, <1>4, <1>5
      <4> QED BY <3>2, <4>1 DEF RsaInv, Linked, N
    <3> QED BY <3>1, <3>2, <1>4
  <2> QED BY <1>5, <2>1, <2>2 DEF Linked
<1>7. RsaTypeOK'
  BY <1>5 DEF RsaInv, RsaTypeOK, Recurse, Call
<1> QED BY <1>6, <1>7 DEF Fresh, RsaInv, Recurse

\* A call returns a result that is right for its arguments.
LEMMA ReturnStep ==
  ASSUME RsaInv, at \in {"call", "return"}, calls # <<>>,
         NEW r \in Result, Right(Caller, r), Return(r)
  PROVE  RsaInv'
<1> DEFINE N == Len(calls)
<1>1. calls \in Seq(Call) /\ N \in Nat /\ N > 0
  BY Calls DEF RsaInv, RsaTypeOK, Call
<1>2. calls' = SubSeq(calls, 1, N - 1)
  BY DEF Return
<1>3. /\ calls' \in Seq(Call) /\ Len(calls') = N - 1
      /\ \A i \in 1 .. N - 1 : calls'[i] = calls[i]
  <2> HIDE DEF N
  <2>1. N - 1 \in Int /\ 1 \in Int /\ \A i \in 1 .. N - 1 : calls[i] \in Call
    <3>1. \A i \in 1 .. N : calls[i] \in Call
      BY Calls DEF N
    <3> QED BY <1>1, <3>1
  <2> DEFINE s == SubSeq(calls, 1, N - 1)
  <2>2. /\ s \in Seq(Call)
        /\ Len(s) = IF 1 <= N - 1 THEN N - 1 - 1 + 1 ELSE 0
        /\ \A i \in 1 .. N - 1 - 1 + 1 : s[i] = calls[1 + i - 1]
    BY <2>1, SubSeqProperties
  <2> HIDE DEF s
  <2>3. Len(s) = N - 1
    BY <1>1, <2>2
  <2>4. \A i \in 1 .. N - 1 : i \in 1 .. N - 1 - 1 + 1 /\ 1 + i - 1 = i
    BY <1>1
  <2>5. \A i \in 1 .. N - 1 : s[i] = calls[i]
    BY <2>2, <2>4
  <2>6. calls' = s
    BY <1>2 DEF s
  <2> QED BY <2>2, <2>3, <2>5, <2>6
<1>4. Linked'
  <2> HIDE DEF N
  <2>1. Root' = Root
    BY DEF Return, Root, phi
  <2>2. ASSUME NEW i \in 1 .. N - 1
        PROVE  /\ calls'[i].a > 0
               /\ i = 1 => calls'[i] = Root
               /\ i > 1 => calls'[i - 1].b # 0 /\ calls'[i] = Inner(calls'[i - 1])
    <3>1. i \in 1 .. N /\ calls'[i] = calls[i] /\ (i > 1 => calls'[i - 1] = calls[i - 1])
      BY <1>1, <1>3
    <3> QED BY <3>1 DEF RsaInv, Linked, N
  <2> QED BY <1>3, <2>1, <2>2 DEF Linked
<1>5. Finished' = Caller /\ (calls' # <<>> => Caller'.b # 0)
  <2>1. CASE N = 1
    <3>1. calls' = <<>>
      BY <1>3, <2>1, EmptySeq
    <3>2. Caller = Root
      BY <2>1 DEF RsaInv, Linked, Caller
    <3> QED BY <3>1, <3>2 DEF Finished, Root, Return, phi
  <2>2. CASE N > 1
    <3>1. calls' # <<>> /\ Caller' = calls[N - 1]
      BY <1>1, <1>3, <2>2, EmptySeq DEF Caller
    <3>2. calls[N - 1].b # 0 /\ calls[N] = Inner(calls[N - 1])
      BY <1>1, <2>2 DEF RsaInv, Linked
    <3> QED BY <3>1, <3>2 DEF Finished, Caller
  <2> HIDE DEF N
  <2>3. N = 1 \/ N > 1
    BY <1>1
  <2> QED BY <2>1, <2>2, <2>3
<1>6. RsaTypeOK'
  BY <1>3 DEF RsaInv, RsaTypeOK, Return, Call, Result
<1>7. Right(Finished, returned)'
  BY <1>5 DEF Right, Return
<1> QED BY <1>4, <1>5, <1>6, <1>7 DEF Fresh, RsaInv, Return

LEMMA ReturnBaseStep == ASSUME RsaInv, ReturnBase PROVE RsaInv'
<1> DEFINE r == [gcd |-> Caller.a, x |-> 1, y |-> 0]
<1>1. at = "call" /\ calls # <<>> /\ Caller.b = 0 /\ Return(r)
  BY DEF RsaInv, RsaTypeOK, ReturnBase
<1>2. Caller.a \in Nat /\ Caller.a > 0
  BY <1>1, Calls
<1>3. r \in Result /\ r.gcd = Caller.a /\ r.x = 1 /\ r.y = 0
  BY <1>2 DEF Result
<1>4. \A a \in Nat : a = a * 1 /\ 0 = a * 0 /\ a * 1 + 0 * 0 = a
  OBVIOUS
<1>5. Divides(Caller.a, Caller.a) /\ Divides(Caller.a, 0)
  <2>1. 1 \in 0 .. Caller.a /\ 0 \in 0 .. 0
    BY <1>2
  <2> QED BY <1>2, <1>4, <2>1 DEF Divides
<1> HIDE DEF r
<1>6. Right(Caller, r)
  BY <1>1, <1>2, <1>3, <1>4, <1>5 DEF Right
<1> QED BY <1>1, <1>3, <1>6, ReturnStep

LEMMA ReturnCombinedStep == ASSUME RsaInv, ReturnCombined PROVE RsaInv'
<1> DEFINE r == Combine(Caller, returned)
           a == Caller.a
           b == Caller.b
           g == returned.gcd
           x == returned.x
           y == returned.y
<1>1. at = "return" /\ calls # <<>> /\ Return(r)
  BY DEF ReturnCombined
<1>2. a \in Nat /\ b \in Nat \ {0}
  BY <1>1, Calls DEF RsaInv
<1>3. g \in Nat /\ x \in Int /\ y \in Int
  BY DEF RsaInv, RsaTypeOK
<1>4. g > 0 /\ b * x + (a % b) * y = g /\ Divides(g, b) /\ Divides(g, a % b)
  BY <1>1 DEF Fresh, RsaInv, Right, Finished, Inner
<1>5. a \div b \in Nat
  BY <1>2, DivisionForm
<1>6. r = [gcd |-> g, x |-> y, y |-> x - (a \div b) * y]
  BY DEF Combine
<1>7. r \in Result /\ r.gcd = g /\ r.x = y /\ r.y = x - (a \div b) * y
  <2> DEFINE z == x - (a \div b) * y
  <2>1. z \in Int
    BY <1>3, <1>5
  <2>2. r = [gcd |-> g, x |-> y, y |-> z]
    BY <1>6
  <2> HIDE DEF z, r
  <2>3. r \in Result /\ r.gcd = g /\ r.x = y /\ r.y = z
    BY <1>3, <2>1, <2>2 DEF Result
  <2> QED BY <2>3 DEF z
<1>8. a * r.x + b * r.y = g
  <2> HIDE DEF a, b, g, x, y, r
  <2>1. a * y + b * (x - (a \div b) * y) = b * x + (a % b) * y
    BY <1>2, <1>3, CombineRight
  <2> QED BY <1>4, <1>7, <2>1
<1>9. Divides(g, a)
  <2>1. g \in Nat \ {0}
    BY <1>3, <1>4
  <2> QED BY <1>2, <1>4, <2>1, DividesBack
<1>10. Right(Caller, r)
  BY <1>4, <1>7, <1>8, <1>9 DEF Right
<1> HIDE DEF r
<1> QED BY <1>1, <1>7, <1>10, ReturnStep

LEMMA SaveStep == ASSUME RsaInv, SaveKeys PROVE RsaInv'
<1>1. at = "return" /\ calls = <<>> /\ phi \in Nat \ {0}
  BY PhiOf DEF SaveKeys, Fresh, RsaInv
<1>2. d' = (returned.x + phi) % phi
  BY DEF SaveKeys, PrivateExponent
<1>3. d' \in Nat
  <2> DEFINE k == returned.x + phi
  <2>1. k \in Int
    BY <1>1 DEF RsaInv, RsaTypeOK
  <2> HIDE DEF k
  <2>2. k % phi \in Nat
    BY <1>1, <2>1, RemainderForm
  <2> QED BY <1>2, <2>2 DEF k
<1>4. RsaTypeOK'
  BY <1>3 DEF RsaInv, RsaTypeOK, SaveKeys
<1>5. d' = PrivateExponent(returned.x)'
  BY <1>2 DEF SaveKeys, PrivateExponent, phi
<1>6. Linked' /\ Right(Finished, returned)'
  BY <1>1 DEF Fresh, RsaInv, SaveKeys, Linked, Root, Right, Finished, phi
<1> QED BY <1>1, <1>4, <1>5, <1>6 DEF Fresh, RsaInv, SaveKeys

\* What leaves the keys as they are.
LEMMA KeysKept ==
  ASSUME RsaInv, at \in {"keys", "encoded"}, UNCHANGED keyVars,
         at' \in {"encoded", "decoded", "crashed"},
         message' \in Messages \cup {<<>>}, quiet' \in BOOLEAN
  PROVE  RsaInv'
<1>1. RsaTypeOK'
  BY DEF RsaInv, RsaTypeOK, keyVars
<1>2. Linked' /\ Right(Finished, returned)'
  BY DEF Fresh, RsaInv, keyVars, Linked, Root, Right, Finished, Caller, phi
<1>3. d' = PrivateExponent(returned.x)'
  BY DEF Fresh, RsaInv, keyVars, PrivateExponent, phi
<1> QED BY <1>1, <1>2, <1>3 DEF Fresh, RsaInv, keyVars

LEMMA EncodeStep == ASSUME RsaInv, NEW m \in Messages, Encode(m) PROVE RsaInv'
BY KeysKept DEF Encode, Fresh, RsaInv, RsaTypeOK

LEMMA DecodeStep ==
  ASSUME RsaInv, NEW silent \in BOOLEAN, Decode(silent) PROVE RsaInv'
<1>1. at = "encoded" /\ quiet' \in BOOLEAN /\ UNCHANGED <<keyVars, message>>
  BY DEF Decode
<1>2. at' \in {"decoded", "crashed"}
  BY DEF Decode
<1>3. message' \in Messages \cup {<<>>}
  BY <1>1 DEF RsaInv, RsaTypeOK
<1> QED BY <1>1, <1>2, <1>3, KeysKept

LEMMA StutterRsa == ASSUME RsaInv, UNCHANGED vars PROVE RsaInv'
BY DEF vars, Fresh, RsaInv, RsaTypeOK, Linked, Root, Right, Finished, Caller,
       PrivateExponent, phi

-----------------------------------------------------------------------------
(* The theorems.                                                           *)

\* Every reachable state satisfies the invariant.
THEOREM RsaAlways == Spec => []RsaInv
<1>1. RsaInv /\ [Next]_vars => RsaInv'
  BY StartStep, AbortStep, RecurseStep, ReturnBaseStep, ReturnCombinedStep, SaveStep,
     EncodeStep, DecodeStep, StutterRsa DEF Next
<1> QED BY InitRsa, <1>1, PTL DEF Spec

\* The variables have their types.
THEOREM RsaTypes == Spec => []RsaTypeOK
<1>1. RsaInv => RsaTypeOK
  BY DEF RsaInv
<1> QED BY RsaAlways, <1>1, PTL

\* Whenever a call of extendedGCD() returns, at whatever depth, its result is
\* the combination x, y of its own arguments, and divides them.
THEOREM RsaBezout == Spec => []Bezout
<1>1. RsaInv => Bezout
  BY DEF Fresh, RsaInv, Right, Bezout
<1> QED BY RsaAlways, <1>1, PTL

\* Where the gcd is 1 the saved exponents are inverse to each other.
THEOREM RsaKeysInverse == Spec => []KeysAreInverse
<1>1. RsaInv => KeysAreInverse
  <2> SUFFICES ASSUME RsaInv, at \notin {"call", "return"}, returned.gcd = 1
               PROVE  d \in 0 .. phi - 1 /\ (e * d) % phi = 1
    BY DEF KeysAreInverse
  <2>0. at \notin Fresh
    BY DEF RsaInv, NoResult
  <2>1. calls = <<>> /\ Right(Finished, returned) /\ d = (returned.x + phi) % phi
    BY <2>0 DEF Fresh, RsaInv, PrivateExponent
  <2>2. e * returned.x + phi * returned.y = 1
    BY <2>1 DEF Right, Finished
  <2>3. returned.x \in Int /\ returned.y \in Int /\ e \in Nat
    BY RsaConstants DEF RsaInv, RsaTypeOK
  <2>4. phi \in Nat /\ phi > 1
    BY <2>0, PhiOf
  <2> HIDE DEF phi
  <2>5. (e * ((returned.x + phi) % phi)) % phi = 1
    BY <2>2, <2>3, <2>4, InverseOfCombination
  <2>6. (returned.x + phi) % phi \in 0 .. phi - 1
    BY <2>3, <2>4
  <2> QED BY <2>1, <2>5, <2>6
<1> QED BY RsaAlways, <1>1, PTL

-----------------------------------------------------------------------------
(* The blocks of sha256().                                                 *)

\* calc_n_of_zeroes() returns less than a block, and fills up to the room for the
\* length.
LEMMA Zeroes ==
  ASSUME NEW len \in Nat
  PROVE  /\ Hash!calc_n_of_zeroes(len) \in 0 .. Hash!Block - 1
         /\ (len + 1 + Hash!calc_n_of_zeroes(len)) % Hash!Block = Hash!LengthAt
BY Z3 DEF Hash!calc_n_of_zeroes, Hash!Block, Hash!LengthAt

\* The length of what Pad() returns, from the rest of the message.
LEMMA Lengths ==
  ASSUME NEW len \in Nat, NEW full \in Nat, NEW rest \in 0 .. Hash!Block - 1,
         len = Hash!Block * full + rest
  PROVE  /\ len % Hash!Block = rest
         /\ Hash!HashedBlocks(len) = full + 1
         /\ Hash!PaddedLen(len) = IF rest < Hash!LengthAt THEN Hash!Block * (full + 1)
                                   ELSE Hash!Block * (full + 2)
<1>1. len % Hash!Block = rest /\ len \div Hash!Block = full
  BY Z3 DEF Hash!Block
<1>2. CASE rest < Hash!LengthAt
  <2>1. Hash!calc_n_of_zeroes(len) = Hash!LengthAt - rest - 1
    BY <1>2, Z3 DEF Hash!calc_n_of_zeroes, Hash!Block, Hash!LengthAt
  <2> QED BY <1>1, <1>2, <2>1
      DEF Hash!PaddedLen, Hash!HashedBlocks, Hash!Block, Hash!LengthAt, Hash!LenSize
<1>3. CASE rest >= Hash!LengthAt
  <2>1. Hash!calc_n_of_zeroes(len) = Hash!Block + Hash!LengthAt - rest - 1
    BY <1>3, Z3 DEF Hash!calc_n_of_zeroes, Hash!Block, Hash!LengthAt
  <2>2. ~(rest < Hash!LengthAt)
    BY <1>3 DEF Hash!LengthAt, Hash!Block
  <2>3. Hash!PaddedLen(len) = len + Hash!Block + Hash!LengthAt - rest + Hash!LenSize
    BY <2>1 DEF Hash!PaddedLen, Hash!Block, Hash!LengthAt, Hash!LenSize
  <2> QED BY <1>1, <2>2, <2>3
      DEF Hash!HashedBlocks, Hash!Block, Hash!LengthAt, Hash!LenSize
<1> QED BY <1>2, <1>3 DEF Hash!Block, Hash!LengthAt

\* The blocks sha256() goes through lie in what Pad() wrote, and leave out its last
\* block exactly when the length has no room in the block of the last bytes, for
\* messages of any length.
THEOREM ShaBlocks == \A len \in Nat : Hash!BlocksInside(len)
<1> SUFFICES ASSUME NEW len \in Nat PROVE Hash!BlocksInside(len)
  OBVIOUS
<1> DEFINE full == len \div Hash!Block
           rest == len % Hash!Block
<1>1. full \in Nat /\ rest \in 0 .. Hash!Block - 1 /\ len = Hash!Block * full + rest
  BY Z3 DEF Hash!Block
<1> HIDE DEF full, rest
<1>2. /\ len % Hash!Block = rest
      /\ Hash!HashedBlocks(len) = full + 1
      /\ Hash!PaddedLen(len) = IF rest < Hash!LengthAt THEN Hash!Block * (full + 1)
                                ELSE Hash!Block * (full + 2)
  BY <1>1, Lengths
<1>3. Hash!PaddedLen(len) % Hash!Block = 0
  BY <1>1, <1>2, Z3 DEF Hash!Block
<1>4. /\ Hash!HashedBlocks(len) * Hash!Block <= Hash!PaddedLen(len)
      /\ Hash!HashedBlocks(len) * Hash!Block = Hash!PaddedLen(len) <=> rest < Hash!LengthAt
  BY <1>1, <1>2, Z3 DEF Hash!Block, Hash!LengthAt
<1> QED BY <1>2, <1>3, <1>4 DEF Hash!BlocksInside, Hash!Fits

\* The padding always takes the fewest bytes that leave room for the length in the
\* last block.
THEOREM ShaPads ==
  \A len \in Nat : /\ len + 1 + Hash!LenSize <= Hash!PaddedLen(len)
                   /\ Hash!PaddedLen(len) < len + 1 + Hash!LenSize + Hash!Block
<1> SUFFICES ASSUME NEW len \in Nat
             PROVE  /\ len + 1 + Hash!LenSize <= Hash!PaddedLen(len)
                    /\ Hash!PaddedLen(len) < len + 1 + Hash!LenSize + Hash!Block
  OBVIOUS
<1> DEFINE zeroes == Hash!calc_n_of_zeroes(len)
<1>1. zeroes \in 0 .. Hash!Block - 1
  BY Zeroes
<1>2. Hash!PaddedLen(len) = len + 1 + zeroes + Hash!LenSize
  BY DEF Hash!PaddedLen
<1> HIDE DEF zeroes
<1> QED BY <1>1, <1>2 DEF Hash!LenSize, Hash!Block
=============================================================================
