------------------------------ MODULE FiatProofs ------------------------------
(***************************************************************************)
(* Theorems about FiatId, for any key pairs and any number of rounds, with *)
(* either program killed anywhere and the key files rewritten while they   *)
(* are loaded.                                                             *)
(*                                                                         *)
(* InStep is not inductive: Lockstep says where exactly the prover is, and *)
(* what is on its way, for every place the verifier can be at.             *)
(***************************************************************************)
EXTENDS FiatId, SequenceTheorems, TLAPS

-----------------------------------------------------------------------------
(* Completeness of a round.                                                *)

\* A remainder is determined by the equation of the division.
LEMMA ModUnique ==
  ASSUME NEW n \in Nat \ {0}, NEW m \in Int, NEW q \in Int, NEW t \in 0 .. n - 1,
         m = n * q + t
  PROVE  m % n = t
BY Z3

\* Every integer has a quotient and a remainder.
LEMMA ModForm ==
  ASSUME NEW n \in Nat \ {0}, NEW m \in Int
  PROVE  \E q \in Int, t \in 0 .. n - 1 : m = n * q + t /\ t = m % n
BY Z3

\* A factor may be reduced first.
LEMMA ModFactor ==
  ASSUME NEW n \in Nat \ {0}, NEW a \in Int, NEW b \in Int
  PROVE  (a * (b % n)) % n = (a * b) % n
<1>1. PICK q \in Int, t \in 0 .. n - 1 : b = n * q + t /\ t = b % n
  BY ModForm
<1> DEFINE at == a * t
<1>2. at \in Int
  OBVIOUS
<1> HIDE DEF at
<1>3. PICK w \in Int, u \in 0 .. n - 1 : at = n * w + u /\ u = at % n
  BY <1>2, ModForm
<1>4. a * b = n * (a * q + w) + u
  <2>1. a * b = a * (n * q) + a * t
    BY <1>1
  <2>2. a * (n * q) = n * (a * q)
    OBVIOUS
  <2>3. n * (a * q + w) = n * (a * q) + n * w
    OBVIOUS
  <2>4. a * t = n * w + u
    BY <1>3 DEF at
  <2>5. n * (a * q) \in Int /\ n * w \in Int /\ u \in Int
    OBVIOUS
  <2> QED BY <2>1, <2>2, <2>3, <2>4, <2>5
<1>5. a * q + w \in Int /\ a * b \in Int
  OBVIOUS
<1>6. (a * b) % n = u
  BY <1>4, <1>5, ModUnique
<1>7. (a * (b % n)) % n = u
  BY <1>1, <1>3 DEF at
<1> QED BY <1>6, <1>7

\* So may both.
LEMMA ModFactors ==
  ASSUME NEW n \in Nat \ {0}, NEW a \in Int, NEW b \in Int
  PROVE  ((a % n) * (b % n)) % n = (a * b) % n
<1>1. a % n \in Int
  BY ModForm
<1>2. ((a % n) * (b % n)) % n = ((a % n) * b) % n
  BY <1>1, ModFactor
<1>3. (a % n) * b = b * (a % n) /\ a * b = b * a
  BY <1>1
<1>4. (b * (a % n)) % n = (b * a) % n
  BY ModFactor
<1> QED BY <1>2, <1>3, <1>4

\* Products of remainders may be taken apart, whatever stands in the product.
LEMMA Square ==
  ASSUME NEW n \in Nat \ {0}, NEW a \in Int, NEW b \in Int
  PROVE  (a * b) * (a * b) = (a * a) * (b * b)
<1>1. (a * b) * (a * b) = a * (b * (a * b))
  OBVIOUS
<1>2. b * (a * b) = a * (b * b)
  OBVIOUS
<1>3. a * (a * (b * b)) = (a * a) * (b * b)
  OBVIOUS
<1> QED BY <1>1, <1>2, <1>3

\* The two equations of the verifier, without the programs around them.
LEMMA RoundEquations ==
  ASSUME NEW n \in Nat \ {0}, NEW s \in Int, NEW a \in Int
  PROVE  /\ ((a % n) * (a % n)) % n = (((a * a) % n) * 1) % n
         /\ ((((a * (s % n)) % n)) * ((a * (s % n)) % n)) % n
              = (((a * a) % n) * (((s * s) % n) % n)) % n
<1>0. a * a \in Int /\ s * s \in Int /\ a * s \in Int
  OBVIOUS
<1>1. ((a % n) * (a % n)) % n = (((a * a) % n) * 1) % n
  <2>1. ((a % n) * (a % n)) % n = (a * a) % n
    BY ModFactors
  <2>2. (1 * ((a * a) % n)) % n = (1 * (a * a)) % n
    BY <1>0, 1 \in Int, ModFactor, Zenon
  <2>3. (a * a) % n \in Int
    BY ModForm
  <2> QED BY <2>1, <2>2, <2>3
<1>2. ((((a * (s % n)) % n)) * ((a * (s % n)) % n)) % n
        = (((a * a) % n) * (((s * s) % n) % n)) % n
  <2>1. (a * (s % n)) % n = (a * s) % n
    BY ModFactor
  <2>2. (((a * s) % n) * ((a * s) % n)) % n = ((a * s) * (a * s)) % n
    BY <1>0, ModFactors, Zenon
  <2>3. (a * s) * (a * s) = (a * a) * (s * s)
    BY Square
  <2>4. (((a * a) % n) * ((s * s) % n)) % n = ((a * a) * (s * s)) % n
    BY <1>0, ModFactors, Zenon
  <2>5. (s * s) % n \in Int /\ (a * a) % n \in Int
    BY ModForm
  <2>6. (((a * a) % n) * (((s * s) % n) % n)) % n = (((a * a) % n) * ((s * s) % n)) % n
    BY <2>5, ModFactor
  <2> QED BY <2>1, <2>2, <2>3, <2>4, <2>6
<1> QED BY <1>1, <1>2

\* The response to either challenge satisfies the verifier's equation, for every
\* key and random number.
LEMMA RoundHolds ==
  ASSUME NEW k \in Key, NEW rr \in Nat, NEW b \in {0, 1}
  PROVE  Holds(PublicKey(k), Commitment(rr, k.n), b, Response(rr, k, b))
<1>1. k.n \in Nat \ {0} /\ k.s \in Int
  BY FiatConstants
<1>2. \A c, n : fast_power_mod(c, 0, n) = 1 /\ fast_power_mod(c, 1, n) = c % n
  BY DEF fast_power_mod
<1>3. PublicKey(k).n = k.n /\ PublicKey(k).v = (k.s * k.s) % k.n
  BY DEF PublicKey
<1>4. CASE b = 0
  <2>1. Response(rr, k, b) = rr % k.n
    BY <1>2, <1>4 DEF Response
  <2> QED BY <1>1, <1>2, <1>3, <1>4, <2>1, RoundEquations DEF Holds, Commitment
<1>5. CASE b = 1
  <2>1. Response(rr, k, b) = (rr * (k.s % k.n)) % k.n
    BY <1>2, <1>5 DEF Response
  <2>2. rr \in Int
    OBVIOUS
  <2>3. (Response(rr, k, b) * Response(rr, k, b)) % k.n
          = (((rr * rr) % k.n) * (((k.s * k.s) % k.n) % k.n)) % k.n
    BY <1>1, <2>1, <2>2, RoundEquations, Zenon
  <2> QED BY <1>2, <1>3, <1>5, <2>3 DEF Holds, Commitment
<1> QED BY <1>4, <1>5

-----------------------------------------------------------------------------
(* The inductive invariant.                                                *)

\* What TypeOK does not say: the verifier's key, and how far a loop is whose
\* program is inside it.
Loops ==
  /\ vKey \in {PublicKey(k) : k \in Key} \cup {NoPublicKey}
  /\ pAt \in {"commit", "challenge", "respond"} => pKey \in Key /\ i < Rounds
  /\ pAt = "verdict" => i = Rounds
  /\ pAt # "ended" => pSays = "nothing"
  /\ vAt \in {"commitment", "response"} => j < Rounds

\* Nothing has been said before the prover has accepted.
Untouched ==
  /\ vAt \in {"start", "loaded"} => pAt \in {"start", "listen"}
  /\ pAt \in {"start", "listen"} =>
       /\ vAt \in {"start", "loaded", "commitment", "dead"}
       /\ vAt = "commitment" => pAt = "listen"
       /\ i = 0 /\ j = 0 /\ up = <<>> /\ down = <<>> /\ validated = 1

Committed(m) == m = Mpz(Commitment(r, pKey.n))
\* With the two halves of one key pair, the number satisfies the equation of the
\* round the verifier is in.
Answers(m) == /\ m \in Upward
              /\ SameKey => Holds(vKey, x, bit, m.v)

\* Where the prover is, and what is on its way.
Lockstep ==
  ~ProverClosed =>
    /\ vAt = "commitment" =>
         /\ i = j /\ down = <<>>
         /\ \/ pAt \in {"listen", "commit"} /\ up = <<>>
            \/ pAt = "challenge" /\ Len(up) = 1 /\ Committed(up[1])
    /\ vAt = "response" =>
         \/ /\ pAt = "challenge" /\ i = j
            /\ up = <<>> /\ down = <<Mpz(bit)>>
            /\ x = Commitment(r, pKey.n)
         \/ /\ pAt = "respond" /\ i = j
            /\ up = <<>> /\ down = <<>> /\ e = bit
            /\ x = Commitment(r, pKey.n)
         \/ /\ pAt \in {"commit", "verdict"} /\ i = j + 1
            /\ Len(up) = 1 /\ down = <<>> /\ Answers(up[1])
         \/ /\ pAt = "challenge" /\ i = j + 1
            /\ Len(up) = 2 /\ down = <<>> /\ Answers(up[1]) /\ Committed(up[2])
    /\ vAt = "verdict" => pAt \in {"commit", "challenge", "verdict"} /\ down = <<>>
    /\ vAt = "ended" /\ pAt = "verdict" => down = <<Byte(validated)>>

\* What the verifier has decided.
Decided ==
  /\ vAt \in {"start", "loaded", "commitment", "response"} => validated = 1
  /\ vAt \in {"verdict", "ended"} /\ validated = 1 => j = Rounds

FiatInv == /\ TypeOK /\ Loops /\ Untouched /\ Lockstep /\ Decided
           /\ HonestRoundsHold /\ SuccessIsTrue

-----------------------------------------------------------------------------
(* Every step keeps it.                                                    *)

\* What one recv_mpz() leaves in the socket.
LEMMA UnreadOne ==
  ASSUME NEW S, NEW q \in Seq(S), q # <<>>
  PROVE  /\ Unread(q, 1) \in Seq(S)
         /\ Len(Unread(q, 1)) = Len(q) - 1
         /\ \A k \in 1 .. Len(q) - 1 : Unread(q, 1)[k] = q[k + 1]
         /\ Len(q) = 1 => Unread(q, 1) = <<>>
<1>1. Unread(q, 1) = Tail(q)
  BY TailIsSubSeq DEF Unread
<1>2. /\ Tail(q) \in Seq(S) /\ Len(Tail(q)) = Len(q) - 1
      /\ \A k \in 1 .. Len(Tail(q)) : Tail(q)[k] = q[k + 1]
  BY HeadTailProperties
<1>3. Len(q) = 1 => Tail(q) = <<>>
  <2>1. Tail(q) # <<>> => Len(Tail(q)) # 0
    BY <1>2, EmptySeq
  <2> QED BY <1>2, <2>1
<1> QED BY <1>1, <1>2, <1>3

\* What recv_mpz() of the verifier returns is a number.
LEMMA GetsNumber ==
  ASSUME TypeOK, Loops
  PROVE  VerifierGets \subseteq Nat /\ Unread(up, 1) \in Seq(Upward)
<1>1. CASE up = <<>>
  <2>1. vKey.n \in Nat
    BY FiatConstants DEF Loops, PublicKey, NoPublicKey
  <2>2. Unread(up, 1) \in Seq(Upward)
    <3>1. Len(up) = 0
      BY <1>1, EmptySeq
    <3>2. \A k \in 2 .. 0 : up[k] \in Upward
      OBVIOUS
    <3>3. SubSeq(up, 2, 0) \in Seq(Upward)
      BY <3>2, SubSeqProperties
    <3> QED BY <3>1, <3>3 DEF Unread
  <2> QED BY <1>1, <2>1, <2>2 DEF VerifierGets
<1>2. CASE up # <<>>
  <2>1. up \in Seq(Upward)
    BY DEF TypeOK
  <2>2. Head(up) \in Upward /\ Unread(up, 1) \in Seq(Upward)
    BY <1>2, <2>1, HeadTailProperties, UnreadOne
  <2>3. Head(up).v \in Nat
    BY <2>2 DEF Upward
  <2> QED BY <1>2, <2>2, <2>3 DEF VerifierGets
<1> QED BY <1>1, <1>2

LEMMA FiatInit == Init => FiatInv
BY FiatConstants DEF Init, FiatInv, TypeOK, Loops, Untouched, Lockstep, Decided,
     HonestRoundsHold, SuccessIsTrue, NoKey, NoPublicKey, ProverClosed

\* The programs look at the files only when they start.
LEMMA KeyGenStep == ASSUME FiatInv, KeyGen PROVE FiatInv'
<1> USE DEF KeyGen, OpenFiles, WritePrivate, WritePublic
<1>1. /\ gen' \in {"open", "half", "done"}
      /\ pri' \in Key \cup {NoKey} /\ pub' \in Key \cup {NoKey}
      /\ UNCHANGED <<proverVars, verifierVars, up, down>>
  BY DEF FiatInv, TypeOK
<1> HIDE DEF KeyGen, OpenFiles, WritePrivate, WritePublic
<1> QED BY <1>1 DEF proverVars, verifierVars, FiatInv, TypeOK, Loops, Untouched, Lockstep,
              Decided, HonestRoundsHold, SuccessIsTrue, ProverClosed, SameKey, Committed,
              Answers

LEMMA ProverStartStep == ASSUME FiatInv, ProverStart PROVE FiatInv'
<1> USE DEF FiatInv, TypeOK, proverVars, verifierVars, fileVars
<1>1. TypeOK'
  BY DEF ProverStart
<1>2. Loops'
  BY DEF ProverStart, Loops
<1>3. Untouched'
  BY DEF ProverStart, Untouched, ProverClosed
<1>4. Lockstep'
  BY DEF ProverStart, Lockstep, Untouched, ProverClosed, Committed, Answers, SameKey
<1>5. Decided'
  BY DEF ProverStart, Decided, Untouched
<1>6. HonestRoundsHold'
  BY DEF ProverStart, HonestRoundsHold, SameKey, ProverClosed, Untouched, Decided
<1>7. SuccessIsTrue'
  BY DEF ProverStart, SuccessIsTrue, Loops, Decided
<1> QED BY <1>1, <1>2, <1>3, <1>4, <1>5, <1>6, <1>7

LEMMA ProverAcceptStep == ASSUME FiatInv, ProverAccept PROVE FiatInv'
<1> USE DEF FiatInv, TypeOK, proverVars, verifierVars, fileVars
<1>1. TypeOK'
  BY DEF ProverAccept
<1>2. Loops'
  BY FiatConstants DEF ProverAccept, Loops, Untouched
<1>3. Untouched'
  BY DEF ProverAccept, Untouched, ProverClosed
<1>4. Lockstep'
  BY DEF ProverAccept, Lockstep, Untouched, ProverClosed, Committed, Answers, SameKey
<1>5. Decided'
  BY DEF ProverAccept, Decided, Untouched
<1>6. HonestRoundsHold'
  BY DEF ProverAccept, HonestRoundsHold, SameKey, ProverClosed, Untouched, Decided
<1>7. SuccessIsTrue'
  BY DEF ProverAccept, SuccessIsTrue, Loops, Decided
<1> QED BY <1>1, <1>2, <1>3, <1>4, <1>5, <1>6, <1>7

LEMMA CommitStep == ASSUME FiatInv, Commit PROVE FiatInv'
<1> USE DEF FiatInv, TypeOK, proverVars, verifierVars, fileVars, ProverSends
<1> DEFINE m == Mpz(Commitment(r', pKey.n))
<1>a. pKey \in Key /\ r' \in Nat /\ i < Rounds
  BY FiatConstants DEF Commit, Loops
<1>b. Commitment(r', pKey.n) \in Nat
  BY <1>a, FiatConstants, ModForm DEF Commitment
<1>c. m \in Upward
  BY <1>b DEF Mpz, Upward
<1>d. /\ Append(up, m) \in Seq(Upward)
      /\ Len(Append(up, m)) = Len(up) + 1
      /\ \A k \in 1 .. Len(up) : Append(up, m)[k] = up[k]
      /\ Append(up, m)[Len(up) + 1] = m
  BY <1>c, AppendProperties
<1>e. /\ pAt = "commit" /\ r' \in 1 .. pKey.n - 1
      /\ \/ VerifierClosed /\ pAt' = "dead" /\ up' = up
         \/ ~VerifierClosed /\ pAt' = "challenge" /\ up' = Append(up, m)
      /\ UNCHANGED <<fileVars, pKey, i, e, pSays, verifierVars, down>>
  BY DEF Commit
<1> HIDE DEF m, ProverSends
<1>1. TypeOK'
  <2>1. up' \in Seq(Upward)
    BY <1>d, <1>e
  <2>2. pAt' \in {"challenge", "dead"}
    BY <1>e
  <2> QED BY <1>a, <1>e, <2>1, <2>2
<1>2. Loops'
  BY <1>a, <1>e DEF Loops
<1>3. Untouched'
  BY <1>e DEF Untouched, VerifierClosed
<1>4. Lockstep'
  <2> SUFFICES ASSUME ~ProverClosed' PROVE Lockstep'
    BY DEF Lockstep
  <2>1. /\ ~VerifierClosed /\ ~ProverClosed /\ pAt' = "challenge"
        /\ up' = Append(up, m)
    BY <1>e DEF ProverClosed
  <2>2. m = Mpz(Commitment(r', pKey'.n))
    BY <1>e DEF m
  <2>3. CASE vAt = "commitment"
    <3>1. up = <<>> /\ i = j /\ down = <<>>
      BY <1>e, <2>1, <2>3 DEF Lockstep
    <3>2. Len(up') = 1 /\ up'[1] = m
      <4>1. Len(up) = 0
        BY <3>1, EmptySeq
      <4> QED BY <1>d, <2>1, <4>1
    <3> QED BY <1>e, <2>1, <2>2, <2>3, <3>1, <3>2 DEF Lockstep, Committed
  <2>4. CASE vAt = "response"
    <3>1. i = j + 1 /\ Len(up) = 1 /\ down = <<>> /\ Answers(up[1])
      BY <1>e, <2>1, <2>4 DEF Lockstep
    <3>2. Len(up') = 2 /\ up'[1] = up[1] /\ up'[2] = m
      BY <1>d, <2>1, <3>1
    <3>3. Answers(up[1])'
      BY <1>e, <3>1, <3>2 DEF Answers, SameKey
    <3> QED BY <1>e, <2>1, <2>2, <2>4, <3>1, <3>2, <3>3 DEF Lockstep, Committed
  <2>5. CASE vAt \notin {"commitment", "response"}
    BY <1>e, <2>1, <2>5 DEF Lockstep, VerifierClosed
  <2> QED BY <2>3, <2>4, <2>5
<1>5. Decided'
  BY <1>e DEF Decided, Untouched
<1>6. HonestRoundsHold'
  BY <1>e DEF HonestRoundsHold, SameKey, ProverClosed
<1>7. SuccessIsTrue'
  BY <1>e DEF SuccessIsTrue, Loops
<1> QED BY <1>1, <1>2, <1>3, <1>4, <1>5, <1>6, <1>7

LEMMA RecvChallengeStep == ASSUME FiatInv, RecvChallenge PROVE FiatInv'
<1> USE DEF FiatInv, TypeOK, proverVars, verifierVars, fileVars
<1>1. TypeOK'
  <2>1. e' \in 0 .. 2 /\ down' \in Seq(Downward)
    <3>1. CASE down # <<>> /\ e' = Head(down).v /\ down' = Tail(down)
      <4>1. Head(down) \in Downward /\ Tail(down) \in Seq(Downward)
        BY <3>1, HeadTailProperties
      <4>2. Head(down).v \in {0, 1}
        BY <4>1 DEF Downward
      <4> QED BY <3>1, <4>1, <4>2
    <3>2. CASE e' \in 0 .. 2 /\ down' = <<>>
      BY <3>2
    <3> QED BY <3>1, <3>2 DEF RecvChallenge
  <2> QED BY <2>1 DEF RecvChallenge
<1>2. Loops'
  BY DEF RecvChallenge, Loops
<1>3. Untouched'
  BY DEF RecvChallenge, Untouched, ProverClosed
<1>4. Lockstep'
  <2>1. vAt = "response" => up = <<>> /\ i = j /\ x = Commitment(r, pKey.n) /\ e' = bit /\ down' = <<>>
    BY DEF RecvChallenge, Lockstep, ProverClosed, VerifierClosed, Mpz
  <2>2. vAt \notin {"commitment", "verdict"}
    BY DEF RecvChallenge, Lockstep, ProverClosed, VerifierClosed
  <2> QED BY <2>1, <2>2 DEF RecvChallenge, Lockstep, ProverClosed
<1>5. Decided'
  BY DEF RecvChallenge, Decided, Untouched
<1>6. HonestRoundsHold'
  BY DEF RecvChallenge, HonestRoundsHold, SameKey, ProverClosed, Untouched, Decided
<1>7. SuccessIsTrue'
  BY DEF RecvChallenge, SuccessIsTrue, Loops, Decided
<1> QED BY <1>1, <1>2, <1>3, <1>4, <1>5, <1>6, <1>7

LEMMA RespondStep == ASSUME FiatInv, Respond PROVE FiatInv'
<1> USE DEF FiatInv, TypeOK, proverVars, verifierVars, fileVars, ProverSends
<1> DEFINE m == Mpz(Response(r, pKey, e))
<1>a. pKey \in Key /\ i < Rounds /\ pKey.n \in Nat \ {0} /\ pKey.s \in Nat
  BY FiatConstants DEF Respond, Loops
<1>b. Response(r, pKey, e) \in Nat
  <2>1. fast_power_mod(pKey.s, e, pKey.n) \in Int
    <3>1. pKey.s % pKey.n \in Int /\ ((pKey.s * pKey.s) % pKey.n) % pKey.n \in Int
      BY <1>a
    <3>2. e \in {0, 1, 2}
      OBVIOUS
    <3> QED BY <3>1, <3>2 DEF fast_power_mod
  <2> QED BY <1>a, <2>1, ModForm DEF Response
<1>c. m \in Upward /\ m.v = Response(r, pKey, e)
  BY <1>b DEF Mpz, Upward
<1>d. /\ Append(up, m) \in Seq(Upward)
      /\ Len(Append(up, m)) = Len(up) + 1
      /\ Append(up, m)[Len(up) + 1] = m
  BY <1>c, AppendProperties
<1>e. /\ pAt = "respond" /\ i' = i + 1
      /\ \/ VerifierClosed /\ pAt' = "dead" /\ up' = up
         \/ /\ ~VerifierClosed /\ up' = Append(up, m)
            /\ pAt' = IF i + 1 < Rounds THEN "commit" ELSE "verdict"
      /\ UNCHANGED <<fileVars, pKey, r, e, pSays, verifierVars, down>>
  BY DEF Respond
<1>f. vAt = "response" => Answers(m)
  <2> HAVE vAt = "response"
  <2>1. e = bit /\ x = Commitment(r, pKey.n)
    BY <1>e DEF Lockstep, ProverClosed
  <2>2. Holds(PublicKey(pKey), Commitment(r, pKey.n), bit, Response(r, pKey, bit))
    BY <1>a, RoundHolds
  <2> QED BY <1>c, <2>1, <2>2 DEF Answers, SameKey
<1> HIDE DEF m, ProverSends
<1>1. TypeOK'
  <2>1. up' \in Seq(Upward)
    BY <1>d, <1>e
  <2>2. pAt' \in {"commit", "verdict", "dead"} /\ i' \in 0 .. Rounds
    BY <1>a, <1>e, FiatConstants
  <2> QED BY <1>e, <2>1, <2>2
<1>2. Loops'
  BY <1>a, <1>e, FiatConstants DEF Loops
<1>3. Untouched'
  BY <1>e DEF Untouched, VerifierClosed
<1>4. Lockstep'
  <2> SUFFICES ASSUME ~ProverClosed' PROVE Lockstep'
    BY DEF Lockstep
  <2>1. vAt = "response" /\ up = <<>> /\ down = <<>> /\ i = j
    BY <1>e DEF Lockstep, ProverClosed, VerifierClosed, Untouched
  <2>2. Len(up') = 1 /\ Answers(up[1])'
    <3>1. ~VerifierClosed /\ up' = Append(up, m) /\ Len(up) = 0
      BY <1>e, <2>1 DEF ProverClosed, VerifierClosed
    <3>2. Answers(m)
      BY <1>f, <2>1
    <3> QED BY <1>d, <1>e, <3>1, <3>2 DEF Answers, SameKey
  <2> QED BY <1>e, <2>1, <2>2 DEF Lockstep, ProverClosed, Answers, SameKey
<1>5. Decided'
  BY <1>e DEF Decided, Untouched
<1>6. HonestRoundsHold'
  BY <1>e DEF HonestRoundsHold, SameKey, ProverClosed
<1>7. SuccessIsTrue'
  BY <1>e DEF SuccessIsTrue, Loops
<1> QED BY <1>1, <1>2, <1>3, <1>4, <1>5, <1>6, <1>7

LEMMA RecvVerdictStep == ASSUME FiatInv, RecvVerdict PROVE FiatInv'
<1> USE DEF FiatInv, TypeOK, proverVars, verifierVars, fileVars
<1>1. TypeOK'
  BY DEF RecvVerdict
<1>2. Loops'
  BY DEF RecvVerdict, Loops
<1>3. Untouched'
  BY DEF RecvVerdict, Untouched, ProverClosed
<1>4. Lockstep'
  BY DEF RecvVerdict, Lockstep, Untouched, ProverClosed, Committed, Answers, SameKey
<1>5. Decided'
  BY DEF RecvVerdict, Decided, Untouched
<1>6. HonestRoundsHold'
  BY DEF RecvVerdict, HonestRoundsHold, SameKey, ProverClosed, Untouched, Decided
<1>7. SuccessIsTrue'
  <2> SUFFICES ASSUME pSays' = "successful", vAt # "dead" PROVE validated = 1 /\ j = Rounds
    BY DEF RecvVerdict, SuccessIsTrue
  <2>1. vAt = "ended" /\ down = <<Byte(validated)>>
    BY DEF RecvVerdict, Lockstep, ProverClosed, VerifierClosed, Untouched
  <2>2. validated = 1
    BY <2>1 DEF RecvVerdict, Byte
  <2> QED BY <2>1, <2>2 DEF Decided
<1> QED BY <1>1, <1>2, <1>3, <1>4, <1>5, <1>6, <1>7

LEMMA VerifierStartStep == ASSUME FiatInv, VerifierStart PROVE FiatInv'
<1> USE DEF FiatInv, TypeOK, proverVars, verifierVars, fileVars
<1>1. TypeOK'
  BY DEF VerifierStart
<1>2. Loops'
  BY DEF VerifierStart, Loops
<1>3. Untouched'
  BY DEF VerifierStart, Untouched, ProverClosed
<1>4. Lockstep'
  BY DEF VerifierStart, Lockstep, Untouched, ProverClosed, Committed, Answers, SameKey
<1>5. Decided'
  BY DEF VerifierStart, Decided, Untouched
<1>6. HonestRoundsHold'
  BY DEF VerifierStart, HonestRoundsHold, SameKey, ProverClosed, Untouched, Decided
<1>7. SuccessIsTrue'
  BY DEF VerifierStart, SuccessIsTrue, Loops, Decided
<1> QED BY <1>1, <1>2, <1>3, <1>4, <1>5, <1>6, <1>7

LEMMA VerifierConnectStep == ASSUME FiatInv, VerifierConnect PROVE FiatInv'
<1> USE DEF FiatInv, TypeOK, proverVars, verifierVars, fileVars
<1>1. TypeOK'
  BY DEF VerifierConnect
<1>2. Loops'
  BY FiatConstants DEF VerifierConnect, Loops, Untouched
<1>3. Untouched'
  BY DEF VerifierConnect, Untouched, ProverClosed
<1>4. Lockstep'
  BY DEF VerifierConnect, Lockstep, Untouched, ProverClosed, Committed, Answers, SameKey
<1>5. Decided'
  BY DEF VerifierConnect, Decided, Untouched
<1>6. HonestRoundsHold'
  BY DEF VerifierConnect, HonestRoundsHold, SameKey, ProverClosed, Untouched, Decided
<1>7. SuccessIsTrue'
  BY DEF VerifierConnect, SuccessIsTrue, Loops, Decided
<1> QED BY <1>1, <1>2, <1>3, <1>4, <1>5, <1>6, <1>7

LEMMA ChallengeStep == ASSUME FiatInv, Challenge PROVE FiatInv'
<1> USE DEF FiatInv, TypeOK, proverVars, verifierVars, fileVars
<1>a. VerifierGets \subseteq Nat /\ up' \in Seq(Upward)
  BY GetsNumber DEF Challenge
<1>b. Mpz(bit') \in Downward
  BY DEF Mpz, Challenge, Downward
<1>c. Append(down, Mpz(bit')) \in Seq(Downward)
  BY <1>b, AppendProperties
<1>1. TypeOK'
  BY <1>a, <1>c DEF Challenge
<1>2. Loops'
  BY DEF Challenge, Loops
<1>3. Untouched'
  BY DEF Challenge, Untouched, VerifierGets, ProverClosed
<1>4. Lockstep'
  <2> SUFFICES ASSUME ~ProverClosed PROVE Lockstep'
    BY DEF Lockstep, ProverClosed, Challenge
  <2>1. up # <<>>
    BY DEF Challenge, VerifierGets
  <2>2. /\ pAt = "challenge" /\ i = j /\ down = <<>>
        /\ Len(up) = 1 /\ Committed(up[1])
    BY <2>1 DEF Challenge, Lockstep
  <2>3. x' = Commitment(r, pKey.n)
    BY <2>1, <2>2 DEF Challenge, VerifierGets, Committed, Mpz
  <2>4. up' = <<>>
    BY <2>1, <2>2, UnreadOne DEF Challenge
  <2>5. down' = <<Mpz(bit')>> /\ vAt' = "response"
    BY <2>2 DEF Challenge
  <2> QED BY <2>2, <2>3, <2>4, <2>5 DEF Challenge, Lockstep
<1>5. Decided'
  BY DEF Challenge, Decided, Untouched
<1>6. HonestRoundsHold'
  BY DEF Challenge, HonestRoundsHold, SameKey, ProverClosed, Untouched, Decided
<1>7. SuccessIsTrue'
  BY DEF Challenge, SuccessIsTrue, Loops, Decided
<1> QED BY <1>1, <1>2, <1>3, <1>4, <1>5, <1>6, <1>7

LEMMA CheckStep == ASSUME FiatInv, Check PROVE FiatInv'
<1> USE DEF FiatInv, TypeOK, proverVars, verifierVars, fileVars
<1>a. up' \in Seq(Upward)
  BY GetsNumber DEF Check
<1>b. ~ProverClosed =>
        /\ i = j + 1 /\ up # <<>> /\ down = <<>> /\ Answers(up[1])
        /\ \/ pAt \in {"commit", "verdict"} /\ Len(up) = 1
           \/ pAt = "challenge" /\ Len(up) = 2 /\ Committed(up[2])
  <2> HAVE ~ProverClosed
  <2>1. up # <<>>
    BY DEF Check, VerifierGets
  <2> QED BY <2>1 DEF Check, Lockstep
<1>c. ~ProverClosed /\ SameKey => validated' = 1
  <2> HAVE ~ProverClosed /\ SameKey
  <2>1. VerifierGets = {up[1].v} /\ Holds(vKey, x, bit, up[1].v)
    BY <1>b DEF VerifierGets, Answers
  <2>2. vKey.n # 0
    BY FiatConstants DEF SameKey, PublicKey, NoKey
  <2> QED BY <2>1, <2>2 DEF Check, Decided
<1>1. TypeOK'
  BY <1>a, FiatConstants DEF Check, Loops
<1>2. Loops'
  BY DEF Check, Loops
<1>3. Untouched'
  BY DEF Check, Untouched, ProverClosed
<1>4. Lockstep'
  <2> SUFFICES ASSUME ~ProverClosed PROVE Lockstep'
    BY DEF Lockstep, ProverClosed, Check
  <2>1. vAt' = "commitment" => j' = j + 1 /\ i < Rounds
    BY <1>b DEF Check
  <2>2. vAt' \in {"commitment", "verdict", "dead"}
    BY DEF Check
  <2>3. CASE pAt \in {"commit", "verdict"} /\ Len(up) = 1
    <3>1. up' = <<>>
      BY <1>b, <2>3, UnreadOne DEF Check
    <3> QED BY <1>b, <2>1, <2>2, <2>3, <3>1 DEF Check, Lockstep, Loops
  <2>4. CASE pAt = "challenge" /\ Len(up) = 2 /\ Committed(up[2])
    <3>1. up' = Unread(up, 1) /\ up # <<>>
      BY <1>b, <2>4 DEF Check
    <3>2. Len(up') = 1 /\ up'[1] = up[2]
      <4>1. /\ Len(Unread(up, 1)) = Len(up) - 1
            /\ \A k \in 1 .. Len(up) - 1 : Unread(up, 1)[k] = up[k + 1]
        BY <3>1, UnreadOne
      <4> QED BY <2>4, <3>1, <4>1
    <3> QED BY <1>b, <2>1, <2>2, <2>4, <3>2 DEF Check, Lockstep, Committed
  <2> QED BY <1>b, <2>3, <2>4
<1>5. Decided'
  <2>1. j < Rounds /\ validated = 1
    BY DEF Check, Loops, Decided
  <2> QED BY <2>1, FiatConstants DEF Check, Decided
<1>6. HonestRoundsHold'
  BY <1>c DEF Check, HonestRoundsHold, SameKey, ProverClosed
<1>7. SuccessIsTrue'
  BY DEF Check, SuccessIsTrue, Loops, Decided
<1> QED BY <1>1, <1>2, <1>3, <1>4, <1>5, <1>6, <1>7

LEMMA ConcludeStep == ASSUME FiatInv, Conclude PROVE FiatInv'
<1> USE DEF FiatInv, TypeOK, proverVars, verifierVars, fileVars
<1>1. TypeOK'
  <2>1. Byte(validated) \in Downward
    BY DEF Byte, Downward
  <2>2. Append(down, Byte(validated)) \in Seq(Downward)
    BY <2>1, AppendProperties
  <2> QED BY <2>2 DEF Conclude
<1>2. Loops'
  BY DEF Conclude, Loops
<1>3. Untouched'
  BY DEF Conclude, Untouched, ProverClosed
<1>4. Lockstep'
  BY DEF Conclude, Lockstep, Untouched, ProverClosed, Committed, Answers, SameKey
<1>5. Decided'
  BY DEF Conclude, Decided, Untouched
<1>6. HonestRoundsHold'
  BY DEF Conclude, HonestRoundsHold, SameKey, ProverClosed, Untouched, Decided
<1>7. SuccessIsTrue'
  BY DEF Conclude, SuccessIsTrue, Loops, Decided
<1> QED BY <1>1, <1>2, <1>3, <1>4, <1>5, <1>6, <1>7

LEMMA ConcludeBreaksStep == ASSUME FiatInv, ConcludeBreaks PROVE FiatInv'
<1> USE DEF FiatInv, TypeOK, proverVars, verifierVars, fileVars
<1>1. TypeOK'
  BY DEF ConcludeBreaks
<1>2. Loops'
  BY DEF ConcludeBreaks, Loops
<1>3. Untouched'
  BY DEF ConcludeBreaks, Untouched, ProverClosed
<1>4. Lockstep'
  BY DEF ConcludeBreaks, Lockstep, Untouched, ProverClosed, Committed, Answers, SameKey
<1>5. Decided'
  BY DEF ConcludeBreaks, Decided, Untouched
<1>6. HonestRoundsHold'
  BY DEF ConcludeBreaks, HonestRoundsHold, SameKey, ProverClosed, Untouched, Decided
<1>7. SuccessIsTrue'
  BY DEF ConcludeBreaks, SuccessIsTrue, Loops, Decided
<1> QED BY <1>1, <1>2, <1>3, <1>4, <1>5, <1>6, <1>7

\* Who is killed leaves the other where it was.
LEMMA DiesStep == ASSUME FiatInv, ProverDies \/ VerifierDies PROVE FiatInv'
<1>1. CASE ProverDies
  BY <1>1 DEF ProverDies, fileVars, verifierVars, FiatInv, TypeOK, Loops, Untouched,
              Lockstep, Decided, HonestRoundsHold, SuccessIsTrue, ProverClosed
<1>2. CASE VerifierDies
  BY <1>2 DEF VerifierDies, fileVars, proverVars, FiatInv, TypeOK, Loops, Untouched,
              Lockstep, Decided, HonestRoundsHold, SuccessIsTrue, ProverClosed, SameKey
<1> QED BY <1>1, <1>2

LEMMA FiatStutters == ASSUME FiatInv, UNCHANGED vars PROVE FiatInv'
BY DEF vars, FiatInv, TypeOK, Loops, Untouched, Lockstep, Decided, HonestRoundsHold,
       SuccessIsTrue, ProverClosed, SameKey, Committed, Answers

LEMMA FiatStep == FiatInv /\ [Next]_vars => FiatInv'
BY KeyGenStep, ProverStartStep, ProverAcceptStep,
   CommitStep, RecvChallengeStep, RespondStep, RecvVerdictStep, VerifierStartStep,
   VerifierConnectStep, ChallengeStep, CheckStep, ConcludeStep, ConcludeBreaksStep,
   DiesStep, FiatStutters DEF Next, Prover, Verifier

-----------------------------------------------------------------------------
(* Theorems.                                                               *)

\* The two loops are always where Lockstep says, for any keys and rounds.
THEOREM FiatAlways == Spec => []FiatInv
BY FiatInit, FiatStep, PTL DEF Spec

\* With the two halves of one key pair no round fails while the prover lives: the
\* arithmetic of every round (client_a_fiat.c:44-61, client_b_fiat.c:52-61), whatever
\* server_fiat.c does to the files meanwhile.
THEOREM FiatHonest == Spec => []HonestRoundsHold
BY FiatAlways, PTL DEF FiatInv

\* The variables have their types, and the loops of the two programs stay in step.
THEOREM FiatInStep == Spec => []InStep
<1>1. FiatInv => InStep
  <2> SUFFICES ASSUME FiatInv, validated = 1, vAt \in {"commitment", "response"},
                      ~ProverClosed
               PROVE  /\ i \in {j, j + 1}
                      /\ Len(up) + Len(down) <= 2
                      /\ vAt = "response" /\ pAt = "respond" => e = bit
    BY DEF InStep, FiatInv
  <2>1. j \in Int
    BY DEF FiatInv, TypeOK
  <2>2. /\ up = <<>> => Len(up) = 0
        /\ down = <<>> => Len(down) = 0
        /\ down = <<Mpz(bit)>> => Len(down) = 1
    BY EmptySeq
  <2>3. CASE vAt = "commitment"
    <3>1. i = j /\ down = <<>> /\ (up = <<>> \/ Len(up) = 1)
      BY <2>3 DEF FiatInv, Lockstep
    <3>2. Len(up) \in {0, 1} /\ Len(down) = 0
      BY <2>2, <3>1
    <3> QED BY <2>1, <2>3, <3>1, <3>2
  <2>4. CASE vAt = "response"
    <3>1. \/ i = j /\ up = <<>> /\ (down = <<>> \/ down = <<Mpz(bit)>>)
          \/ i = j + 1 /\ Len(up) \in {1, 2} /\ down = <<>>
      BY <2>4 DEF FiatInv, Lockstep
    <3>2. \/ Len(up) = 0 /\ (Len(down) = 0 \/ Len(down) = 1)
          \/ (Len(up) = 1 \/ Len(up) = 2) /\ Len(down) = 0
      BY <2>2, <3>1
    <3>3. Len(up) + Len(down) <= 2
      <4>1. \A a, b : (a = 0 /\ (b = 0 \/ b = 1)) \/ ((a = 1 \/ a = 2) /\ b = 0) => a + b <= 2
        OBVIOUS
      <4> QED BY <3>2, <4>1, Zenon
    <3>4. pAt = "respond" => e = bit
      BY <2>4 DEF FiatInv, Lockstep
    <3> QED BY <2>1, <3>1, <3>3, <3>4
  <2> QED BY <2>3, <2>4
<1> QED BY <1>1, FiatAlways, PTL

\* The prover prints success only if the verifier went through all the rounds, unless
\* the verifier was lost (client_a_fiat.c:68 does not look at what recv() returned).
THEOREM FiatSuccess == Spec => []SuccessIsTrue
BY FiatAlways, PTL DEF FiatInv
=============================================================================
