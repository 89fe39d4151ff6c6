----------------------------- MODULE BlomProofs -----------------------------
(***************************************************************************)
(* Theorems about Blom, for any number of users, any modulus and any       *)
(* secrets, with processes killed anywhere: whoever is accepted first, the *)
(* material a user read is that of one identity, and an A that was         *)
(* accepted before a B ends with the same key as that B.                   *)
(***************************************************************************)
EXTENDS Blom, SequenceTheorems, TLAPS

-----------------------------------------------------------------------------
(* Arithmetic modulo P.                                                    *)

\* A remainder is determined by the equation of the division.
LEMMA ModUnique ==
  ASSUME NEW p \in Nat \ {0}, NEW m \in Int, NEW q \in Int, NEW r \in 0 .. p - 1,
         m = p * q + r
  PROVE  m % p = r
BY Z3

\* Every integer has a quotient and a remainder.
LEMMA ModForm ==
  ASSUME NEW p \in Nat \ {0}, NEW m \in Int
  PROVE  \E q \in Int, r \in 0 .. p - 1 : m = p * q + r /\ r = m % p
BY Z3

\* Reducing the two parts of a key first makes no difference.
LEMMA ModSum ==
  ASSUME NEW p \in Nat \ {0}, NEW m \in Int, NEW n \in Int, NEW y \in Int
  PROVE  ((m % p) + (n % p) * y) % p = (m + n * y) % p
<1>1. PICK q \in Int, r \in 0 .. p - 1 : m = p * q + r /\ r = m % p
  BY ModForm
<1>2. PICK t \in Int, s \in 0 .. p - 1 : n = p * t + s /\ s = n % p
  BY ModForm
<1> DEFINE k == r + s * y
<1>3. k \in Int
  OBVIOUS
<1> HIDE DEF k
<1>4. PICK w \in Int, v \in 0 .. p - 1 : k = p * w + v /\ v = k % p
  BY <1>3, ModForm
<1>5. m + n * y = p * (q + t * y + w) + v
  <2>1. m + n * y = p * q + r + (p * t + s) * y
    BY <1>1, <1>2
  <2>2. (p * t + s) * y = p * (t * y) + s * y
    OBVIOUS
  <2>3. p * (q + t * y + w) = p * q + p * (t * y) + p * w
    OBVIOUS
  <2>4. r + s * y = p * w + v
    BY <1>4 DEF k
  <2>5. /\ p * q \in Int /\ p * (t * y) \in Int /\ p * w \in Int /\ s * y \in Int
        /\ r \in Int /\ v \in Int
    OBVIOUS
  <2> QED BY <2>1, <2>2, <2>3, <2>4, <2>5
<1>6. q + t * y + w \in Int /\ m + n * y \in Int
  OBVIOUS
<1>7. (m + n * y) % p = v
  BY <1>5, <1>6, ModUnique
<1>8. ((m % p) + (n % p) * y) % p = v
  BY <1>1, <1>2, <1>4 DEF k
<1> QED BY <1>7, <1>8

\* The three numbers of an identity.
LEMMA MaterialValues ==
  ASSUME TypeOK, NEW x \in 1 .. 2
  PROVE  /\ Material(x)[1] = P
         /\ Material(x)[2] = (secrets.a + secrets.b * x) % P
         /\ Material(x)[3] = (secrets.b + secrets.c * x) % P
         /\ \A k \in 1 .. 3 : Material(x)[k] \in 0 .. P
<1>1. P \in Nat \ {0}
  BY BlomConstants
<1>2. secrets.a \in Int /\ secrets.b \in Int /\ secrets.c \in Int
  BY <1>1 DEF TypeOK, Residue
<1>3. /\ secrets.a + secrets.b * x \in Int
      /\ secrets.b + secrets.c * x \in Int
  BY <1>2
<1>4. /\ (secrets.a + secrets.b * x) % P \in 0 .. P
      /\ (secrets.b + secrets.c * x) % P \in 0 .. P
  BY <1>1, <1>3
<1>5. /\ Material(x)[1] = P
      /\ Material(x)[2] = (secrets.a + secrets.b * x) % P
      /\ Material(x)[3] = (secrets.b + secrets.c * x) % P
  BY DEF Material, compute_user_key
<1>6. P \in 0 .. P
  BY <1>1
<1>7. \A k \in 1 .. 3 : k = 1 \/ k = 2 \/ k = 3
  OBVIOUS
<1> QED BY <1>4, <1>5, <1>6, <1>7

\* The key of the two identities from the part of either.
LEMMA KeyFromPart ==
  ASSUME TypeOK, NEW x \in 1 .. 2
  PROVE  compute_shared_key(Material(x)[2], Material(x)[3], 3 - x, Material(x)[1])
           = SharedKey
<1>1. P \in Nat \ {0}
  BY BlomConstants
<1>2. secrets.a \in Int /\ secrets.b \in Int /\ secrets.c \in Int
  BY <1>1 DEF TypeOK, Residue
<1> DEFINE m == secrets.a + secrets.b * x
           n == secrets.b + secrets.c * x
<1>3. m \in Int /\ n \in Int /\ 3 - x \in Int
  BY <1>2
<1>4. m + n * (3 - x) = secrets.a + 3 * secrets.b + 2 * secrets.c
  <2>1. CASE x = 1
    BY <1>2, <2>1
  <2>2. CASE x = 2
    BY <1>2, <2>2
  <2> QED BY <2>1, <2>2
<1> HIDE DEF m, n
<1>5. ((m % P) + (n % P) * (3 - x)) % P = (m + n * (3 - x)) % P
  BY <1>1, <1>3, ModSum
<1>6. /\ Material(x)[1] = P
      /\ Material(x)[2] = m % P
      /\ Material(x)[3] = n % P
  BY MaterialValues DEF m, n
<1> QED BY <1>4, <1>5, <1>6 DEF compute_shared_key, SharedKey

-----------------------------------------------------------------------------
(* The inductive invariant.                                                *)

\* Everybody in the listen queue and in the slots has connected, and once.
InLine ==
  /\ \A k \in 1 .. Len(backlog) : st[backlog[k]] # "start"
  /\ \A k \in 1 .. Len(slot) : st[slot[k]] # "start"
  /\ \A k, l \in 1 .. Len(backlog) : backlog[k] = backlog[l] => k = l
  /\ \A k \in 1 .. Len(slot), l \in 1 .. Len(backlog) : slot[k] # backlog[l]
  /\ \A k, l \in 1 .. Len(slot) : slot[k] = slot[l] => k = l

\* How many of the first n numbers of the script go to identity x.
Count(x, n) == IF x = 1 THEN IF n = 0 THEN 0 ELSE IF n < 3 THEN 1
                             ELSE IF n = 3 THEN 2 ELSE 3
                        ELSE IF n < 2 THEN 0 ELSE IF n < 5 THEN 1
                             ELSE IF n = 5 THEN 2 ELSE 3

\* The center has sent each identity the beginning of its material, and
\* nothing to anybody else.
Served ==
  \A u \in User :
    /\ \A x \in 1 .. 2 : ServedAs(u, x) =>
         /\ Len(sent[u]) = Count(x, step)
         /\ \A k \in 1 .. Count(x, step) : sent[u][k] = Material(x)[k]
    /\ ~ServedAs(u, 1) /\ ~ServedAs(u, 2) => sent[u] = <<>>

\* A user that lost nothing holds what it was sent.
Received ==
  \A u \in User :
    ~lost[u] => /\ nread[u] <= Len(sent[u])
                /\ \A k \in 1 .. nread[u] : val[u][k] = sent[u][k]

\* A printed key was computed from the three numbers.
Printed ==
  \A u \in User :
    st[u] = "printed" =>
      /\ nread[u] = 3
      /\ key[u] = compute_shared_key(val[u][2], val[u][3], Peer(u), val[u][1])

BlomInv == TypeOK /\ InLine /\ Served /\ Received /\ Printed

\* The k-th number an identity is sent is the k-th of its material.
LEMMA ScriptOrder ==
  ASSUME NEW n \in 0 .. 5
  PROVE  /\ Script[n + 1].to \in 1 .. 2
         /\ Script[n + 1].what \in 1 .. 3
         /\ Script[n + 1].what = Count(Script[n + 1].to, n) + 1
         /\ \A x \in 1 .. 2 : Count(x, n + 1) = IF x = Script[n + 1].to
                                                  THEN Count(x, n) + 1 ELSE Count(x, n)
         /\ \A x \in 1 .. 2 : Count(x, n) \in Nat
<1> USE DEF Script, Count
<1>1. CASE n = 0  BY <1>1
<1>2. CASE n = 1  BY <1>2
<1>3. CASE n = 2  BY <1>3
<1>4. CASE n = 3  BY <1>4
<1>5. CASE n = 4  BY <1>5
<1>6. CASE n = 5  BY <1>6
<1> QED BY <1>1, <1>2, <1>3, <1>4, <1>5, <1>6

\* The material does not change.
LEMMA MaterialConstant ==
  ASSUME UNCHANGED secrets
  PROVE  \A x \in 1 .. 2 : Material(x)' = Material(x)
BY DEF Material, compute_user_key

\* Nothing has been connected, sent or read.
LEMMA BlomInit == Init => BlomInv
<1> SUFFICES ASSUME Init PROVE BlomInv
  OBVIOUS
<1>1. TypeOK
  BY BlomConstants DEF Init, TypeOK, NoKey
<1>2. InLine
  BY DEF Init, InLine
<1>3. Served /\ Received /\ Printed
  BY DEF Init, Served, Received, Printed, ServedAs
<1> QED BY <1>1, <1>2, <1>3 DEF BlomInv

-----------------------------------------------------------------------------
(* The steps.                                                              *)

\* accept() moves the head of the queue to the next slot.  Nothing has been
\* sent yet: the center sends only when both slots are taken.
LEMMA AcceptKeepsBlom ==
  ASSUME BlomInv, Accept
  PROVE  BlomInv'
<1> USE DEF BlomInv
<1> DEFINE h == Head(backlog)
           n == Len(slot) + 1
<1>1. /\ backlog \in Seq(User) /\ slot \in Seq(User) /\ backlog # <<>>
      /\ Len(slot) \in 0 .. 1 /\ n \in 1 .. 2
  <2>1. slot \in Seq(User) /\ Len(slot) < 2 /\ backlog \in Seq(User) /\ backlog # <<>>
    BY DEF Accept, TypeOK
  <2>2. Len(slot) \in Nat
    BY <2>1
  <2>3. \A i \in Nat : i < 2 => i \in 0 .. 1 /\ i + 1 \in 1 .. 2
    OBVIOUS
  <2> QED BY <2>1, <2>2, <2>3
<1>2. /\ h = backlog[1] /\ h \in User
      /\ Len(backlog) \in Nat /\ Len(backlog) >= 1
      /\ backlog' \in Seq(User)
      /\ Len(backlog') = Len(backlog) - 1
      /\ \A k \in 1 .. Len(backlog') : backlog'[k] = backlog[k + 1]
  BY <1>1, HeadTailProperties DEF Accept
<1>3. /\ slot' \in Seq(User) /\ Len(slot') = n
      /\ \A k \in 1 .. Len(slot) : slot'[k] = slot[k]
      /\ slot'[n] = h
  <2>1. slot' = Append(slot, h)
    BY DEF Accept
  <2> HIDE DEF h
  <2> QED BY <1>1, <1>2, <2>1, AppendProperties
<1>4. UNCHANGED <<secrets, tc, step, sent, nread, val, lost, st, key>>
  BY DEF Accept
<1>5. step = 0
  <2>1. step \in 0 .. 6 /\ (step > 0 => Len(slot) = 2)
    BY DEF TypeOK
  <2>2. \A i \in 0 .. 1 : i # 2
    OBVIOUS
  <2>3. ~ (step > 0)
    BY <1>1, <2>1, <2>2
  <2> QED BY <2>1, <2>3
<1> HIDE DEF h
<1>6. TypeOK'
  <2>1. slot' \in Seq(User) /\ Len(slot') <= 2 /\ backlog' \in Seq(User)
    BY <1>1, <1>2, <1>3
  <2>2. step' \in 0 .. 6 /\ (step' > 0 => Len(slot') = 2)
    BY <1>4, <1>5
  <2> QED BY <1>4, <2>1, <2>2 DEF TypeOK, Residue
<1>7. \A k \in 1 .. n : k \in 1 .. Len(slot) \/ k = n
  BY <1>1
<1>8. InLine'
  <2>1. \A k \in 1 .. Len(backlog') : k + 1 \in 1 .. Len(backlog) /\ k + 1 # 1
    BY <1>2
  <2>2. 1 \in 1 .. Len(backlog)
    BY <1>2
  <2>3. \A k \in 1 .. Len(backlog') : st'[backlog'[k]] # "start"
    BY <1>2, <1>4, <2>1 DEF InLine
  <2>4. \A k \in 1 .. Len(slot') : st'[slot'[k]] # "start"
    BY <1>2, <1>3, <1>4, <1>7, <2>2 DEF InLine
  <2>5. \A k, l \in 1 .. Len(backlog') : backlog'[k] = backlog'[l] => k = l
    <3> SUFFICES ASSUME NEW k \in 1 .. Len(backlog'), NEW l \in 1 .. Len(backlog'),
                        backlog'[k] = backlog'[l]
                 PROVE  k = l
      OBVIOUS
    <3>1. backlog[k + 1] = backlog[l + 1]
      BY <1>2
    <3>2. k + 1 = l + 1
      BY <2>1, <3>1 DEF InLine
    <3> QED BY <1>2, <3>2
  <2>6. \A k \in 1 .. Len(slot'), l \in 1 .. Len(backlog') : slot'[k] # backlog'[l]
    <3> SUFFICES ASSUME NEW k \in 1 .. n, NEW l \in 1 .. Len(backlog')
                 PROVE  slot'[k] # backlog'[l]
      BY <1>3
    <3>1. CASE k = n
      BY <1>2, <1>3, <2>1, <2>2, <3>1 DEF InLine
    <3>2. CASE k \in 1 .. Len(slot)
      BY <1>2, <1>3, <2>1, <3>2 DEF InLine
    <3> QED BY <1>7, <3>1, <3>2
  <2>7. \A k, l \in 1 .. Len(slot') : slot'[k] = slot'[l] => k = l
    <3> SUFFICES ASSUME NEW k \in 1 .. n, NEW l \in 1 .. n, slot'[k] = slot'[l]
                 PROVE  k = l
      BY <1>3
    <3>1. \A j \in 1 .. Len(slot) : slot[j] # h
      BY <1>2, <2>2 DEF InLine
    <3>2. CASE k \in 1 .. Len(slot) /\ l \in 1 .. Len(slot)
      BY <1>3, <3>2 DEF InLine
    <3>3. CASE k = n \/ l = n
      BY <1>3, <1>7, <3>1, <3>3
    <3> QED BY <1>7, <3>2, <3>3
  <2> QED BY <2>3, <2>4, <2>5, <2>6, <2>7 DEF InLine
<1>9. Served'
  <2> SUFFICES ASSUME NEW u \in User PROVE sent'[u] = <<>>
    <3>1. Count(1, 0) = 0 /\ Count(2, 0) = 0
      BY DEF Count
    <3>2. \A x \in 1 .. 2 : Count(x, step') = 0
      BY <1>4, <1>5, <3>1
    <3> QED BY <3>2 DEF Served
  <2>1. CASE ServedAs(u, 1) \/ ServedAs(u, 2)
    <3>1. PICK x \in 1 .. 2 : ServedAs(u, x)
      BY <2>1
    <3>2. Len(sent[u]) = 0
      BY <1>5, <3>1 DEF Served, Count
    <3>3. sent[u] \in Seq(0 .. P)
      BY DEF TypeOK
    <3> QED BY <1>4, <3>2, <3>3
  <2>2. CASE ~ServedAs(u, 1) /\ ~ServedAs(u, 2)
    BY <1>4, <2>2 DEF Served
  <2> QED BY <2>1, <2>2
<1>10. Received' /\ Printed'
  BY <1>4 DEF Received, Printed, Peer, compute_shared_key
<1> QED BY <1>6, <1>8, <1>9, <1>10

\* One number more of the script goes to one of the two, and is the next of its
\* material.
LEMMA SendKeepsBlom ==
  ASSUME BlomInv, SendMpz
  PROVE  BlomInv'
<1> USE DEF BlomInv
<1> DEFINE x == Script[step + 1].to
           i == Script[step + 1].what
           u == slot[x]
           v == Material(x)[i]
<1>1. step \in 0 .. 5 /\ Len(slot) = 2 /\ slot \in Seq(User)
  <2>1. step \in 0 .. 6 /\ step < 6
    BY DEF TypeOK, SendMpz
  <2>2. \A n \in 0 .. 6 : n < 6 => n \in 0 .. 5
    OBVIOUS
  <2>3. step \in 0 .. 5
    BY <2>1, <2>2
  <2> QED BY <2>3 DEF TypeOK, SendMpz
<1>2. /\ x \in 1 .. 2 /\ i \in 1 .. 3 /\ i = Count(x, step) + 1
      /\ \A y \in 1 .. 2 : Count(y, step + 1) = IF y = x THEN Count(x, step) + 1
                                                          ELSE Count(y, step)
      /\ Count(x, step) \in Nat
  BY <1>1, ScriptOrder
<1>3. /\ sent' = [sent EXCEPT ![u] = Append(sent[u], v)]
      /\ step' = step + 1
      /\ UNCHANGED <<secrets, tc, slot, backlog, nread, val, lost, st, key>>
  BY DEF SendMpz
<1> HIDE DEF x, i
<1>4. u \in User
  <2>1. x \in 1 .. Len(slot)
    BY <1>1, <1>2
  <2> QED BY <1>1, <2>1, ElementOfSeq
<1>5. v \in 0 .. P
  BY <1>2, MaterialValues
<1>6. ServedAs(u, x) /\ \A y \in 1 .. 2 : ServedAs(u, y) => y = x
  BY <1>1, <1>2 DEF ServedAs, InLine
<1>7. sent[u] \in Seq(0 .. P)
  BY <1>4 DEF TypeOK
<1>8. /\ Len(sent[u]) = Count(x, step)
      /\ \A k \in 1 .. Count(x, step) : sent[u][k] = Material(x)[k]
  BY <1>2, <1>4, <1>6 DEF Served
<1> HIDE DEF u, v
<1>9. /\ sent'[u] \in Seq(0 .. P)
      /\ Len(sent'[u]) = Len(sent[u]) + 1
      /\ \A k \in 1 .. Len(sent[u]) : sent'[u][k] = sent[u][k]
      /\ sent'[u][Len(sent[u]) + 1] = v
  <2>1. sent'[u] = Append(sent[u], v)
    BY <1>3, <1>4 DEF TypeOK
  <2> QED BY <1>5, <1>7, <2>1, AppendProperties
<1>10. \A w \in User : w # u => sent'[w] = sent[w]
  BY <1>3 DEF TypeOK
<1>11. TypeOK'
  <2>1. sent' \in [User -> Seq(0 .. P)]
    <3>1. Append(sent[u], v) \in Seq(0 .. P)
      BY <1>5, <1>7, AppendProperties
    <3> QED BY <1>3, <3>1 DEF TypeOK
  <2>2. step' \in 0 .. 6
    BY <1>1, <1>3
  <2> QED BY <1>1, <1>3, <2>1, <2>2 DEF TypeOK, Residue
<1>12. InLine'
  BY <1>3 DEF InLine
<1>13. \A y \in 1 .. 2 : Material(y)' = Material(y)
  BY <1>3, MaterialConstant
<1>14. Served'
  <2>1. \A w \in User, y \in 1 .. 2 : ServedAs(w, y)' = ServedAs(w, y)
    BY <1>3 DEF ServedAs
  <2>2. ASSUME NEW w \in User, NEW y \in 1 .. 2, ServedAs(w, y)
        PROVE  /\ Len(sent'[w]) = Count(y, step')
               /\ \A k \in 1 .. Count(y, step') : sent'[w][k] = Material(y)[k]
    <3>1. CASE y = x
      <4>1. w = u
        BY <2>2, <3>1 DEF ServedAs, u
      <4>2. Count(x, step') = Count(x, step) + 1
        BY <1>2, <1>3
      <4>3. \A k \in 1 .. Count(x, step) + 1 : k \in 1 .. Count(x, step) \/ k = i
        BY <1>2
      <4> QED BY <1>2, <1>8, <1>9, <3>1, <4>1, <4>2, <4>3 DEF v
    <3>2. CASE y # x
      <4>1. w # u
        BY <1>6, <2>2, <3>2
      <4>2. Count(y, step') = Count(y, step)
        BY <1>2, <1>3, <3>2
      <4> QED BY <1>10, <2>2, <4>1, <4>2 DEF Served
    <3> QED BY <3>1, <3>2
  <2>3. ASSUME NEW w \in User, ~ServedAs(w, 1), ~ServedAs(w, 2)
        PROVE  sent'[w] = <<>>
    <3>1. w # u
      BY <1>2, <1>6, <2>3
    <3> QED BY <1>10, <2>3, <3>1 DEF Served
  <2> QED BY <1>13, <2>1, <2>2, <2>3 DEF Served
<1>15. Received'
  <2> SUFFICES ASSUME NEW w \in User, ~lost[w]
               PROVE  /\ nread[w] <= Len(sent'[w])
                      /\ \A k \in 1 .. nread[w] : val[w][k] = sent'[w][k]
    BY <1>3 DEF Received
  <2>1. /\ nread[w] <= Len(sent[w])
        /\ \A k \in 1 .. nread[w] : val[w][k] = sent[w][k]
    BY DEF Received
  <2>4. nread[w] \in 0 .. 3
    BY DEF TypeOK
  <2>2. CASE w = u
    <3>1. Len(sent[u]) \in Nat
      BY <1>7
    <3> QED BY <1>9, <2>1, <2>2, <2>4, <3>1
  <2>3. CASE w # u
    BY <1>10, <2>1, <2>3
  <2> QED BY <2>2, <2>3
<1>16. Printed'
  BY <1>3 DEF Printed, Peer, compute_shared_key
<1> QED BY <1>11, <1>12, <1>14, <1>15, <1>16

\* The center ends, or a user that reads dies.
LEMMA EndKeepsBlom ==
  ASSUME BlomInv, SendBreaks \/ Close \/ CenterDies \/ \E u \in User : UserDies(u)
  PROVE  BlomInv'
<1> USE DEF BlomInv
<1>1. /\ tc' \in {"up", "down"}
      /\ UNCHANGED <<secrets, slot, step, backlog, sent, nread, val, lost, key>>
  BY DEF TypeOK, centerVars, SendBreaks, Close, CenterDies, UserDies
<1>2. /\ st' \in [User -> {"start", "reading", "printed", "dead"}]
      /\ \A u \in User : st'[u] = st[u] \/ (st'[u] = "dead" /\ st[u] = "reading")
  BY DEF TypeOK, SendBreaks, Close, CenterDies, UserDies
<1>3. TypeOK'
  BY <1>1, <1>2 DEF Residue, TypeOK
<1>4. InLine'
  <2>1. /\ \A k \in 1 .. Len(backlog) : backlog[k] \in User
        /\ \A k \in 1 .. Len(slot) : slot[k] \in User
    BY ElementOfSeq DEF TypeOK
  <2>2. \A k \in 1 .. Len(backlog) : st'[backlog[k]] # "start"
    BY <1>2, <2>1 DEF InLine
  <2>3. \A k \in 1 .. Len(slot) : st'[slot[k]] # "start"
    BY <1>2, <2>1 DEF InLine
  <2> QED BY <1>1, <2>2, <2>3 DEF InLine
<1>5. Served'
  BY <1>1, MaterialConstant DEF Served, ServedAs
<1>6. Received' /\ Printed'
  BY <1>1, <1>2 DEF Received, Printed, Peer, compute_shared_key
<1> QED BY <1>3, <1>4, <1>5, <1>6

\* A user that connects, or does not find a center, was nowhere in line.
LEMMA ConnectKeepsBlom ==
  ASSUME BlomInv, NEW u \in User, Connect(u)
  PROVE  BlomInv'
<1> USE DEF BlomInv
<1>1. /\ st[u] = "start"
      /\ UNCHANGED <<secrets, tc, slot, step, sent, nread, val, lost, key>>
      /\ backlog' = backlog \/ backlog' = Append(backlog, u)
      /\ \E s \in {"reading", "dead"} : st' = [st EXCEPT ![u] = s]
  BY DEF Connect, centerVars
<1>2. /\ st' \in [User -> {"start", "reading", "printed", "dead"}]
      /\ \A w \in User : w # u => st'[w] = st[w]
      /\ st'[u] # "start" /\ st'[u] # "printed"
  BY <1>1 DEF TypeOK
<1>3. backlog \in Seq(User) /\ slot \in Seq(User)
  BY DEF TypeOK
<1>4. /\ \A k \in 1 .. Len(backlog) : backlog[k] \in User /\ backlog[k] # u
      /\ \A k \in 1 .. Len(slot) : slot[k] \in User /\ slot[k] # u
  BY <1>1, <1>3, ElementOfSeq DEF InLine
<1>5. backlog' \in Seq(User)
  BY <1>1, <1>3, AppendProperties
<1>6. TypeOK'
  BY <1>1, <1>2, <1>5 DEF TypeOK, Residue
<1>7. InLine'
  <2>1. CASE backlog' = backlog
    BY <1>1, <1>2, <1>4, <2>1 DEF InLine
  <2>2. CASE backlog' = Append(backlog, u)
    <3> DEFINE n == Len(backlog) + 1
    <3>1. /\ Len(backlog) \in Nat /\ Len(backlog') = n
          /\ \A k \in 1 .. Len(backlog) : backlog'[k] = backlog[k]
          /\ backlog'[n] = u
      BY <1>3, <2>2, AppendProperties, LenProperties
    <3>2. \A k \in 1 .. n : k \in 1 .. Len(backlog) \/ k = n
      BY <3>1
    <3> HIDE DEF n
    <3>3. \A k \in 1 .. n : st'[backlog'[k]] # "start"
      BY <1>2, <1>4, <3>1, <3>2 DEF InLine
    <3>4. \A k, l \in 1 .. n : backlog'[k] = backlog'[l] => k = l
      BY <1>4, <3>1, <3>2 DEF InLine
    <3>5. \A k \in 1 .. Len(slot), l \in 1 .. n : slot[k] # backlog'[l]
      BY <1>4, <3>1, <3>2 DEF InLine
    <3>6. \A k \in 1 .. Len(slot) : st'[slot[k]] # "start"
      BY <1>2, <1>4 DEF InLine
    <3> QED BY <1>1, <3>1, <3>3, <3>4, <3>5, <3>6 DEF InLine
  <2> QED BY <1>1, <2>1, <2>2
<1>8. Served'
  BY <1>1, MaterialConstant DEF Served, ServedAs
<1>9. Received' /\ Printed'
  BY <1>1, <1>2 DEF Received, Printed, Peer, compute_shared_key
<1> QED BY <1>6, <1>7, <1>8, <1>9

\* A number is read, or something is read in its place and the loss recorded.
LEMMA ReadKeepsBlom ==
  ASSUME BlomInv, NEW u \in User, RecvMpz(u) \/ RecvNothing(u)
  PROVE  BlomInv'
<1> USE DEF BlomInv
<1> DEFINE n == nread[u] + 1
<1>1. /\ st[u] = "reading" /\ nread[u] \in 0 .. 2 /\ n \in 1 .. 3
      /\ UNCHANGED <<secrets, tc, slot, step, backlog, sent, st, key>>
  <2>1. nread[u] \in 0 .. 3 /\ nread[u] < 3
    BY DEF RecvMpz, RecvNothing, TypeOK
  <2>2. \A i \in 0 .. 3 : i < 3 => i \in 0 .. 2 /\ i + 1 \in 1 .. 3
    OBVIOUS
  <2> QED BY <2>1, <2>2 DEF RecvMpz, RecvNothing, centerVars
<1>2. sent[u] \in Seq(0 .. P) /\ Len(sent[u]) \in Nat
  BY LenProperties DEF TypeOK
<1>3. PICK number \in 0 .. P :
        /\ val' = [val EXCEPT ![u] = [val[u] EXCEPT ![n] = number]]
        /\ \/ lost'[u]
           \/ lost' = lost /\ n <= Len(sent[u]) /\ number = sent[u][n]
  <2>1. CASE RecvMpz(u)
    <3>1. nread[u] < Len(sent[u])
      BY <2>1 DEF RecvMpz
    <3>2. n <= Len(sent[u])
      BY <1>1, <1>2, <3>1
    <3>3. n \in 1 .. Len(sent[u])
      BY <1>1, <1>2, <3>2
    <3>4. sent[u][n] \in 0 .. P
      BY <1>2, <3>3, ElementOfSeq
    <3> QED BY <2>1, <3>2, <3>4 DEF RecvMpz
  <2>2. CASE RecvNothing(u)
    BY <2>2, BlomConstants DEF RecvNothing, TypeOK
  <2> QED BY <2>1, <2>2
<1>4. /\ lost' \in [User -> BOOLEAN]
      /\ \A w \in User : w # u => lost'[w] = lost[w]
      /\ lost[u] => lost'[u]
  BY DEF RecvMpz, RecvNothing, TypeOK
<1>5. /\ nread' = [nread EXCEPT ![u] = n]
      /\ nread' \in [User -> 0 .. 3]
      /\ \A w \in User : w # u => nread'[w] = nread[w]
  <2>1. nread' = [nread EXCEPT ![u] = n]
    BY DEF RecvMpz, RecvNothing
  <2>2. n \in 0 .. 3
    BY <1>1
  <2>3. nread \in [User -> 0 .. 3]
    BY DEF TypeOK
  <2> HIDE DEF n
  <2> QED BY <2>1, <2>2, <2>3
<1>6. /\ val' \in [User -> [1 .. 3 -> 0 .. P]]
      /\ \A w \in User : w # u => val'[w] = val[w]
      /\ val'[u][n] = number
      /\ \A k \in 1 .. 3 : k # n => val'[u][k] = val[u][k]
  BY <1>1, <1>3 DEF TypeOK
<1>7. TypeOK'
  BY <1>1, <1>4, <1>5, <1>6 DEF TypeOK, Residue
<1>8. InLine'
  BY <1>1 DEF InLine
<1>9. Served'
  BY <1>1, MaterialConstant DEF Served, ServedAs
<1>10. Received'
  <2> SUFFICES ASSUME NEW w \in User, ~lost'[w]
               PROVE  /\ nread'[w] <= Len(sent[w])
                      /\ \A k \in 1 .. nread'[w] : val'[w][k] = sent[w][k]
    BY <1>1 DEF Received
  <2>1. CASE w # u
    <3>1. ~lost[w] /\ nread'[w] = nread[w] /\ val'[w] = val[w]
      BY <1>4, <1>5, <1>6, <2>1
    <3> QED BY <3>1 DEF Received
  <2>2. CASE w = u
    <3>1. n <= Len(sent[u]) /\ number = sent[u][n] /\ ~lost[u]
      BY <1>3, <1>4, <2>2
    <3>2. nread'[u] = n
      BY <1>5 DEF TypeOK
    <3>3. \A k \in 1 .. n : k = n \/ (k \in 1 .. nread[u] /\ k \in 1 .. 3 /\ k # n)
      BY <1>1
    <3>4. \A k \in 1 .. nread[u] : val[u][k] = sent[u][k]
      BY <3>1 DEF Received
    <3> HIDE DEF n
    <3> QED BY <1>6, <2>2, <3>1, <3>2, <3>3, <3>4
  <2> QED BY <2>1, <2>2
<1>11. Printed'
  <2>1. \A w \in User : st[w] = "printed" => w # u
    BY <1>1
  <2> QED BY <1>1, <1>5, <1>6, <2>1 DEF Printed, Peer, compute_shared_key
<1> QED BY <1>7, <1>8, <1>9, <1>10, <1>11

\* The key is computed from the three numbers.
LEMMA PrintKeepsBlom ==
  ASSUME BlomInv, NEW u \in User, PrintKey(u)
  PROVE  BlomInv'
<1> USE DEF BlomInv
<1>1. /\ st[u] = "reading" /\ nread[u] = 3
      /\ UNCHANGED <<secrets, tc, slot, step, backlog, sent, nread, val, lost>>
  BY DEF PrintKey, centerVars
<1> DEFINE k == compute_shared_key(val[u][2], val[u][3], Peer(u), val[u][1])
<1>2. \/ st' = [st EXCEPT ![u] = "dead"] /\ key' = key
      \/ st' = [st EXCEPT ![u] = "printed"] /\ key' = [key EXCEPT ![u] = k] /\ val[u][1] # 0
  BY DEF PrintKey
<1>3. val[u][1] # 0 => k \in -1 .. P
  <2>1. val[u][1] \in 0 .. P /\ val[u][2] \in 0 .. P /\ val[u][3] \in 0 .. P
    BY DEF TypeOK
  <2>2. ASSUME NEW p \in 0 .. P, p # 0, NEW m \in Int PROVE m % p \in -1 .. P
    <3>1. P \in Nat /\ p \in Nat \ {0}
      BY <2>2, BlomConstants
    <3>2. m % p \in 0 .. p - 1
      BY <3>1, ModForm
    <3> QED BY <3>1, <3>2
  <2>3. Peer(u) \in 1 .. 2
    BY DEF Peer
  <2>4. val[u][2] + val[u][3] * Peer(u) \in Int
    BY <2>1, <2>3
  <2> QED BY <2>1, <2>2, <2>4 DEF compute_shared_key
<1> HIDE DEF k
<1>4. /\ st' \in [User -> {"start", "reading", "printed", "dead"}]
      /\ \A w \in User : w # u => st'[w] = st[w] /\ key'[w] = key[w]
      /\ st'[u] = "dead" \/ (st'[u] = "printed" /\ key'[u] = k)
      /\ key' \in [User -> -1 .. P]
  <2>1. /\ st \in [User -> {"start", "reading", "printed", "dead"}]
        /\ key \in [User -> -1 .. P]
    BY DEF TypeOK
  <2>2. CASE st' = [st EXCEPT ![u] = "dead"] /\ key' = key
    BY <2>1, <2>2
  <2>3. CASE st' = [st EXCEPT ![u] = "printed"] /\ key' = [key EXCEPT ![u] = k]
             /\ val[u][1] # 0
    <3>1. k \in -1 .. P
      BY <1>3, <2>3
    <3> QED BY <2>1, <2>3, <3>1
  <2> QED BY <1>2, <2>2, <2>3
<1>5. TypeOK'
  BY <1>1, <1>4 DEF TypeOK, Residue
<1>6. InLine'
  <2>1. /\ \A i \in 1 .. Len(backlog) : backlog[i] \in User
        /\ \A i \in 1 .. Len(slot) : slot[i] \in User
    BY ElementOfSeq DEF TypeOK
  <2>2. st'[u] # "start"
    BY <1>4
  <2> QED BY <1>1, <1>4, <2>1, <2>2 DEF InLine
<1>7. Served'
  BY <1>1, MaterialConstant DEF Served, ServedAs
<1>8. Received'
  BY <1>1 DEF Received
<1>9. Printed'
  <2> SUFFICES ASSUME NEW w \in User, st'[w] = "printed"
               PROVE  /\ nread[w] = 3
                      /\ key'[w] = compute_shared_key(val[w][2], val[w][3], Peer(w), val[w][1])
    BY <1>1 DEF Printed, Peer, compute_shared_key
  <2>1. CASE w = u
    BY <1>1, <1>4, <2>1 DEF k
  <2>2. CASE w # u
    BY <1>4, <2>2 DEF Printed
  <2> QED BY <2>1, <2>2
<1> QED BY <1>5, <1>6, <1>7, <1>8, <1>9

\* BlomInv is inductive.
LEMMA BlomStep == BlomInv /\ [Next]_vars => BlomInv'
<1> SUFFICES ASSUME BlomInv, [Next]_vars PROVE BlomInv'
  OBVIOUS
<1>1. CASE Accept
  BY <1>1, AcceptKeepsBlom
<1>2. CASE SendMpz
  BY <1>2, SendKeepsBlom
<1>3. CASE SendBreaks \/ Close \/ CenterDies \/ \E u \in User : UserDies(u)
  BY <1>3, EndKeepsBlom
<1>4. ASSUME NEW u \in User, Connect(u) PROVE BlomInv'
  BY <1>4, ConnectKeepsBlom
<1>5. ASSUME NEW u \in User, UserStep(u) PROVE BlomInv'
  BY <1>5, ReadKeepsBlom, PrintKeepsBlom DEF UserStep
<1>6. CASE UNCHANGED vars
  <2>1. UNCHANGED <<secrets, tc, slot, step, backlog, sent, nread, val, lost, st, key>>
    BY <1>6 DEF vars
  <2>2. TypeOK' /\ InLine' /\ Received' /\ Printed'
    BY <2>1 DEF BlomInv, TypeOK, Residue, InLine, Received, Printed, Peer,
                compute_shared_key
  <2>3. Served'
    BY <2>1, MaterialConstant DEF BlomInv, Served, ServedAs
  <2> QED BY <2>2, <2>3 DEF BlomInv
<1> QED BY <1>1, <1>2, <1>3, <1>4, <1>5, <1>6 DEF Next, CenterStep

-----------------------------------------------------------------------------
(* The theorems.                                                           *)

\* The variables of server_blom.c and of the runs of client_a_blom.c keep their
\* types, and the invariant holds always.
THEOREM BlomAlways == Spec => []BlomInv
BY BlomInit, BlomStep, PTL DEF Spec

\* A user that read three numbers and lost none holds the material of the
\* identity it was accepted as.
LEMMA ThreeNumbersAreMaterial ==
  ASSUME BlomInv, NEW u \in User, nread[u] = 3, ~lost[u]
  PROVE  \E x \in 1 .. 2 : ServedAs(u, x) /\ \A k \in 1 .. 3 : val[u][k] = Material(x)[k]
<1> USE DEF BlomInv
<1>1. 3 <= Len(sent[u]) /\ \A k \in 1 .. 3 : val[u][k] = sent[u][k]
  BY DEF Received
<1>2. PICK x \in 1 .. 2 : ServedAs(u, x)
  <2>1. sent[u] # <<>>
    BY <1>1
  <2> QED BY <2>1 DEF Served
<1>3. Len(sent[u]) = Count(x, step) /\ \A k \in 1 .. Count(x, step) : sent[u][k] = Material(x)[k]
  BY <1>2 DEF Served
<1>4. Count(x, step) = 3
  <2>1. Count(x, step) \in 0 .. 3
    BY DEF Count
  <2>2. \A n \in 0 .. 3 : 3 <= n => n = 3
    OBVIOUS
  <2> QED BY <1>1, <1>3, <2>1, <2>2
<1> QED BY <1>1, <1>2, <1>3, <1>4

\* The material of a user that lost nothing is that of its own identity.
THEOREM BlomOwnMaterial == Spec => []OwnMaterial
<1>1. BlomInv => OwnMaterial
  BY ThreeNumbersAreMaterial DEF OwnMaterial
<1> QED BY <1>1, BlomAlways, PTL

\* An A that was accepted first and a B that was accepted second, and lost
\* nothing, print the same key, for every modulus and all secrets.
THEOREM BlomKeysAgree == Spec => []KeysAgree
<1>1. ASSUME BlomInv, NEW w \in User, NEW x \in 1 .. 2, ServedAs(w, x),
             Peer(w) = 3 - x, st[w] = "printed", ~lost[w]
      PROVE  key[w] = SharedKey
  <2>1. nread[w] = 3 /\ key[w] = compute_shared_key(val[w][2], val[w][3], Peer(w), val[w][1])
    BY <1>1 DEF BlomInv, Printed
  <2>2. PICK y \in 1 .. 2 : ServedAs(w, y) /\ \A k \in 1 .. 3 : val[w][k] = Material(y)[k]
    BY <1>1, <2>1, ThreeNumbersAreMaterial
  <2>3. slot \in Seq(User) /\ Len(slot) \in Nat
    BY <1>1, LenProperties DEF BlomInv, TypeOK
  <2>4. x = y
    BY <1>1, <2>2, <2>3 DEF BlomInv, InLine, ServedAs
  <2>5. compute_shared_key(Material(x)[2], Material(x)[3], 3 - x, Material(x)[1]) = SharedKey
    BY <1>1, KeyFromPart DEF BlomInv
  <2> QED BY <1>1, <2>1, <2>2, <2>4, <2>5
<1>2. BlomInv => KeysAgree
  BY <1>1 DEF KeysAgree, Peer
<1> QED BY <1>2, BlomAlways, PTL
=============================================================================
