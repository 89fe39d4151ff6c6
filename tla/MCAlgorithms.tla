----------------------------- MODULE MCAlgorithms -----------------------------
(***************************************************************************)
(* The programs that compute and do not communicate, one of which is run:  *)
(* rsa.c, el_gamal.c or fiat_shamir.c with numbers they draw, base.c with  *)
(* any text over a few octets, and the hashes with messages of any length, *)
(* one longer than the other.                                              *)
(***************************************************************************)
EXTENDS Rsa

CONSTANTS Octet, MaxText, \* of what texts are made, and how long they get
          MaxLen,         \* how long the hashed messages get
          KeyLen          \* lengths of keys

VARIABLES
  egAt, egP, egG, egX, egMessage, egSent, egShown, egOut, egVerdict,
  fsAt, fsN, fsS, fsX, fsE, fsSig, fsMemory, fsXPrime, fsResult,
  data, len

\* What the two signature programs draw; el_gamal.c's texts.
Drawn == {0, 1, 2, 3, 5, 6, 7, 8, 11, 16}
Texts == UNION {[1 .. k -> {0, 1, 3}] : k \in 0 .. 2} \cup {<<1, 2, 0>>, <<2, 0, 3>>}

EG == INSTANCE ElGamal WITH
        CHUNKSIZE <- 2, Draws <- Drawn, Messages <- Texts,
        at <- egAt, p <- egP, g <- egG, x <- egX, message <- egMessage, sent <- egSent,
        shown <- egShown, out <- egOut, verdict <- egVerdict
FS == INSTANCE FiatSign WITH
        Bits <- 3, Draws <- Drawn, Rounds <- 2,
        at <- fsAt, n <- fsN, s <- fsS, x <- fsX, e <- fsE, sig <- fsSig,
        memory <- fsMemory, x_prime <- fsXPrime, result <- fsResult
B == INSTANCE Base
H == INSTANCE Sha
S == INSTANCE Stribog

egVars == <<egAt, egP, egG, egX, egMessage, egSent, egShown, egOut, egVerdict>>
fsVars == <<fsAt, fsN, fsS, fsX, fsE, fsSig, fsMemory, fsXPrime, fsResult>>

MCInit == Init /\ EG!Init /\ FS!Init /\ data = <<>> /\ len = 0

NoNumbers == at = "start" /\ egAt = "start" /\ fsAt = "start"
NoTexts   == data = <<>> /\ len = 0

OneMoreOctet == /\ len = 0 /\ Len(data) < MaxText
                /\ \E o \in Octet : data' = Append(data, o)
                /\ UNCHANGED len
OneMoreByte  == data = <<>> /\ len < MaxLen /\ len' = len + 1 /\ UNCHANGED data

MCNext ==
  \/ /\ NoTexts /\ UNCHANGED <<data, len>>
     /\ \/ egAt = "start" /\ fsAt = "start" /\ Next /\ UNCHANGED <<egVars, fsVars>>
        \/ at = "start" /\ fsAt = "start" /\ EG!Next /\ UNCHANGED <<vars, fsVars>>
        \/ at = "start" /\ egAt = "start" /\ FS!Next /\ UNCHANGED <<vars, egVars>>
  \/ /\ NoNumbers /\ UNCHANGED <<vars, egVars, fsVars>>
     /\ OneMoreOctet \/ OneMoreByte
MCSpec == MCInit /\ [][MCNext]_<<vars, egVars, fsVars, data, len>>

\* Messages of up to four bytes: shorter than a chunk, a chunk, and longer.
MCMessages == UNION {[1 .. k -> 0 .. Byte - 1] : k \in 0 .. 4}

-----------------------------------------------------------------------------
(* Properties.                                                             *)

\* el_gamal.c gives texts back whose chunks do not start with a zero byte.
ElGamalDecodes == EG!Decodes

\* el_gamal.c accepts a signature for the messages of one power of g.
ElGamalVerifies == EG!Verifies

\* fiat_shamir.c computes the number that was hashed for the last round.
FiatLastRound == FS!LastRoundReproduces

\* fiat_shamir.c computes the numbers that were hashed for all rounds, as its comments
\* have it.
FiatEveryRound == FS!EveryRoundReproduces

\* What the inverse table of the decoder may hold where it was not set: a char.
Unset == {0, 61, -1, 127, -128}

\* base.c: which texts are encoded as RFC 4648 has it, and which are read back.
TextsComeBack ==
  NoNumbers => \A code \in {B!base64, B!base32} :
    /\ B!EncodesAsReference(code, data)
    /\ \A rest \in Unset : B!ReadsBack(code, data, rest)

\* What test_base.sh compares ("BASE64 VALUES ARE EQUAL", test_base.sh:19): base.c writes
\* a text as the system's base64 and base32 do, which is as RFC 4648 has it.
ValuesAreEqual ==
  NoNumbers => \A code \in {B!base64, B!base32} :
                 B!Encode(code, data) = B!Reference(code, data)

\* sha.c: the blocks hashed are those of FIPS 180-4, but for the last one when
\* the length did not fit in it.
Sha256Reads == NoNumbers => H!ShaReads(len)

\* hmac.c: RFC 2104 for keys of at most a block.
Hmac256Reads == NoNumbers => \A k \in KeyLen : H!HmacReads(k, len)

\* stribog.c and stri.c: for which lengths they hash the message.
StreebogReads == NoNumbers => S!StribogReads(len)
=============================================================================
