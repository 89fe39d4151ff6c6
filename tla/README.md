# A verification project for c_crypto

`c_crypto` is a collection of C programs: number theory and hash functions
written from scratch, public-key schemes built on them, and, in
`src/src/id2`, a set of client/server programs that run identification and
key-exchange protocols over TCP. This directory holds TLA+ models of that code,
the TLC configurations that check them on small instances, and theorems about
them that TLAPS proves for all instances. Source paths below are relative to
`src/src`.

    tlasany M.tla                       parse a module
    tlc -config X.cfg M                 model-check (runs are listed below)
    tlapm OneTimeLoginProofs.tla        check the proofs
    tlapm BlomProofs.tla
    tlapm DivisionProofs.tla
    tlapm PublicKeyIdProofs.tla
    tlapm FiatProofs.tla
    tlapm SpekeProofs.tla
    tlapm TimeStampProofs.tla
    tlapm IdentifyProofs.tla

## 1. Inventory

| Component | State it keeps | Operations | Interacts with | What is hard |
|---|---|---|---|---|
| Stream sockets and number framing (`id2/common.c`) | kernel queues | `send_mpz`, `recv_mpz`, `connect_to` | every program of `id2` | one `recv` is not one `send`; the result of `recv` is ignored; SIGPIPE |
| S/KEY login (`id2/server_pass.c`, `client_pass.c`) | server: `current_iter`, `stored_hash`, a stack buffer that outlives a connection | accept/recv/judge/reply loop; client: type, connect, send, recv | many clients, one at a time | several logins in a row, byte order of what is stored, cut messages, clients that die, the listen queue |
| Blom key pre-distribution (`server_blom.c`, `client_a_blom.c`) | center: `a, b, c`; user: `p, ai, bi` | center: accept twice, six `send_mpz`; user: three `recv_mpz`, key | common.c | roles taken from the order of `accept`, a connection lost between two numbers |
| Fiat-Shamir identification (`server_fiat.c`, `client_a_fiat.c`, `client_b_fiat.c`) | two key files; prover: round, `r`; verifier: round, `validated[]` | write keys; 20 rounds of commitment, challenge, response; verdict byte | files, common.c | loops that end separately, files rewritten while they are read, an unread verdict |
| SPEKE (`client_a_speke.c`, `client_b_speke.c`) | A: `current_iter`, `stored_hash`, `received_hash`; B: none over iterations | B: authenticate, exchange; A: judge, exchange, move down the chain | password files, `diff.key`, common.c | "OK" and the number that follows share a stream, two halves of one exchange |
| Diffie-Hellman (`server_diff.c`, `client_a_diff.c`, `client_b_diff.c`) | a parameter file | write p, g; exchange one number each way | file, common.c | the file is truncated and rewritten under its readers |
| Two-step identification (`client_a.c`, `client_b.c`) | A: a time or random number; B: what it took for it | three sends, byte-wise and block-wise recv | AES of common.c | separators inside data, guessed lengths |
| Three-step identification (`client_a3.c`, `client_b3.c`) | two random numbers | three messages | AES | adjacent recv calls |
| Public-key identification (`client_a_asm.c`, `client_b_asm.c`) | A: z; B: a buffer that was never cleared | A: h(z), A, E(A, z); B: decrypt, compare, send z back | rsa.c, sha.c | numbers with zero bytes, a ciphertext cut up past what was received, a listen queue of which one client is served |
| Signed session key (`client_a_skey.c`, `client_b_skey.c`) | temporary files | sign, send, verify | rsa.c, sign.c | neither program can be built |
| CAdES and time stamps (`sign.c`, `tsa_client.c`, `tsa_server.c`) | a signature file and its directory; the service: nothing between requests | sign, verify, view; a service on a socket | rsa.c, sha.c | many users on one file and one service, a struct compared across processes |
| Number theory (`essential_func.c`) | none | extended GCD, powers, Miller-Rabin, primes | GMP | aliased and uninitialised arguments, coefficients handed up swapped |
| RSA (`rsa.c`, `rsa_main.c`) | key files | key generation, padding, encode, decode | essential_func.c | the gcd nobody looks at, the last chunk, text copied as a string |
| ElGamal (`el_gamal.c`, `el_gamal2.c`) | key files | keys, encode, decode, sign, verify | essential_func.c | chunks that lose leading zero bytes, a signature of 0 |
| Fiat-Shamir signature (`fiat_shamir.c`) | key files | keys, sign, verify | essential_func.c, sha.c | one random number for all rounds, a hash that is never computed before it is used |
| Base64/32 (`base.c`, `base_main.c`) | none | encode, decode | files | last group, sign of `char`, a letter twice |
| SHA-2, HMAC (`sha.c`, `hmac.c`) | none | pad, compress | - | two formulas for the block count, long keys, byte order of a hash in memory |
| Stribog (`stribog.c`, `stri.c`) | streaming buffer | update, pad, final | - | where the input pointer is, what is left in the buffer |
| Build files and leftovers | - | - | - | - |

What makes the modelled components correct:

* S/KEY: an iteration lets in one client at most; only the password lets in; a
  client hears only what was decided about it; a refusal changes nothing; the
  server is never stuck on a client that went away.
* Blom: whoever complete material reaches holds that of its own identity, and
  identities 1 and 2 end with one key; nobody waits for a center that is gone.
* Fiat-Shamir: the holder of the key never fails a round; both loops are in the
  same round; the prover's verdict is the verifier's; both programs end.
* SPEKE: the two keys of an iteration are equal; iterations and hashes go down
  the chain together; without the password nothing is served; nobody waits for
  ever.
* Two-step identification: A accepts only what B has answered to A's own number,
  with the texts B's user typed; B then has A's texts; A does accept when nothing
  stands against it.
* Three-step identification: the same for either side.
* Public-key identification: B sends nothing but the number of the client it
  serves, and that only with the private key; a client accepts nothing else; every
  client ends, and the served one accepts when nothing stands against it.
* CAdES and time stamps: whatever is saved or loaded carries a stamp that was made
  for it; what was saved is lost only to another signer; a stamp is found good by the
  service that made it, which the code does not achieve; every run ends, whoever else
  is killed.
* Number theory and RSA: what is called prime is; every call of `extendedGCD`
  returns the combination it should; the keys are inverse to each other; a
  decryption gives the message back.
* ElGamal: texts come back, and a signature is accepted for its message, with
  exceptions, which the properties state exactly; the Fiat-Shamir signature: in every
  round the verifier computes what was hashed, which the code does for the last one.
* Base64/32, SHA-256, HMAC, Stribog: they agree with RFC 4648, FIPS 180-4, RFC 2104
  and GOST R 34.11-2012, again on exactly stated inputs.

## 2. Modules

| Module | What it is |
|---|---|
| `Stream` | what one `recv` may return of what was sent |
| `OneTimeLogin` | S/KEY server and clients |
| `OneTimePassword` | the service they implement, without sockets and hashes |
| `OneTimeLoginProofs` | theorems about `OneTimeLogin` |
| `Blom`, `BlomProofs` | trusted center and users, and theorems about them |
| `FiatId`, `FiatProofs` | key generator, prover, verifier, and theorems about them |
| `Speke`, `SpekeProofs` | the two programs of the password-authenticated exchange, and theorems about them |
| `Framing` | how the identification programs lay out a message and take it apart |
| `Challenge` | what one side of an identification promises |
| `TwoStep`, `ThreeStep` | the two identification protocols; each extends `Framing` and implements `Challenge` (`ThreeStep` once for either side) |
| `Identify`, `IdentifyProofs` | both side by side: it extends `TwoStep` and has `ThreeStep` as the instance `Three`, with variables of its own; and theorems about both |
| `TimeStamp`, `TimeStampProofs` | the `sign` program, its requests, and the time-stamping service, and theorems about them |
| `PublicKeyId`, `PublicKeyIdProofs` | identification with B's public key, which implements `Challenge` for every client, and theorems about it |
| `Arithmetic` | the loops of `essential_func.c` as functions of their arguments |
| `Rsa` | key generation with the call stack of `extendedGCD`, encoding, decoding |
| `Chunks` | padding, and the number that a chunk is, of `rsa.c` and `el_gamal.c` |
| `ElGamal` | keys, a text there and back, a signature and its verification |
| `FiatSign` | keys, a signature and its verification |
| `Base` | Base64 and Base32 against RFC 4648 |
| `Sha` | what `sha256()` compresses and what `HMAC()` hashes, against the standards |
| `DivisionProofs` | theorems about `Rsa` and about the block count of `Sha`, from lemmas about division; it extends `Rsa` and has `Sha` as the instance `Hash` |
| `Stribog` | the buffer of both Streebog programs against the standard |
| `MCOneTimeLogin`, `MCBlom`, `MCFiatId`, `MCSpeke`, `MCTimeStamp` | values of the constants for TLC |
| `MCIdentify` | the same, and one of `TwoStep`, `ThreeStep` and `PublicKeyId` is run |
| `MCAlgorithms` | the same, and one of `Rsa`, `ElGamal` and `FiatSign` is run, or `Base` gets every short text, or `Sha` and `Stribog` every length up to a bound |

Operators whose comment says "Slip" are variants of the definition that
follows them, with a plausible bug. Nothing of the specifications uses them; they
exist so that one can be put in the place of the real definition to see that the
property named in `PROJECT.json` notices.

### Correspondence

*Connections.* One direction of a connection is a sequence of tokens, the pieces
of messages the receiving code tells apart. All clients connect to 127.0.0.1.
There a `send` is in the receiver's queue as a whole, and `recv` takes what is
there up to its limit. `OneTimeLogin` and `PublicKeyId` also have everything a
stream socket may do: a `recv` of messages of the clients in `Torn`, or where
`tearing` is set, may return any part. `recv_mpz` uses
`MSG_WAITALL`, so in `Blom`, `FiatId` and `Speke` a number arrives whole or, at
the end of the connection, not at all; the code does not look at what `recv`
returned, so the caller goes on with what its memory holds, which is a
nondeterministic choice. A `send` to a connection that the other end has closed
may raise SIGPIPE, which nobody handles and ends the program. `send_mpz` makes
two `send` calls, and on such a connection the second one does raise it.

*`OneTimeLogin`.* `Accept`, `RecvEOF` and `Serve` are the loop of
`server_pass.c:102-196`. `Serve` is one `recv` and all that follows it up to the
next `accept`: nothing in between waits, and no other process sees the server's
memory, so the steps in it cannot be told apart from outside. `Answer` is the
chain of checks in their order. `fix_endian` and `sha256` act on terms `[pw, n,
form]`: the hash applied `n` times to a password, in one of two byte orders;
hashes are ideal. `buffer` is the stack buffer: it is declared in the loop but
its bytes stay from one connection to the next, and a message cut after its
second `|` is judged with them. `Reply` may lose the answer when unread bytes
make `close` reset the connection. The client is `Connect` (prompts and
`connect`), `Send`, `RecvAnswer`, `RecvNothing`; `Die` is an interrupt.
`verdict` is a history variable.

*`Blom`.* `Script` is the order of the six `send_mpz` calls, `Material` what
they send; the arithmetic is the real one over a modulus `P`. `RecvNothing` is
a `recv_mpz` at the end of a connection; what it reads as is one of `Garbage`.
`lost` is a history variable that records it.

*`FiatId`.* The two key files are variables; `OpenFiles`, `WritePrivate` and
`WritePublic` are the moments at which `server_fiat.c` changes them. Prover and
verifier have one action per `recv` with the sends up to the next one. The
arithmetic is the real one over small moduli. `validated` is
`validated[0]`; `if (validated)` in `client_b_fiat.c:71` tests an address, and
`Conclude` therefore always reports success.

*`Speke`.* A's answer "OK", the length and the digits of its number are three
sends; B's one `recv` of 256 bytes takes what has arrived, and compares all of
it with "OK". Powers are a generator and a set of exponents. `AStuck` is
`recv_mpz` taking eight bytes of an authentication message for a length of some
10^18.

*`TwoStep` and `ThreeStep`.* A message is a text, "|" and a ciphertext in three
sends (`Sends`); one action per send, per loop of one-byte receives up to '|',
and per 1024-byte receive with all that follows. A text is a sequence of pieces,
of which one may be a separator and one may fill the cipher's blocks:
`aes_decrypt` then accepts a ciphertext that has text before it, with one junk
block in front (`Filled`). Everything else that was not encrypted as a whole
fails the padding check, which real AES does but for a chance of 1 in 256. A
plaintext is a sequence of units of eight bytes (`TwoStep`) or sixteen
(`ThreeStep`), names, zero bytes and texts. In `BReadCipher` of `TwoStep` B takes
one unit or two for A's number: the bit it decides on (`client_b.c:46`) belongs
to a random byte or to the running time. Random numbers hold no zero byte. A
single `recv` without a loop whose result nobody reads (`client_b3.c:32`) leaves
the memory as it was at the end of the connection.

*`TimeStamp`.* A run of `sign` is a member of `User`; what it is run as is chosen
at the start. The writes and reads of a request are one per piece: the type, the
six fields of a signature as one, the stamp. `Read` is the service's next
`read()`; `Stamp` and `Verify` are the rest of `handle_sign_request` and
`handle_verify_request` up to `close`. A stamp is the structure that was
encrypted, with the zero byte in the address it starts with; `rsa_decode` ends
there. The signature file is emptied by `fopen` and gets its bytes, fewer than a
buffer holds, at `fclose`. `CheckDirectory` and `MakeDirectory` are the two halves
of `ensure_directory_exists`. After a good verdict the hash of the signed file is
compared; that comes out either way. `is_timestamp_valid` returns 1, so the time
is not looked at.

*`PublicKeyId`.* `MCIdentify` extends it together with `TwoStep`, so what both would
call alike (`Init`, `A`, `B`) has another name here (`PkInit`, `ClientRuns`,
`ServerRuns`). A message is five tokens: the hash, "|A|", and the ciphertext in
three chunks. `tearing`, `behind` and `paired` are drawn at the start: whether
`recv` cuts messages, whether the bytes behind the message look like a further
chunk to `strtok` (the buffer is never cleared and the ciphertext has no zero
byte at its end), and whether A's key file is that of B. `ZeroAt` says where
the first zero byte of a number is: `rsa_decode` copies a string, so of a number
with a zero byte inside B reads the rest from memory, which may be what it was.
`ZRead` is the set of 32 bytes B may take for z. `Serve` is the one `recv` of B and
all that follows; it may crash, since the text is longer than the memory
`rsa_decode` copies it to.

*`Rsa`.* A call of `extendedGCD` is a frame on `calls`; `Recurse` pushes one,
`ReturnBase` and `ReturnCombined` pop one and leave gcd, x and y in `returned`.
The inner call is given the two coefficients in swapped places, which `Combine`
shows. `Arithmetic` keeps what the code does to its arguments:
`SquareInPlace` is the power function with one variable as base and result,
which comes to 1 whatever was to be squared. The 40 rounds of the primality test
are taken to find a failing base if there is one. The counter of its inner loop
is not initialised: the loop is left at once or finds 1, which both mean
"composite", or the program goes down (`Abort`). `Encode` and `Decode` work on
numbers, chunk by chunk; `Old` is the heap behind the unpadded text; `Decode`
crashes when it copies more than `Room` bytes or when the padding is longer than
the text. The key files are not modelled: one process makes and uses the keys.

*`ElGamal` and `FiatSign`.* Each function is an action, in the order in which the
programs' `main()` and `sign.c` call them. Random numbers are free choices
from `Draws`. `mpz_export` writes no leading zero bytes. In `FiatSign` the hash is
a free choice of bits, the same for the same numbers; `memory` is what `hash[32]`
holds in `fs_verify`, which reads it before anything is written to it; `Overflow`
is the key of 1024 bits that is printed into 128 bytes.

*`Base`.* A code is the numbers 3, 4, 6 or 5, 8, 5. `Carried` is the sum of the
shifted octets, which may be negative, cut to the size of a group. `rest` is
what the inverse table holds where it was not written. The lines that are
printed for `verbose` are left out; `format24bits` prints into memory that
`base64_encode` never allocated, so it may crash before it returns anything.

*`Sha` and `Stribog`.* Bytes are names and places, compression is ideal: a hash
is what was compressed. `InMemory` is the byte order in which `sha256` leaves its
words, which `HMAC` turns for the inner hash and not for a long key.
`Update`, `Stage2`, `Padding` and `Stage3` act on the context as in the code; the
two programs differ in `moves` and `clears`.

## 3. What is checked

| Run | Bounds | Shows |
|---|---|---|
| `logins` | 3 clients with right and wrong passwords, two of which may have their messages cut and one an ID of its own; iterations 0..1, start 2, queue of 1, clients that die | `TypeOK`, `UsedOnce`, `AnswersAreVerdicts`, `OnlyThePassword`, `OnlySuccessAdvances`, `ServiceSpec`, `EverybodyAnswered` |
| `login_expected_hash` | as above, iterations 0..1 | violated: `StoredHashIsExpected` |
| `blom_keys` | an A and a B, modulus 3, all secrets, kills | `KeysAgree`, `OwnMaterial`, `EverybodyEnds` |
| `fiat_rounds` | moduli 15 and 21, 2 rounds, kills, files rewritten | `HonestRoundsHold`, `InStep`, `SuccessIsTrue`, `BothEnd` |
| `fiat_validated` | the same, no kills | violated: `SuccessIsValidated` |
| `speke_keys` | chains of 4 and 3, 5 attempts, iterations 1..4, 2 passwords, kills | `KeysMatch`, `ChainFollows`, `SamePassword`, `NobodyStuck` |
| `identifications` | two steps: time and random number, three texts for each of the four; three steps: three texts for each of the five; public key: 3 clients, a number without a zero byte, one with one inside and one that ends on one, keys of one pair or of two, messages whole or cut, queue of 1; kills | `BothAgree`, `TwoStepIdentifies`, `TwoStepsComplete`, `ThreeStepIdentifies`, `ThreeStepsComplete`, `PkInv`, `PkIdentifies`, `PkCompletes` |
| `time_stamps` | 3 runs, each sign, verify or view; listen queue of 1; users and service killed | `StampIsOwn`, `FileIsWritten`, `EveryRunEnds` |
| `stamp_verifies` | the same, no kills | violated: `OwnStampVerifies` |
| `algorithms` | RSA: all pairs of five-bit primes, e = 5, bytes of two bits, chunks of three, messages of up to four bytes; ElGamal: the same primes, chunks of two, ten drawn numbers; Fiat-Shamir signature: primes 5 and 7, two rounds; texts of up to six octets out of three; lengths up to 200; keys of 0, 1, 64, 65, 256, 257 and 320 bytes | `PrimesArePrime`, `Bezout`, `KeysAreInverse`, `RoundTrip`, `ElGamalDecodes`, `ElGamalVerifies`, `FiatLastRound`, `TextsComeBack`, `Sha256Reads`, `Hmac256Reads`, `StreebogReads` |
| `fiat_every_round` | the same | violated: `FiatEveryRound` |
| `base_values` | the same, with the letters a, b and c | violated: `ValuesAreEqual` |

Where a module has a type invariant of its own it is a part of the first property of
its run (`InStep`, `ChainFollows`, `BothAgree`, `ThreeStepIdentifies`, `StampIsOwn`,
`PkInv`); those of `Blom` and `Rsa` are parts of the proved invariants.

Why the bounds are enough. The S/KEY server keeps two numbers between
connections, and one connection can leave bytes for the next: three clients are
the least with which a first one leaves bytes, a second one changes their byte
order and a third is judged with them, and with which one is served while two
wait. The client whose message arrives whole meets what the cut ones leave. Two iterations below the start let a second login be tried. In Blom all
secrets of the modulus are taken, a user and a center may be lost at each of the
six sends and three receives, and the theorem lifts the modulus and the number
of users. Two rounds of Fiat-Shamir have a first round, after which the loop
goes on, and a last one. A SPEKE chain of four serves three iterations and has
one without a hash left; five attempts fit refusals and coalesced answers
between them. The three texts of the identifications are one without a separator,
one with, and the one whose tail the cipher takes for blocks; every position of a
text takes all three. Three runs of `sign` are one that is
served, one that waits and one that finds the queue full, and enough for two
signers and a reader of their file. For RSA, five bits leave the primes 19, 23 and 31: equal
and different pairs, one (31) with e dividing p - 1 and so a gcd that is not 1,
and stacks of up to five calls; the theorems lift these numbers. The numbers drawn for ElGamal
and the signature have 0 and 1, numbers with and without a factor in common with
the moduli, and roots of 1. Of the octets 72, 130 and 143, the last two are
negative, and at the start of a group they give the digits 32 and 35, which are
written alike; a text that ends on 130 has the digit 32 last. Six octets make a
group and a longer text of either code, with every rest. 200 bytes are three
blocks and all places in the last two. The keys of `HMAC` are those on either
side of its two limits. Four bytes make
messages shorter than a chunk, as long as one and longer, with zero bytes
anywhere and with texts longer and shorter than the memory they are copied to.

Bounds that exist only for TLC: `MaxTries` in `Speke` (attempts of B), the sizes
of `Client`, `User`, `Key`, `Password`, `Iteration`, `Typed`, `Garbage`,
`Text`, `Number`, `Messages`, `Draws`, and `Octet`, `MaxText`, `MaxLen` and `KeyLen` of
`MCAlgorithms`.
`Backlog` (of both servers), `MAX_ITER_A`, `MAX_ITER_B`, `Rounds`, `P`, `Bits`, `e`,
`Byte`, `CHUNKSIZE` and `Room` are the code's own
constants with smaller values.

Deadlock is not checked: the servers wait for connections, the programs end, and
a user may stop typing.

Fairness. A program that does not wait for a person or a message runs: each of
its own steps is weakly fair. In `OneTimeLogin` a client that has connected does
not wait for its user; nothing is assumed of users (`Connect`) or interrupts
(`Die`). In `Blom` and `FiatId` `Connect`, the start of the key generator and
kills are free. In `Speke` the user of B types when he likes. `EverybodyAnswered`
relies on clients that send or die once connected, which the client does: a
client that keeps the connection open and silent stops the server, which has no
timeout. In `TimeStamp` a run that has
started and the service are fair; starting is not. In `PublicKeyId` B and the clients
that have connected run; connecting and kills are free, and the second half of
`PkCompletes` speaks of runs without kills. In `TwoStep` and `ThreeStep`
both programs run and the users answer the
prompts: `TwoStepsComplete` and `ThreeStepsComplete` say what the programs do for
users who do, and exclude kills and texts with a separator before the separator.
`TwoStepsComplete` also excludes that B took half of a random number for a time.
`NobodyStuck` is conditional on B having read one answer at a time
(`OneAnswerAtATime`); without the condition it is false: section 4.

## 4. What the code says and does not do

* `login_expected_hash`: the hash stored after a success (`server_pass.c:188`)
  is the received one after `fix_endian`, while the hash it will be compared
  with is converted too (line 168). From the second login on the two differ in
  byte order, and nobody is let in again before a restart. `UsedOnce` is
  therefore stated over what a success does to `current_iter`, so that it says
  something of the one login that does succeed, and it is proved without using
  the byte order, so that it stays a fact when the order is repaired.
* `fiat_validated`: the verifier prints success whatever happened.
* `fiat_every_round`: `r` is one variable, so `fs_sign` answers every round with the
  random number of the last (`fiat_shamir.c:145`), where the comments (lines 139 and
  202) have one for each round. In a round before the last `fs_verify` computes another
  number than was hashed, even if the bit it uses is the signer's. `FiatLastRound`
  says what is left: for the last round it computes the right number exactly with the
  right bit or a public number of 1.
* `stamp_verifies`: `tsa_server.c:106` compares the length of the decrypted stamp as a
  string with that of a structure that starts with an address. Addresses have zero
  bytes, so no stamp is ever found good, and `sign verify` always says "Invalid
  signature", although its first step is to check the stamp (`sign.c:183`). What
  remains to be right is what was stamped and saved (`StampIsOwn`, `FileIsWritten`).
* `base_values`: the alphabet (`base.c:6`) has "g" for 32 and for 35 and no "j".
  `test_base.sh` compares with the system's `base64`: the two differ for every text
  with the digit 35, such as "aac" in the run, and for every text with an octet above
  127 that is not the first of its group, which is subtracted from the one before.
  `TextsComeBack` says that these are all: a text is written as RFC 4648 has it
  exactly where neither is the case (`EncodesAsReference`), and read back exactly
  where `ReadsBack` says.

Also seen, and not a run:

* `server_blom.c:40`: the first connection gets the material of identity 1, and
  user A and B assume to be 1 and 2. If B connects first both print keys,
  different ones, which is why `KeysAgree` speaks of an A that came first.
* `client_b_asm.c:62`: a number z with a zero byte before its last comes out of
  `rsa_decode` short. B compares the hash of what it read and mostly ends
  without an answer; it never sends a wrong number. That happens to one run in
  eight or so (31 bytes, each zero with 1/256).
* `base64_encode` and `main()` of the Stribog programs use pointers that were never
  set.
* `base.c:68`: the terminating zero is written behind the memory of texts whose
  last group is not whole, and the last group decoded always has three (five)
  octets.
* `sha.c:100`: messages whose length is 56 to 63 modulo 64 are hashed without the
  block that holds their length.
* `hmac.c:24`: keys of 65 to 256 bytes end the program (`memset` with a negative
  length), and the hash of longer ones is used in the byte order of the memory.
* `stribog.c:184`: the data pointer stays, so every block hashed repeats the first
  bytes; `stri.c:100` leaves the last byte of the block before in the padding.
* `el_gamal.c:150`: leading zero bytes of a chunk are lost. `el_gamal.c:244`: a
  signature whose second number came out as 0 is refused; messages are not
  hashed, so a signature fits every message with the same power of g.
* `fiat_shamir.c:207` takes the challenge from memory that nothing was written to, and
  line 51 has 128 bytes for a number of 1024 bits in hexadecimal.
* `client_b_speke.c:66`: when "OK" and the number after it come out of one `recv`,
  B takes them for a refusal, and A waits for a number that does not come.
* Two signers that both find no directory (`sign.c:41`): one fails although it has
  its stamp.
* `client_b_skey.c:116` uses `TEMP_DATA_FILE`, which only `client_a_skey.c`
  defines, and `client_a_skey.c:70` calls `read_file`, which is static in
  `sign.c`: neither program builds.
* `client_b.c:46` guesses from one bit whether A sent a time or a random number.
  When it guesses wrong, it prints a name that is empty or has random bytes in
  front; A still accepts its answer if a time was taken for a number, since the
  echo begins with it, and refuses if half of a number was echoed.
* `fast_power_mod(x, x, two, n)` (`essential_func.c:131`) makes every number fail
  the test that needs a squaring, so `generate_prime` only returns primes of the
  form 4k + 3. `PrimesArePrime` says that what it returns is prime nevertheless.
* `rsa.c:79` does not look at the gcd its comment takes for 1, and nothing makes
  the two primes differ. `RoundTrip` excludes both.
* `rsa_decode` only raises to the power when `verbose` is set (`rsa.c:224`);
  otherwise it returns nothing of the text.
* `rsa.c:259` gives the text the size of a pointer, and what it copies ends at the
  first zero byte.
* After a login `server_pass.c:192` announces `current_iter` as the next
  iteration, and line 155 accepts `current_iter - 1`.
* A lost verdict (`client_a_fiat.c:68`) is printed as whatever the byte holds,
  which is why `SuccessIsTrue` excludes a lost verifier.
* `client_a_blom.c:35` prints a key also when numbers were lost, which is why
  `KeysAgree` excludes that.

## 5. What is proved

`OneTimeLoginProofs`, for any clients, passwords, iterations, queue length and
any splitting of messages, from the assumption `LoginConstants` (the placeholder
values are not clients or passwords; iterations are integers):

* `LoginAlways`: the inductive invariant `Login`, which is `TypeOK`,
  `JudgedOnMessage` (a client with an unread message, or none sent, has not been
  judged), `AnswerOnItsWay` (what is on its way to a client is its verdict),
  `AnswersAreVerdicts` and `UsedOnce`. `UsedOnce` alone is not inductive: a client
  that has been judged could change what it wants, or be judged again; the other
  parts exclude that. The heart is `ServeEffect`: whatever part of the message
  comes out of the `recv`, the step judges exactly one client that had no
  verdict, and it is a success only for `current_iter - 1`.
* `LoginTypes`, `LoginUsedOnce`, `LoginAnswers`, `LoginAdvances` (`OnlySuccessAdvances`),
  `LoginImplements` (the refinement of `OneTimePassword`).
* `LoginOnlyThePassword`: a client whose own message is not cut gets in with the
  password only, whatever happens to the messages of the others. The invariant
  is that the stored hash is always a hash of the password the server was set up
  with (`PasswordKept`), since a hash that leads to the stored one is of the same
  password, wherever its bytes came from.

`BlomProofs`, for any users and roles, any modulus above 1 and all secrets, with
kills anywhere, from `BlomConstants`:

* `BlomAlways`: the inductive invariant `BlomInv`. `InLine` says that nobody is
  twice in the queue and the slots; `Served` that each identity has been sent
  exactly the beginning of its material that the script has reached; `Received`
  that a user that lost nothing holds what it was sent; `Printed` that a printed
  key was computed from the three numbers.
* `BlomOwnMaterial`, and `BlomKeysAgree`, which adds `KeyFromPart`: by arithmetic
  modulo `P` the part of either identity gives `a + 3b + 2c`.

`DivisionProofs`, first for any number of bits, any public exponent and whatever primes are
drawn, from `RsaConstants`:

* `RsaAlways`: the inductive invariant `RsaInv`. `Linked` says that the pending
  calls of `extendedGCD` start with e and phi and that each is the inner call of
  the one before, with a first argument above 0; `Right` that the result that has
  just been returned is a combination of, and divides, the arguments of the call
  that returned it (`Finished`). `Bezout` alone is not inductive: after a return
  it is the caller's arguments that count, and only `Linked` connects them. The
  steps rest on four lemmas about division: `RemainderUnique`, `DivisionForm`,
  `CombineRight` (the caller's coefficients) and `DividesBack`.
* `RsaTypes`, `RsaBezout`, and `RsaKeysInverse`, which adds
  `InverseOfCombination`: if a x + f y = 1 then a times (x + f) mod f is 1
  modulo f.

and then, for messages of every length:

* `ShaBlocks`: the blocks `sha256()` goes through lie in what `Pad()` wrote, so it
  reads nothing behind it, and leave out the last block exactly for lengths of 56
  to 63 modulo 64. `ShaPads`: `Pad()` adds the least that holds the bit and the
  length.

`PublicKeyIdProofs`, for any clients, numbers and queue, any splitting of messages
and whatever B's memory holds, from `PkConstants`:

* `PkAlways`: the inductive invariant `PkIInv`. `PkInv` is not inductive: `Serving`
  adds that B has sent nothing before it ends and serves a client while it reads,
  `Accepted` that who has accepted is the client that was served. The heart is
  `HashIsOfItsNumber`: whatever B read for z, the hash in the same message lets
  pass only the client's number.
* `PkSendsOwnNumber` (`PkInv`), and `PkIdentifiesAll` (`PkIdentifies`), the refinement
  of `Challenge` once for every client.

`FiatProofs`, for any key pairs, any number of rounds, kills anywhere and files
rewritten at any time, from `FiatConstants` (a modulus is above 1, a secret above 0):

* `FiatAlways`: the inductive invariant `FiatInv`. `InStep` is not inductive: it
  compares the two loop counters where the messages of a round are all on one side,
  and a step from there depends on where the other program is. `Lockstep` gives, for
  each place of the verifier, the places the prover can be at, the difference of the
  counters and what is in the two streams; `Untouched` that nothing has been sent
  before the connection is accepted; `Loops` and `Decided` what the counters and
  `validated` are at each place.
* `FiatHonest` (`HonestRoundsHold`): with the two halves of one key pair no round
  fails while the prover lives. `Lockstep` carries, from the commitment over the
  challenge to the response, that what is on its way satisfies the equation of the
  round (`Answers`), and `RoundHolds` proves that equation for every modulus,
  secret and random number.
* `FiatInStep` (`InStep`), and `FiatSuccess` (`SuccessIsTrue`).

`SpekeProofs`, for any passwords, chains of any two lengths, any iterations typed
and any number of attempts, with kills, from `SpekeConstants` (no password is the
value that stands for a hash of nothing):

* `SpekeAlways`: the inductive invariant `SpekeInv`. `FromA` and `FromB` say what is
  on its way in each direction at each place of its reader: an attempt, a refusal,
  "OK" perhaps together with the length and the digits behind it, or nothing. `Meet` relates the
  places of the two programs and both streams at once. It is what the rest needs: B
  may take an "OK" with a number behind it for a refusal and ask again, and only
  `Meet` says that A then reads an attempt where it expects a number, and never one
  of another iteration. `Served` says that an iteration counts only with the same
  password and A's chain one longer than B's; it rests on `HashFits`: one hash of
  what B sent is the stored one only then.
* `SpekeChain` (`ChainFollows`), `SpekeKeysMatch` (`KeysMatch`; each printed key is
  that of its iteration or of a lost connection, `KeysRight`), `SpekeSamePassword`
  (`SamePassword`).

`TimeStampProofs`, for any runs, any texts and addresses and a queue of any length,
with users and service killed anywhere, from `TimeStampConstants`:

* `StampAlways`: the inductive invariant `StampInv`. `RunOk` says of every run
  alone that the signature it holds has no stamp yet or the one made for it
  (`Holds`), that what it has sent is the beginning of its request (`Sent`), and that
  what it was answered is a stamp of its own fields or a refusal (`Answered`). `Once` says that a run is once in the queue or
  served, not both, and then has not been answered; `Reading` that what the service
  has read is the beginning of what its client sent. Without `Once` an answer could
  go to a run twice, without `Reading` it could be made of another's fields.
* `StampOwn` (`StampIsOwn`) adds what is known of the file, and `StampFile`
  (`FileIsWritten`) who may have emptied it: the strengthening `FileInv` says that the
  stamp of the signer that has emptied the file is its own, and that a signer that
  does so has one comes from `StampInv`.

`IdentifyProofs`, for any set of texts that can be typed, pieces that are a separator
or fill a block of the cipher among them, and kills anywhere, from `Typeable` (in
`FramingConstants`): a text is used as a string, so it has no
zero byte, and none of its pieces stands for an encrypted part.

* What both protocols rest on is what a reader makes of a part of a message. `Sent`
  is what is on its way after k of the three sends; `Opened` is what is left of it
  once '|' has been read. Sends after that only add to what is left (`FirstBarStays`,
  `ReadsStay`, `OpenedGrows`), although the separator that was read may have been one
  of the text. `DecryptsWhole` is the heart: whatever the text holds and however much
  has arrived, what decrypts at all is the end of the complete message, and is either
  the plaintext behind the right text or the plaintext behind a junk block. `FieldsAre`
  and `PlainReads` then say what comes out of a plaintext as a name and as a text; a
  plaintext is cut at its zero bytes, and only there does `Typeable` come in.
  `FirstBar` is the least place of a separator, which exists by `Least`, from the
  well-foundedness of the inclusion of finite sets.
* `TwoStepAlways`: the inductive invariant `TwoInv`. `BothAgree` is not inductive: it
  says nothing until A has accepted. `ReadByA` and `ReadByB` say what is in either
  direction at each place of its reader. `Places` has what B took for A's number:
  a beginning of the plaintext with A's texts behind it (`Understood`), or junk
  (`Misread`). A's comparison refuses the second (`BlockRefused`), and accepts of the
  first what repeats A's number, perhaps with A's name behind it, when a time was
  taken for a number; the text is then still read at the right place (`AUnderstands`).
* `TwoStepAgrees` (`BothAgree`), and `TwoStepIdentified` (`TwoStepIdentifies`), the
  refinement of `Challenge`.
* `ThreeStepAlways`: the inductive invariant `ThreeInv`. `ToB` and `ToA` are again
  the two streams; of A's first message, which has no separator, `ToB` says how much
  there is by the place of A. `Past` is where B has gone beyond that message: it then
  has the number and the text unless A has ended, which is what two adjacent `recv()`
  calls without a look at their results need. `Proving` says that all of A's
  second message is there only when A has ended well, so that a message that decrypts
  is A's answer and not one that a kill cut short.
* `ThreeStepIdentified` (`ThreeStepIdentifies`): types, and the refinement of
  `Challenge` in either direction.

Only model-checked: the liveness properties (`EverybodyAnswered`,
`EverybodyEnds`, `BothEnd`, `NobodyStuck`, `TwoStepsComplete`, `PkCompletes`,
`ThreeStepsComplete`, `EveryRunEnds`; liveness under fairness is beyond the prover);
`ElGamal`, `FiatSign`, `Base` and `Stribog`; the bytes that `Sha`
compares; and of `Rsa` `PrimesArePrime` and `RoundTrip`, which rest on functions that are recursive over
numbers, and induction over those is beyond the prover.

## 6. What is not modelled, and the plan

Left out of the modelled programs: printing other than what a property is
about, memory allocation, failures of `socket`, `bind`, `listen` and `malloc`,
lines longer than their buffers, and a message cut inside its hash (its bytes are
the hash of nothing, which a wrong password covers). Randomness is a free choice.

Not modelled:

* Diffie-Hellman over a parameter file: `server_diff.c:15` calls
  `generate_primitive_root()`, which no file defines, so the program that writes the
  parameter file cannot be linked. Its clients exchange one number each way as
  SPEKE's programs do after their "OK" (`Speke`).
* The signed session key: neither program builds (section 4).
* `sha512()`, which nothing calls; the compression functions of `sha.c` and
  `stribog.c` and their tables, which have no states to explore; AES of `common.c`;
  `fast_power()`; the RSA key files and command line; build files.

What is left are proofs about functions that are recursive over numbers:
`PrimesArePrime` and `RoundTrip` of `Rsa`, and what `ElGamal`, `FiatSign`, `Base`,
`Sha` and `Stribog` compute of a text. They stay with TLC.
