-------------------------------- MODULE Interop --------------------------------
(***************************************************************************)
(* Keys, signatures and ciphertexts as they travel between the six          *)
(* bindings.  A byte string is kept as what it is, whose it is, at which    *)
(* level, and how many bytes too long or too short it has become on the     *)
(* way; the bindings look at the length only.  A user holds one string of   *)
(* each kind, and uses them with any binding at any level.                  *)
(*                                                                         *)
(* A signature verifies over its message only; the message is left out.     *)
(***************************************************************************)
EXTENDS Integers

CONSTANT Seeds  \* 32-byte key-generation seeds (64 bytes for ML-KEM), one per key pair

Bindings == {"c", "python", "go", "rust", "js", "java"}
Families == {"ml-dsa", "ml-kem"}
Levels   == 1 .. 3  \* ML-DSA-44, 65, 87; ML-KEM-512, 768, 1024

\* FIPS 204 and 203.
Sizes == [seed |-> <<32, 32, 32>>,
          public |-> <<1312, 1952, 2592>>, secret |-> <<2560, 4032, 4896>>,
          signature |-> <<2420, 3309, 4627>>,
          encapsulation |-> <<800, 1184, 1568>>, decapsulation |-> <<1632, 2400, 3168>>,
          ciphertext |-> <<768, 1088, 1568>>]

\* A genuine string.  A seed has no level.
String(kind, level, of) == [kind |-> kind, level |-> level, of |-> of, off |-> 0]
SeedOf(of) == String("seed", 1, of)

Size(x) == Sizes[x.kind][x.level] + x.off

\* The first 32 bytes of a string, as a seed: of an ML-DSA key they are rho, which
\* the public key starts with (Pqc.java:107-113).
FirstBytes(x) == IF x.kind = "seed" THEN x.of ELSE <<"rho", x.of, x.level>>

None == [kind |-> "none"]

VARIABLES
  family,   \* signatures or key encapsulation
  secret,   \* the secret key held
  public,   \* the public key held
  product,  \* the signature or ciphertext held, or None
  paired,   \* secret and public were handed out together, and are as they were
  origin    \* the key and level that product was made with, or None

vars == <<family, secret, public, product, paired, origin>>

------------------------------------------------------------------------------
(* The lengths each binding asks for.                                       *)

\* liboqs's and CIRCL's own, which C and Go ask.
BackendTable == Sizes

\* Mutant: the tuples for ML-KEM have the secret key where the ciphertext belongs.
TupleInPython == [Sizes EXCEPT !.ciphertext = Sizes.decapsulation]

PythonTable ==
  [public |-> <<1312, 1952, 2592>>, secret |-> <<2560, 4032, 4896>>,
   signature |-> <<2420, 3309, 4627>>, encapsulation |-> <<800, 1184, 1568>>,
   decapsulation |-> <<1632, 2400, 3168>>, ciphertext |-> <<768, 1088, 1568>>]

\* Mutant: the signatures of Dilithium, before it became ML-DSA.
Round3InRust == [Sizes EXCEPT !.signature = <<2420, 3293, 4595>>]

\* A seed is a [u8; 32] here.
RustTable ==
  [seed |-> <<32, 32, 32>>,
   public |-> <<1312, 1952, 2592>>, secret |-> <<2560, 4032, 4896>>,
   signature |-> <<2420, 3309, 4627>>, encapsulation |-> <<800, 1184, 1568>>,
   decapsulation |-> <<1632, 2400, 3168>>, ciphertext |-> <<768, 1088, 1568>>]

JsTable ==
  [seed |-> <<32, 32, 32>>,
   public |-> <<1312, 1952, 2592>>, secret |-> <<2560, 4032, 4896>>,
   signature |-> <<2420, 3309, 4627>>, encapsulation |-> <<800, 1184, 1568>>,
   decapsulation |-> <<1632, 2400, 3168>>, ciphertext |-> <<768, 1088, 1568>>]

\* Java knows the lengths of expanded keys too, but for the message it refuses one with.
JavaTable ==
  [seed |-> <<32, 32, 32>>, public |-> <<1312, 1952, 2592>>,
   signature |-> <<2420, 3309, 4627>>, encapsulation |-> <<800, 1184, 1568>>,
   decapsulation |-> <<1632, 2400, 3168>>, ciphertext |-> <<768, 1088, 1568>>]

Table(b) ==
  CASE b \in {"c", "go"} -> BackendTable [] b = "python" -> PythonTable
    [] b = "rust" -> RustTable [] b = "js" -> JsTable [] b = "java" -> JavaTable

Fits(b, x, kind, level) == x # None /\ Size(x) = Table(b)[kind][level]

------------------------------------------------------------------------------
(* What each binding checks, in its order.                                  *)

\* Mutant: Java takes what Bouncy Castle takes.
AnySeedInJava(b, level, key) ==
  IF b = "java" THEN Size(key) >= 32 ELSE Fits(b, key, "secret", level)

\* Java signs with the seed, the others with the expanded key.
Signs(b, level, key) == Fits(b, key, IF b = "java" THEN "seed" ELSE "secret", level)

\* The key Sign works with.
SigningKey(b, key) == IF b = "java" THEN FirstBytes(key) ELSE key.of

\* Verification in the backends, of bytes whose lengths they take for granted.  CIRCL
\* reads the bytes it needs and ignores what is behind them (go/pqc.go:132-133), and
\* no binding is given more credit than that.
Authentic(level, key, sig) ==
  /\ key.kind = "public" /\ sig.kind = "signature" /\ sig.off >= 0
  /\ key.level = level /\ sig.level = level /\ key.of = sig.of

\* liboqs is told how long the signature is, and looks.
LiboqsVerifies(level, key, sig) ==
  Fits("c", sig, "signature", level) /\ Authentic(level, key, sig)

Answer(valid) == IF valid THEN 1 ELSE 0

CVerify(level, key, sig) ==
  IF Fits("c", key, "public", level) THEN Answer(LiboqsVerifies(level, key, sig)) ELSE -1

\* Exceptions of liboqs-python's are FALSE too.
PythonVerify(level, key, sig) ==
  Answer(/\ Fits("python", key, "public", level) /\ Fits("python", sig, "signature", level)
         /\ LiboqsVerifies(level, key, sig))

\* Mutant: the length of the signature is left to CIRCL.
GoTrusts(level, key, sig) ==
  Answer(sig # None /\ Fits("go", key, "public", level) /\ Authentic(level, key, sig))

\* The signature first; the key's length is CIRCL's to check, as it unmarshals it.
GoVerify(level, key, sig) ==
  Answer(/\ Fits("go", sig, "signature", level) /\ Fits("go", key, "public", level)
         /\ Authentic(level, key, sig))

RustVerify(level, key, sig) ==
  Answer(/\ Fits("rust", key, "public", level) /\ Fits("rust", sig, "signature", level)
         /\ Authentic(level, key, sig))

JsVerify(level, key, sig) ==
  Answer(/\ Fits("js", key, "public", level) /\ Fits("js", sig, "signature", level)
         /\ Authentic(level, key, sig))

JavaVerify(level, key, sig) ==
  Answer(/\ Fits("java", key, "public", level) /\ Fits("java", sig, "signature", level)
         /\ Authentic(level, key, sig))

\* 1 is valid; 0 is not, nor is C's -1.
Verify(b, level, key, sig) ==
  CASE b = "c"      -> CVerify(level, key, sig)
    [] b = "python" -> PythonVerify(level, key, sig)
    [] b = "go"     -> GoVerify(level, key, sig)
    [] b = "rust"   -> RustVerify(level, key, sig)
    [] b = "js"     -> JsVerify(level, key, sig)
    [] b = "java"   -> JavaVerify(level, key, sig)

Refused == <<"refused">>

\* Decapsulation in the backends: a ciphertext that is not the key's gives a value
\* of its own.
Decapsulated(key, ct) ==
  IF ct.kind = "ciphertext" /\ ct.of = key.of THEN <<"shared", ct.of>>
  ELSE <<"rejected", key.of, ct>>

\* Mutant: the ciphertext's length goes unchecked, as in OQS_KEM_decaps, which has no
\* parameter for it.
CChecksTheKey(level, key, ct) ==
  IF ~Fits("c", key, "decapsulation", level) THEN Refused ELSE Decapsulated(key, ct)

\* QPQC_ERR is a refusal.
CDecapsulate(level, key, ct) ==
  IF ~Fits("c", key, "decapsulation", level) \/ ~Fits("c", ct, "ciphertext", level)
  THEN Refused ELSE Decapsulated(key, ct)

PythonDecapsulate(level, key, ct) ==
  IF /\ Fits("python", key, "decapsulation", level)
     /\ Fits("python", ct, "ciphertext", level)
  THEN Decapsulated(key, ct) ELSE Refused

\* Both lengths are CIRCL's to check: the key's as it unmarshals it, the ciphertext's
\* as it decapsulates.
CirclDecapsulates(level, key, ct) ==
  IF Fits("go", ct, "ciphertext", level) THEN Decapsulated(key, ct) ELSE Refused

GoDecapsulate(level, key, ct) ==
  IF Fits("go", key, "decapsulation", level) THEN CirclDecapsulates(level, key, ct)
  ELSE Refused

RustDecapsulate(level, key, ct) ==
  IF Fits("rust", key, "decapsulation", level) /\ Fits("rust", ct, "ciphertext", level)
  THEN Decapsulated(key, ct) ELSE Refused

JsDecapsulate(level, key, ct) ==
  IF Fits("js", key, "decapsulation", level) /\ Fits("js", ct, "ciphertext", level)
  THEN Decapsulated(key, ct) ELSE Refused

JavaDecapsulate(level, key, ct) ==
  IF Fits("java", key, "decapsulation", level) /\ Fits("java", ct, "ciphertext", level)
  THEN Decapsulated(key, ct) ELSE Refused

Decapsulate(b, level, key, ct) ==
  CASE b = "c"      -> CDecapsulate(level, key, ct)
    [] b = "python" -> PythonDecapsulate(level, key, ct)
    [] b = "go"     -> GoDecapsulate(level, key, ct)
    [] b = "rust"   -> RustDecapsulate(level, key, ct)
    [] b = "js"     -> JsDecapsulate(level, key, ct)
    [] b = "java"   -> JavaDecapsulate(level, key, ct)

------------------------------------------------------------------------------
(* What the user does.                                                      *)

PublicKind(f) == IF f = "ml-dsa" THEN "public" ELSE "encapsulation"

\* Mutant: Rust returns the public key twice.
PublicTwiceInRust(b, f, level, of) ==
  IF b = "rust" THEN String(PublicKind(f), level, of)
  ELSE IF f = "ml-kem" THEN String("decapsulation", level, of)
  ELSE IF b = "java" THEN SeedOf(of) ELSE String("secret", level, of)

\* The secret key a binding hands out: Java's is the seed.
SecretFrom(b, f, level, of) ==
  IF f = "ml-kem" THEN String("decapsulation", level, of)
  ELSE IF b = "java" THEN SeedOf(of) ELSE String("secret", level, of)

HandOut(b, level, of) ==
  /\ secret' = SecretFrom(b, family, level, of)
  /\ public' = String(PublicKind(family), level, of)
  /\ paired' = TRUE
  /\ UNCHANGED <<family, product, origin>>

Init ==
  /\ family \in Families
  /\ \E b \in Bindings, level \in Levels, of \in Seeds :
       /\ secret = SecretFrom(b, family, level, of)
       /\ public = String(PublicKind(family), level, of)
  /\ paired = TRUE /\ product = None /\ origin = None

Keygen(b, level) == \E of \in Seeds : HandOut(b, level, of)

\* keygenFromSeed with the secret key held, at a level of the user's choice; C and
\* Python have none.
Reseed(b, level) ==
  /\ family = "ml-dsa" /\ b \in {"go", "rust", "js", "java"}
  /\ Fits(b, secret, "seed", level)
  /\ HandOut(b, level, FirstBytes(secret))

\* The public key of another key pair comes in.
Receive ==
  /\ \E level \in Levels, of \in Seeds : public' = String(PublicKind(family), level, of)
  /\ paired' = FALSE
  /\ UNCHANGED <<family, secret, product, origin>>

Sign(b, level) ==
  /\ family = "ml-dsa" /\ Signs(b, level, secret)
  /\ product' = String("signature", level, SigningKey(b, secret))
  /\ origin' = [key |-> secret, level |-> level]
  /\ UNCHANGED <<family, secret, public, paired>>

Encapsulate(b, level) ==
  /\ family = "ml-kem" /\ Fits(b, public, "encapsulation", level)
  /\ product' = String("ciphertext", level, public.of)
  /\ origin' = [key |-> public, level |-> level]
  /\ UNCHANGED <<family, secret, public, paired>>

\* A string comes out of transport or storage with a byte more or less, or the
\* public key is passed where the product belongs: of ML-KEM-1024 both have 1568.
Damage ==
  /\ \/ \E d \in {-1, 1} :
          \/ secret.off = 0 /\ secret' = [secret EXCEPT !.off = d]
             /\ paired' = FALSE /\ UNCHANGED <<public, product, origin>>
          \/ public.off = 0 /\ public' = [public EXCEPT !.off = d]
             /\ paired' = FALSE /\ UNCHANGED <<secret, product, origin>>
          \/ product # None /\ product.off = 0 /\ product' = [product EXCEPT !.off = d]
             /\ origin' = None /\ UNCHANGED <<secret, public, paired>>
     \/ product' = public /\ origin' = None /\ UNCHANGED <<secret, public, paired>>
  /\ UNCHANGED family

Next ==
  \/ \E b \in Bindings, level \in Levels :
       Keygen(b, level) \/ Reseed(b, level) \/ Sign(b, level) \/ Encapsulate(b, level)
  \/ Receive \/ Damage

Spec == Init /\ [][Next]_vars

------------------------------------------------------------------------------
(* Properties.                                                              *)

\* The held strings are of their kinds.
TypeOK ==
  /\ family \in Families /\ paired \in BOOLEAN
  /\ \A x \in {secret, public} : x.level \in Levels /\ x.off \in -1 .. 1
  /\ secret.kind \in (IF family = "ml-dsa" THEN {"seed", "secret"} ELSE {"decapsulation"})
  /\ public.kind = PublicKind(family)
  /\ product.kind \in {"none", public.kind}
                      \cup (IF family = "ml-dsa" THEN {"signature"} ELSE {"ciphertext"})

\* No binding derives a key from bytes that a public key contains
\* (Pqc.java:107-113): keys and signatures are of seeds that some keygen drew.
NoKeyFromPublicBytes ==
  \A x \in {secret, public, product} \ {None} : x.of \in Seeds

\* What one binding verifies every binding verifies, whatever was damaged on the
\* way and whatever level is asked for (go/pqc.go:131-137).
VerdictsAgree ==
  family = "ml-dsa" =>
    \A level \in Levels, b, c \in Bindings :
      Verify(b, level, public, product) = 1 <=> Verify(c, level, public, product) = 1

\* A signature made with the secret key of a pair, in any binding that takes the
\* key, verifies in every binding under the public key of that pair.
HonestVerifies ==
  (/\ family = "ml-dsa" /\ paired /\ origin # None
   /\ origin = [key |-> secret, level |-> public.level]) =>
    \A b \in Bindings : Verify(b, public.level, public, product) = 1

\* All bindings decapsulate alike: the same shared secret, the same value for a
\* ciphertext that is not the key's, and a refusal of what has another length.
DecapsulationsAgree ==
  (family = "ml-kem" /\ product # None) =>
    \A level \in Levels, b, c \in Bindings :
      Decapsulate(b, level, secret, product) = Decapsulate(c, level, secret, product)

\* What is encapsulated to the public key of a pair, in any binding, its secret
\* key recovers in every binding.
HonestDecapsulates ==
  (/\ family = "ml-kem" /\ paired /\ origin # None
   /\ origin.key = public) =>
    \A b \in Bindings :
      Decapsulate(b, origin.level, secret, product) = <<"shared", public.of>>
==============================================================================
