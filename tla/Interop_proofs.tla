---------------------------- MODULE Interop_proofs ----------------------------
(***************************************************************************)
(* The six bindings agree on whatever a user holds, for any set of seeds.   *)
(*                                                                         *)
(* The arguments about lengths rest on the tables: within one kind the      *)
(* sizes of two levels differ by more than the byte that damage adds or     *)
(* takes, so that a string that fits is whole and of the level asked for.   *)
(***************************************************************************)
EXTENDS Interop, TLAPS

Kinds   == {"seed", "public", "secret", "signature", "encapsulation", "decapsulation",
            "ciphertext"}
Strings == [kind : Kinds, level : Levels, of : Seeds, off : -1 .. 1]

SecretKinds(f)  == IF f = "ml-dsa" THEN {"seed", "secret"} ELSE {"decapsulation"}
ProductKinds(f) == IF f = "ml-dsa" THEN {"public", "signature"}
                                   ELSE {"encapsulation", "ciphertext"}

\* All keys are of seeds that some keygen drew, products too.
Shapes ==
  /\ family \in Families /\ paired \in BOOLEAN
  /\ secret \in Strings /\ secret.kind \in SecretKinds(family)
  /\ public \in Strings /\ public.kind = PublicKind(family)
  /\ product = None \/ (product \in Strings /\ product.kind \in ProductKinds(family))

\* Of a pair both are whole and of one seed; only a seed fits all levels.
Paired ==
  paired => /\ secret.off = 0 /\ public.off = 0 /\ secret.of = public.of
            /\ secret.kind # "seed" => secret.level = public.level

\* A product whose origin is known is what that key gives at that level.
Made ==
  origin # None =>
    /\ family = "ml-dsa" => product = String("signature", origin.level, origin.key.of)
    /\ family = "ml-kem" => /\ product = String("ciphertext", origin.level, origin.key.of)
                            /\ origin.key.level = origin.level
    /\ origin.level \in Levels

IInv == Shapes /\ Paired /\ Made

------------------------------------------------------------------------------
(* The tables.                                                              *)

LEMMA Standards ==
  /\ Sizes["seed"] = <<32, 32, 32>>
  /\ Sizes["public"] = <<1312, 1952, 2592>>
  /\ Sizes["secret"] = <<2560, 4032, 4896>>
  /\ Sizes["signature"] = <<2420, 3309, 4627>>
  /\ Sizes["encapsulation"] = <<800, 1184, 1568>>
  /\ Sizes["decapsulation"] = <<1632, 2400, 3168>>
  /\ Sizes["ciphertext"] = <<768, 1088, 1568>>
  BY DEF Sizes

\* The tables of the six bindings are the standards': each has the right length in
\* every place it looks at.
LEMMA TablesAgree ==
  ASSUME NEW b \in Bindings
  PROVE  /\ Table(b)["public"] = Sizes["public"]
         /\ Table(b)["signature"] = Sizes["signature"]
         /\ Table(b)["encapsulation"] = Sizes["encapsulation"]
         /\ Table(b)["decapsulation"] = Sizes["decapsulation"]
         /\ Table(b)["ciphertext"] = Sizes["ciphertext"]
         /\ b # "java" => Table(b)["secret"] = Sizes["secret"]
         /\ b \notin {"c", "python"} => Table(b)["seed"] = Sizes["seed"]
<1>1. CASE b \in {"c", "go"}
  BY <1>1 DEF Table, BackendTable
<1>2. CASE b = "python"
  BY <1>2, Standards DEF Table, PythonTable
<1>3. CASE b = "rust"
  BY <1>3, Standards DEF Table, RustTable
<1>4. CASE b = "js"
  BY <1>4, Standards DEF Table, JsTable
<1>5. CASE b = "java"
  BY <1>5, Standards DEF Table, JavaTable
<1>6. QED
  BY <1>1, <1>2, <1>3, <1>4, <1>5 DEF Bindings

\* The kinds of string that a binding looks up the length of.
LooksUp(b, kind) ==
  /\ kind \in Kinds
  /\ kind = "secret" => b # "java"
  /\ kind = "seed" => b \notin {"c", "python"}

LEMMA FitsMeans ==
  ASSUME NEW b \in Bindings, NEW kind, LooksUp(b, kind), NEW level, NEW x
  PROVE  Fits(b, x, kind, level) <=> x # None /\ Size(x) = Sizes[kind][level]
<1>1. Table(b)[kind] = Sizes[kind]
  BY TablesAgree DEF LooksUp, Kinds
<1>2. QED
  BY <1>1 DEF Fits

LEMMA ThreeLevels == Levels = {1, 2, 3}
  BY DEF Levels

\* What has the length of its own kind at a level is whole, and of that level.
LEMMA FitsOwnKind ==
  ASSUME NEW b \in Bindings, NEW x \in Strings, LooksUp(b, x.kind),
         NEW level \in Levels, Fits(b, x, x.kind, level)
  PROVE  x.off = 0 /\ (x.kind # "seed" => x.level = level)
<1>1. Sizes[x.kind][x.level] + x.off = Sizes[x.kind][level]
  BY FitsMeans DEF Size
<1>2. /\ x.kind \in Kinds /\ x.level \in {1, 2, 3} /\ level \in {1, 2, 3}
      /\ x.off \in {-1, 0, 1}
  BY ThreeLevels DEF Strings
<1>3. CASE x.kind = "seed"
  BY <1>1, <1>2, <1>3, Standards
<1>4. CASE x.kind = "public"
  BY <1>1, <1>2, <1>4, Standards
<1>5. CASE x.kind = "secret"
  BY <1>1, <1>2, <1>5, Standards
<1>6. CASE x.kind = "signature"
  BY <1>1, <1>2, <1>6, Standards
<1>7. CASE x.kind = "encapsulation"
  BY <1>1, <1>2, <1>7, Standards
<1>8. CASE x.kind = "decapsulation"
  BY <1>1, <1>2, <1>8, Standards
<1>9. CASE x.kind = "ciphertext"
  BY <1>1, <1>2, <1>9, Standards
<1>10. QED
  BY <1>2, <1>3, <1>4, <1>5, <1>6, <1>7, <1>8, <1>9 DEF Kinds

\* A whole string fits its kind and level, in every binding.
LEMMA WholeFits ==
  ASSUME NEW b \in Bindings, NEW x \in Strings, LooksUp(b, x.kind), x.off = 0
  PROVE  Fits(b, x, x.kind, x.level)
<1>1. x # None
  BY DEF None, Strings, Kinds
<1>2. Sizes[x.kind][x.level] \in Int
  <2>1. x.kind \in Kinds /\ x.level \in {1, 2, 3}
    BY ThreeLevels DEF Strings
  <2>2. QED
    BY <2>1, Standards DEF Kinds
<1>3. QED
  BY <1>1, <1>2, FitsMeans DEF Size

\* No binding takes an ML-DSA key of the other form: only a seed is 32 bytes long,
\* and no expanded key of any level, damaged by a byte or not, is.
LEMMA SeedsAreSeeds ==
  ASSUME NEW b \in Bindings, NEW x \in Strings, x.kind \in {"seed", "secret"},
         NEW level \in Levels
  PROVE  /\ b \notin {"c", "python"} /\ Fits(b, x, "seed", level)
              => x.kind = "seed" /\ x.off = 0
         /\ b # "java" /\ Fits(b, x, "secret", level)
              => x.kind = "secret" /\ x.off = 0 /\ x.level = level
<1>1. /\ x.level \in {1, 2, 3} /\ level \in {1, 2, 3} /\ x.off \in {-1, 0, 1}
  BY ThreeLevels DEF Strings
<1>2. /\ b \notin {"c", "python"} /\ Fits(b, x, "seed", level)
           => Size(x) = Sizes["seed"][level]
      /\ b # "java" /\ Fits(b, x, "secret", level)
           => Size(x) = Sizes["secret"][level]
  BY FitsMeans DEF LooksUp, Kinds
<1>3. CASE x.kind = "seed"
  BY <1>1, <1>2, <1>3, Standards DEF Size
<1>4. CASE x.kind = "secret"
  BY <1>1, <1>2, <1>4, Standards DEF Size
<1>5. QED
  BY <1>3, <1>4

LEMMA StringType ==
  ASSUME NEW kind \in Kinds, NEW level \in Levels, NEW of \in Seeds
  PROVE  /\ String(kind, level, of) \in Strings
         /\ String(kind, level, of).kind = kind
         /\ String(kind, level, of).level = level
         /\ String(kind, level, of).of = of
         /\ String(kind, level, of).off = 0
  BY DEF String, Strings

LEMMA DamagedType ==
  ASSUME NEW x \in Strings, NEW d \in {-1, 1}
  PROVE  [x EXCEPT !.off = d] \in Strings /\ [x EXCEPT !.off = d].kind = x.kind
  BY DEF Strings

------------------------------------------------------------------------------
(* The invariant.                                                           *)

\* What a keygen hands out is a pair.
LEMMA HandsOutAPair ==
  ASSUME family \in Families, NEW b, NEW level \in Levels, NEW of \in Seeds,
         NEW sk, NEW pk, sk = SecretFrom(b, family, level, of),
         pk = String(PublicKind(family), level, of)
  PROVE  /\ sk \in Strings /\ sk.kind \in SecretKinds(family) /\ sk.off = 0 /\ sk.of = of
         /\ pk \in Strings /\ pk.kind = PublicKind(family) /\ pk.off = 0 /\ pk.of = of
         /\ pk.level = level /\ (sk.kind # "seed" => sk.level = level)
<1>1. PublicKind(family) \in Kinds /\ 1 \in Levels
  BY DEF PublicKind, Kinds, Levels
<1>2. /\ pk \in Strings /\ pk.kind = PublicKind(family) /\ pk.off = 0 /\ pk.of = of
      /\ pk.level = level
  BY <1>1, StringType
<1>3. PICK kind \in SecretKinds(family), l \in Levels :
        sk = String(kind, l, of) /\ (kind # "seed" => l = level)
  BY <1>1 DEF SecretFrom, SeedOf, SecretKinds, Families
<1>4. kind \in Kinds
  BY DEF SecretKinds, Kinds
<1>5. QED
  BY <1>2, <1>3, <1>4, StringType

LEMMA Initially == Init => IInv
<1> SUFFICES ASSUME Init PROVE IInv
  OBVIOUS
<1>1. family \in Families /\ paired = TRUE /\ product = None /\ origin = None
  BY DEF Init
<1>2. PICK b \in Bindings, level \in Levels, of \in Seeds :
        /\ secret = SecretFrom(b, family, level, of)
        /\ public = String(PublicKind(family), level, of)
  BY DEF Init
<1>3. Shapes /\ Paired
  BY <1>1, <1>2, HandsOutAPair DEF Shapes, Paired
<1>4. QED
  BY <1>1, <1>3 DEF IInv, Made

LEMMA HandOutKeeps ==
  ASSUME IInv, NEW b, NEW level \in Levels, NEW of \in Seeds, HandOut(b, level, of)
  PROVE  IInv'
<1>1. /\ secret' = SecretFrom(b, family, level, of)
      /\ public' = String(PublicKind(family), level, of)
      /\ paired' = TRUE /\ UNCHANGED <<family, product, origin>>
  BY DEF HandOut
<1>2. /\ secret' \in Strings /\ secret'.kind \in SecretKinds(family)
      /\ secret'.off = 0 /\ secret'.of = of
      /\ public' \in Strings /\ public'.kind = PublicKind(family)
      /\ public'.off = 0 /\ public'.of = of /\ public'.level = level
      /\ secret'.kind # "seed" => secret'.level = level
  BY <1>1, HandsOutAPair DEF IInv, Shapes
<1>3. Shapes' /\ Paired'
  BY <1>1, <1>2 DEF IInv, Shapes, Paired
<1>4. Made'
  BY <1>1 DEF IInv, Made
<1>5. QED
  BY <1>3, <1>4 DEF IInv

\* keygenFromSeed takes seeds only, so what it hands out is of the same seed.
LEMMA ReseedKeeps ==
  ASSUME IInv, NEW b \in Bindings, NEW level \in Levels, Reseed(b, level)
  PROVE  IInv'
<1>1. /\ family = "ml-dsa" /\ b \notin {"c", "python"} /\ Fits(b, secret, "seed", level)
      /\ HandOut(b, level, FirstBytes(secret))
  BY DEF Reseed
<1>2. secret.kind = "seed"
  BY <1>1, SeedsAreSeeds DEF IInv, Shapes, SecretKinds
<1>3. FirstBytes(secret) \in Seeds
  BY <1>2 DEF FirstBytes, IInv, Shapes, Strings
<1>4. QED
  BY <1>1, <1>3, HandOutKeeps

LEMMA ReceiveKeeps == IInv /\ Receive => IInv'
<1> SUFFICES ASSUME IInv, Receive PROVE IInv'
  OBVIOUS
<1>1. paired' = FALSE /\ UNCHANGED <<family, secret, product, origin>>
  BY DEF Receive
<1>2. PICK level \in Levels, of \in Seeds : public' = String(PublicKind(family), level, of)
  BY DEF Receive
<1>3. PublicKind(family) \in Kinds
  BY DEF PublicKind, Kinds
<1>4. public' \in Strings /\ public'.kind = PublicKind(family)
  BY <1>2, <1>3, StringType
<1>5. Shapes'
  BY <1>1, <1>4 DEF IInv, Shapes
<1>6. QED
  BY <1>1, <1>5 DEF IInv, Paired, Made

\* A binding signs with the seed the key held is of.
LEMMA SignsWithItsSeed ==
  ASSUME IInv, family = "ml-dsa", NEW b \in Bindings, NEW level \in Levels,
         Signs(b, level, secret)
  PROVE  SigningKey(b, secret) = secret.of
<1>1. secret \in Strings /\ secret.kind \in {"seed", "secret"}
  BY DEF IInv, Shapes, SecretKinds
<1>2. CASE b = "java"
  <2>1. Fits(b, secret, "seed", level)
    BY <1>2 DEF Signs
  <2>2. secret.kind = "seed"
    BY <1>1, <1>2, <2>1, SeedsAreSeeds
  <2>3. QED
    BY <1>2, <2>2 DEF SigningKey, FirstBytes
<1>3. CASE b # "java"
  BY <1>3 DEF SigningKey
<1>4. QED
  BY <1>2, <1>3

LEMMA SignKeeps ==
  ASSUME IInv, NEW b \in Bindings, NEW level \in Levels, Sign(b, level)
  PROVE  IInv'
<1>1. /\ family = "ml-dsa" /\ Signs(b, level, secret)
      /\ product' = String("signature", level, SigningKey(b, secret))
      /\ origin' = [key |-> secret, level |-> level]
      /\ UNCHANGED <<family, secret, public, paired>>
  BY DEF Sign
<1>2. SigningKey(b, secret) = secret.of
  BY <1>1, SignsWithItsSeed
<1>3. secret.of \in Seeds /\ "signature" \in Kinds
  BY DEF IInv, Shapes, Strings, Kinds
<1>4. product' \in Strings /\ product'.kind = "signature"
  BY <1>1, <1>2, <1>3, StringType
<1>5. Shapes'
  BY <1>1, <1>4 DEF IInv, Shapes, ProductKinds
<1>6. Paired'
  BY <1>1 DEF IInv, Paired
<1>7. origin'.key = secret /\ origin'.level = level
  BY <1>1
<1>8. Made'
  BY <1>1, <1>2, <1>7 DEF Made
<1>9. QED
  BY <1>5, <1>6, <1>8 DEF IInv

LEMMA EncapsulateKeeps ==
  ASSUME IInv, NEW b \in Bindings, NEW level \in Levels, Encapsulate(b, level)
  PROVE  IInv'
<1>1. /\ family = "ml-kem" /\ Fits(b, public, "encapsulation", level)
      /\ product' = String("ciphertext", level, public.of)
      /\ origin' = [key |-> public, level |-> level]
      /\ UNCHANGED <<family, secret, public, paired>>
  BY DEF Encapsulate
<1>2. public \in Strings /\ public.kind = "encapsulation"
  BY <1>1 DEF IInv, Shapes, PublicKind
<1>3. public.level = level
  BY <1>1, <1>2, FitsOwnKind DEF LooksUp, Kinds
<1>4. public.of \in Seeds /\ "ciphertext" \in Kinds
  BY <1>2 DEF Strings, Kinds
<1>5. product' \in Strings /\ product'.kind = "ciphertext"
  BY <1>1, <1>4, StringType
<1>6. Shapes'
  BY <1>1, <1>5 DEF IInv, Shapes, ProductKinds
<1>7. Paired'
  BY <1>1 DEF IInv, Paired
<1>8. origin'.key = public /\ origin'.level = level
  BY <1>1
<1>9. Made'
  BY <1>1, <1>3, <1>8 DEF Made
<1>10. QED
  BY <1>6, <1>7, <1>9 DEF IInv

\* Damage ends what was known of the string it hits.
LEMMA DamageKeeps == IInv /\ Damage => IInv'
<1> SUFFICES ASSUME IInv, Damage PROVE IInv'
  OBVIOUS
<1>1. family' = family
  BY DEF Damage
<1>2. ASSUME NEW d \in {-1, 1}, secret' = [secret EXCEPT !.off = d], paired' = FALSE,
             UNCHANGED <<public, product, origin>>
      PROVE  IInv'
  <2>1. secret' \in Strings /\ secret'.kind = secret.kind
    BY <1>2, DamagedType DEF IInv, Shapes
  <2>2. QED
    BY <1>1, <1>2, <2>1 DEF IInv, Shapes, Paired, Made
<1>3. ASSUME NEW d \in {-1, 1}, public' = [public EXCEPT !.off = d], paired' = FALSE,
             UNCHANGED <<secret, product, origin>>
      PROVE  IInv'
  <2>1. public' \in Strings /\ public'.kind = public.kind
    BY <1>3, DamagedType DEF IInv, Shapes
  <2>2. QED
    BY <1>1, <1>3, <2>1 DEF IInv, Shapes, Paired, Made
<1>4. ASSUME NEW d \in {-1, 1}, product # None, product' = [product EXCEPT !.off = d],
             origin' = None, UNCHANGED <<secret, public, paired>>
      PROVE  IInv'
  <2>1. product' \in Strings /\ product'.kind = product.kind
    BY <1>4, DamagedType DEF IInv, Shapes
  <2>2. QED
    BY <1>1, <1>4, <2>1 DEF IInv, Shapes, Paired, Made
<1>5. ASSUME product' = public, origin' = None, UNCHANGED <<secret, public, paired>>
      PROVE  IInv'
  <2>1. product' \in Strings /\ product'.kind \in ProductKinds(family)
    BY <1>5 DEF IInv, Shapes, PublicKind, ProductKinds
  <2>2. QED
    BY <1>1, <1>5, <2>1 DEF IInv, Shapes, Paired, Made
<1>6. QED
  BY <1>2, <1>3, <1>4, <1>5 DEF Damage

LEMMA Invariance == Spec => []IInv
<1>1. IInv /\ [Next]_vars => IInv'
  <2> SUFFICES ASSUME IInv, [Next]_vars PROVE IInv'
    OBVIOUS
  <2>1. ASSUME NEW b \in Bindings, NEW level \in Levels, Keygen(b, level) PROVE IInv'
    BY <2>1, HandOutKeeps DEF Keygen
  <2>2. CASE UNCHANGED vars
    BY <2>2 DEF vars, IInv, Shapes, Paired, Made
  <2>3. QED
    BY <2>1, <2>2, ReseedKeeps, ReceiveKeeps, SignKeeps, EncapsulateKeeps, DamageKeeps
       DEF Next
<1>2. QED
  BY Initially, <1>1, PTL DEF Spec

------------------------------------------------------------------------------
(* The properties.                                                          *)

\* The held strings are of their kinds.
THEOREM TypeCorrect == Spec => []TypeOK
<1>1. IInv => TypeOK
  <2> SUFFICES ASSUME IInv PROVE TypeOK
    OBVIOUS
  <2>1. \A x \in {secret, public} : x.level \in Levels /\ x.off \in -1 .. 1
    BY DEF IInv, Shapes, Strings
  <2>2. product.kind \in {"none", public.kind}
                         \cup (IF family = "ml-dsa" THEN {"signature"} ELSE {"ciphertext"})
    BY DEF IInv, Shapes, None, ProductKinds, PublicKind, Families
  <2>3. QED
    BY <2>1, <2>2 DEF IInv, Shapes, TypeOK, SecretKinds
<1>2. QED
  BY <1>1, Invariance, PTL

\* No key and no signature is ever of bytes that a public key contains: no binding
\* takes an expanded key, whole or a byte off, for a seed (Pqc.java:107-113).
THEOREM SeedsAreDrawn == Spec => []NoKeyFromPublicBytes
<1>1. IInv => NoKeyFromPublicBytes
  BY DEF IInv, Shapes, Strings, NoKeyFromPublicBytes
<1>2. QED
  BY <1>1, Invariance, PTL

\* The signature held is whole, and by the key held at this level.
Genuine(level) ==
  /\ product # None /\ product.kind = "signature" /\ product.off = 0
  /\ public.off = 0 /\ public.level = level /\ product.level = level
  /\ product.of = public.of

\* Each binding verifies exactly what passes these three, whichever it looks at first.
LEMMA VerifiesWhatFits ==
  ASSUME NEW b \in Bindings, NEW level, NEW key, NEW sig
  PROVE  Verify(b, level, key, sig) = 1
           <=> /\ Fits(b, key, "public", level) /\ Fits(b, sig, "signature", level)
               /\ Authentic(level, key, sig)
<1>1. CASE b = "c"
  BY <1>1 DEF Verify, CVerify, LiboqsVerifies, Answer
<1>2. CASE b = "python"
  <2>1. Fits("c", sig, "signature", level) <=> Fits(b, sig, "signature", level)
    BY <1>2, FitsMeans DEF LooksUp, Kinds, Bindings
  <2>2. QED
    BY <1>2, <2>1 DEF Verify, PythonVerify, LiboqsVerifies, Answer
<1>3. CASE b = "go"
  BY <1>3 DEF Verify, GoVerify, Answer
<1>4. CASE b = "rust"
  BY <1>4 DEF Verify, RustVerify, Answer
<1>5. CASE b = "js"
  BY <1>5 DEF Verify, JsVerify, Answer
<1>6. CASE b = "java"
  BY <1>6 DEF Verify, JavaVerify, Answer
<1>7. QED
  BY <1>1, <1>2, <1>3, <1>4, <1>5, <1>6 DEF Bindings

\* No check but these decides: a length that fits leaves no doubt about the level,
\* and a byte behind a signature does not fit.
LEMMA VerifiesTheGenuine ==
  ASSUME IInv, family = "ml-dsa", NEW b \in Bindings, NEW level \in Levels
  PROVE  Verify(b, level, public, product) = 1 <=> Genuine(level)
<1>1. public \in Strings /\ public.kind = "public"
  BY DEF IInv, Shapes, PublicKind
<1>2. product = None \/ product \in Strings
  BY DEF IInv, Shapes
<1>3. LooksUp(b, "public") /\ LooksUp(b, "signature")
  BY DEF LooksUp, Kinds
<1>4. ASSUME Verify(b, level, public, product) = 1 PROVE Genuine(level)
  <2>1. /\ Fits(b, public, "public", level) /\ Fits(b, product, "signature", level)
        /\ Authentic(level, public, product)
    BY <1>4, VerifiesWhatFits
  <2>2. product \in Strings /\ product # None /\ product.kind = "signature"
    BY <1>2, <2>1 DEF Fits, Authentic
  <2>3. public.off = 0 /\ product.off = 0
    BY <1>1, <1>3, <2>1, <2>2, FitsOwnKind
  <2>4. QED
    BY <2>1, <2>2, <2>3 DEF Genuine, Authentic
<1>5. ASSUME Genuine(level) PROVE Verify(b, level, public, product) = 1
  <2>1. product \in Strings
    BY <1>2, <1>5 DEF Genuine
  <2>2. Fits(b, public, "public", level) /\ Fits(b, product, "signature", level)
    BY <1>1, <1>3, <1>5, <2>1, WholeFits DEF Genuine
  <2>3. Authentic(level, public, product)
    BY <1>1, <1>5 DEF Genuine, Authentic
  <2>4. QED
    BY <2>2, <2>3, VerifiesWhatFits
<1>6. QED
  BY <1>4, <1>5

\* What one binding verifies every binding verifies, at every level asked for and
\* whatever the strings have become (go/pqc.go:131-137): exactly the whole signature
\* by the key held, at the level of both.
THEOREM OneVerdict ==
  Spec => [](/\ VerdictsAgree
             /\ family = "ml-dsa" =>
                  \A b \in Bindings, level \in Levels :
                    Verify(b, level, public, product) = 1 <=> Genuine(level))
<1>1. IInv => /\ VerdictsAgree
              /\ family = "ml-dsa" =>
                   \A b \in Bindings, level \in Levels :
                     Verify(b, level, public, product) = 1 <=> Genuine(level)
  BY VerifiesTheGenuine DEF VerdictsAgree
<1>2. QED
  BY <1>1, Invariance, PTL

\* The ciphertext held is whole, and of the whole secret key held at this level.
Recoverable(level) ==
  /\ product.kind = "ciphertext" /\ product.off = 0 /\ product.level = level
  /\ secret.off = 0 /\ secret.level = level /\ product.of = secret.of

\* What every binding does, whoever checks the lengths and in whatever order.
Recovered(level, key, ct) ==
  IF /\ key # None /\ Size(key) = Sizes["decapsulation"][level]
     /\ ct # None /\ Size(ct) = Sizes["ciphertext"][level]
  THEN Decapsulated(key, ct) ELSE Refused

LEMMA DecapsulatesAlike ==
  ASSUME NEW b \in Bindings, NEW level, NEW key, NEW ct
  PROVE  Decapsulate(b, level, key, ct) = Recovered(level, key, ct)
<1>1. /\ Fits(b, key, "decapsulation", level)
           <=> key # None /\ Size(key) = Sizes["decapsulation"][level]
      /\ Fits(b, ct, "ciphertext", level)
           <=> ct # None /\ Size(ct) = Sizes["ciphertext"][level]
  BY FitsMeans DEF LooksUp, Kinds
<1>2. CASE b = "c"
  BY <1>1, <1>2 DEF Decapsulate, CDecapsulate, Recovered
<1>3. CASE b = "python"
  BY <1>1, <1>3 DEF Decapsulate, PythonDecapsulate, Recovered
<1>4. CASE b = "go"
  BY <1>1, <1>4 DEF Decapsulate, GoDecapsulate, CirclDecapsulates, Recovered
<1>5. CASE b = "rust"
  BY <1>1, <1>5 DEF Decapsulate, RustDecapsulate, Recovered
<1>6. CASE b = "js"
  BY <1>1, <1>6 DEF Decapsulate, JsDecapsulate, Recovered
<1>7. CASE b = "java"
  BY <1>1, <1>7 DEF Decapsulate, JavaDecapsulate, Recovered
<1>8. QED
  BY <1>2, <1>3, <1>4, <1>5, <1>6, <1>7 DEF Bindings

LEMMA RecoversTheRecoverable ==
  ASSUME IInv, family = "ml-kem", product # None, NEW b \in Bindings, NEW level \in Levels
  PROVE  Decapsulate(b, level, secret, product) = <<"shared", secret.of>>
           <=> Recoverable(level)
<1>1. secret \in Strings /\ secret.kind = "decapsulation" /\ product \in Strings
  BY DEF IInv, Shapes, SecretKinds
<1>2. LooksUp(b, "decapsulation") /\ LooksUp(b, "ciphertext")
  BY DEF LooksUp, Kinds
<1>3. Decapsulate(b, level, secret, product)
        = IF /\ Fits(b, secret, "decapsulation", level)
             /\ Fits(b, product, "ciphertext", level)
          THEN Decapsulated(secret, product) ELSE Refused
  BY <1>2, DecapsulatesAlike, FitsMeans DEF Recovered
<1>4. ASSUME Decapsulate(b, level, secret, product) = <<"shared", secret.of>>
      PROVE  Recoverable(level)
  <2>1. /\ Decapsulate(b, level, secret, product) # Refused
        /\ Decapsulate(b, level, secret, product) # <<"rejected", secret.of, product>>
    BY <1>4 DEF Refused
  <2>2. /\ Fits(b, secret, "decapsulation", level) /\ Fits(b, product, "ciphertext", level)
        /\ product.kind = "ciphertext" /\ product.of = secret.of
    BY <1>3, <2>1 DEF Decapsulated
  <2>3. /\ secret.off = 0 /\ secret.level = level
        /\ product.off = 0 /\ product.level = level
    BY <1>1, <1>2, <2>2, FitsOwnKind
  <2>4. QED
    BY <2>2, <2>3 DEF Recoverable
<1>5. ASSUME Recoverable(level)
      PROVE  Decapsulate(b, level, secret, product) = <<"shared", secret.of>>
  <2>1. Fits(b, secret, "decapsulation", level) /\ Fits(b, product, "ciphertext", level)
    BY <1>1, <1>2, <1>5, WholeFits DEF Recoverable
  <2>2. QED
    BY <1>3, <1>5, <2>1 DEF Recoverable, Decapsulated
<1>6. QED
  BY <1>4, <1>5

\* Every binding decapsulates whatever is held alike, though each asks its own table
\* and CIRCL asks for Go, and gives the shared secret of exactly the whole ciphertexts
\* that were encapsulated to the key, at its level: not for a public key of
\* ML-KEM-1024, which is as long as a ciphertext and not refused.
THEOREM OneSharedSecret ==
  Spec => [](/\ DecapsulationsAgree
             /\ family = "ml-kem" /\ product # None =>
                  \A b \in Bindings, level \in Levels :
                    Decapsulate(b, level, secret, product) = <<"shared", secret.of>>
                      <=> Recoverable(level))
<1>1. DecapsulationsAgree
  BY DecapsulatesAlike DEF DecapsulationsAgree
<1>2. IInv => (family = "ml-kem" /\ product # None =>
                 \A b \in Bindings, level \in Levels :
                   Decapsulate(b, level, secret, product) = <<"shared", secret.of>>
                     <=> Recoverable(level))
  BY RecoversTheRecoverable
<1>3. QED
  BY <1>1, <1>2, Invariance, PTL

\* A signature made by any binding with the secret key of a pair verifies in every
\* binding under the public key of the pair.
THEOREM SignaturesTravel == Spec => []HonestVerifies
<1>1. IInv => HonestVerifies
  <2> SUFFICES ASSUME IInv, family = "ml-dsa", paired, origin # None,
                      origin = [key |-> secret, level |-> public.level],
                      NEW b \in Bindings
               PROVE  Verify(b, public.level, public, product) = 1
    BY DEF HonestVerifies
  <2>1. product = String("signature", public.level, secret.of)
    BY DEF IInv, Made
  <2>2. /\ public \in Strings /\ public.kind = "public" /\ public.off = 0
        /\ secret.of = public.of
    BY DEF IInv, Shapes, Paired, PublicKind
  <2>3. public.level \in Levels /\ public.of \in Seeds /\ "signature" \in Kinds
    BY <2>2 DEF Strings, Kinds
  <2>4. /\ product \in Strings /\ product.kind = "signature" /\ product.off = 0
        /\ product.level = public.level /\ product.of = public.of
    BY <2>1, <2>2, <2>3, StringType
  <2>5. Genuine(public.level)
    BY <2>2, <2>4 DEF Genuine, None
  <2>6. QED
    BY <2>3, <2>5, VerifiesTheGenuine
<1>2. QED
  BY <1>1, Invariance, PTL

\* What any binding encapsulates to the public key of a pair, every binding recovers
\* with the secret key of the pair.
THEOREM CiphertextsTravel == Spec => []HonestDecapsulates
<1>1. IInv => HonestDecapsulates
  <2> SUFFICES ASSUME IInv, family = "ml-kem", paired, origin # None,
                      origin.key = public, NEW b \in Bindings
               PROVE  Decapsulate(b, origin.level, secret, product) = <<"shared", public.of>>
    BY DEF HonestDecapsulates
  <2>1. /\ product = String("ciphertext", public.level, public.of)
        /\ origin.level = public.level
    BY DEF IInv, Made
  <2>2. /\ public \in Strings /\ secret \in Strings /\ secret.kind = "decapsulation"
        /\ secret.off = 0 /\ secret.of = public.of /\ secret.level = public.level
    BY DEF IInv, Shapes, Paired, SecretKinds
  <2>3. public.level \in Levels /\ public.of \in Seeds /\ "ciphertext" \in Kinds
    BY <2>2 DEF Strings, Kinds
  <2>4. /\ product \in Strings /\ product.kind = "ciphertext" /\ product.off = 0
        /\ product.level = public.level /\ product.of = public.of
    BY <2>1, <2>3, StringType
  <2>5. Recoverable(origin.level) /\ product # None
    BY <2>1, <2>2, <2>4 DEF Recoverable, None
  <2>6. QED
    BY <2>1, <2>2, <2>3, <2>5, RecoversTheRecoverable
<1>2. QED
  BY <1>1, Invariance, PTL
==============================================================================
