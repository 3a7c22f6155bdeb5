---------------------------- MODULE SignBytes_proofs ----------------------------
(***************************************************************************)
(* The builders of the six bindings make the same bytes, and these bytes    *)
(* determine the transaction, for every radix, domain tag, and set of       *)
(* chain-ids, bodies and AuthInfos: the fields are injective below their    *)
(* width, a string splits in one way at a known length, and so both layouts *)
(* can be read back; the two layouts part in their first four bytes.  C's   *)
(* copies into a sized buffer each extend what is written by what they      *)
(* copy and the last fills it; Java's capacities are the lengths of what    *)
(* is put.                                                                  *)
(***************************************************************************)
EXTENDS SignBytes, SequenceTheorems, TLAPS

Bytes == Seq(Byte)

\* The two layouts (c/qorechain_pqc.h:71-75), which the builders turn out to make.
V1(body, auth) == be32(Len(body)) \o body \o be32(Len(auth)) \o auth
V2(chain, body, auth) == Domain \o be64(Len(chain)) \o chain \o V1(body, auth)
Layout(x) == IF x.version = "v1" THEN V1(x.body, x.auth) ELSE V2(x.chain, x.body, x.auth)

LEMMA DivMod ==
  ASSUME NEW n \in Nat
  PROVE  /\ Shr8(n) \in Nat
         /\ n % Radix \in Byte
         /\ n = (Radix * Shr8(n)) + (n % Radix)
  BY RadixAssumption DEF Shr8, Byte

LEMMA Shifts ==
  ASSUME NEW n \in Nat
  PROVE  Shr8(n) \in Nat /\ Shr16(n) \in Nat /\ Shr24(n) \in Nat /\ Shr32(n) \in Nat
  BY DivMod DEF Shr16, Shr24, Shr32

\* The four bytes of a length are bytes.
LEMMA Be32Type ==
  ASSUME NEW n \in Nat
  PROVE  be32(n) \in Bytes /\ Len(be32(n)) = 4
<1>1. /\ n % Radix \in Byte /\ Shr8(n) % Radix \in Byte
      /\ Shr16(n) % Radix \in Byte /\ Shr24(n) % Radix \in Byte
  BY DivMod, Shifts
<1>2. QED
  BY <1>1 DEF be32, Bytes

LEMMA DigitInjective ==
  ASSUME NEW m \in Nat, NEW n \in Nat,
         Shr8(m) = Shr8(n), m % Radix = n % Radix
  PROVE  m = n
  BY DivMod

\* The same bytes, and the same part that was cut off, make the same length.
LEMMA Be32Injective ==
  ASSUME NEW m \in Nat, NEW n \in Nat,
         be32(m) = be32(n), Shr32(m) = Shr32(n)
  PROVE  m = n
<1>1. /\ m % Radix = n % Radix
      /\ Shr8(m) % Radix = Shr8(n) % Radix
      /\ Shr16(m) % Radix = Shr16(n) % Radix
      /\ Shr24(m) % Radix = Shr24(n) % Radix
  BY DEF be32
<1>2. Shr24(m) = Shr24(n)
  BY <1>1, Shifts, DigitInjective DEF Shr32
<1>3. Shr16(m) = Shr16(n)
  BY <1>1, <1>2, Shifts, DigitInjective DEF Shr24
<1>4. Shr8(m) = Shr8(n)
  BY <1>1, <1>3, Shifts, DigitInjective DEF Shr16
<1>5. QED
  BY <1>1, <1>4, DigitInjective

LEMMA LengthInjective ==
  ASSUME NEW s \in Bytes, NEW t \in Bytes,
         Fits32(Len(s)), Fits32(Len(t)), be32(Len(s)) = be32(Len(t))
  PROVE  Len(s) = Len(t)
  BY Be32Injective, LenProperties DEF Fits32, Bytes

\* Concatenation by a name of its own, whose laws are the three lemmas below.
Cat(s, t) == s \o t

\* A string splits in one way at a given length.
LEMMA SplitsOnce ==
  ASSUME NEW s \in Bytes, NEW t \in Bytes, NEW u \in Bytes, NEW v \in Bytes,
         Len(s) = Len(t), Cat(s, u) = Cat(t, v)
  PROVE  s = t /\ u = v
<1>1. \A i \in 1 .. Len(s) : s[i] = t[i]
  <2>1. \A i \in 1 .. Len(s) : (s \o u)[i] = s[i] /\ (t \o v)[i] = t[i]
    BY LenProperties, ConcatProperties DEF Bytes
  <2>2. QED
    BY <2>1 DEF Cat
<1>2. s = t
  BY <1>1, SeqEqual DEF Bytes
<1>3. QED
  BY <1>2, ConcatSimplifications DEF Bytes, Cat

LEMMA Concat ==
  ASSUME NEW s \in Bytes, NEW t \in Bytes
  PROVE  Cat(s, t) \in Bytes /\ Len(Cat(s, t)) = Len(s) + Len(t)
  BY ConcatProperties DEF Bytes, Cat

LEMMA Assoc ==
  ASSUME NEW s \in Bytes, NEW t \in Bytes, NEW u \in Bytes
  PROVE  Cat(Cat(s, t), u) = Cat(s, Cat(t, u))
  BY ConcatAssociative DEF Bytes, Cat

LEMMA Lengths ==
  ASSUME NEW s \in Bytes
  PROVE  Len(s) \in Nat /\ be32(Len(s)) \in Bytes /\ Len(be32(Len(s))) = 4
  BY Be32Type, LenProperties DEF Bytes

\* A length, its data, and the rest: what both layouts consist of.
Field(s, rest) == Cat(be32(Len(s)), Cat(s, rest))

LEMMA FieldType ==
  ASSUME NEW s \in Bytes, NEW u \in Bytes
  PROVE  Field(s, u) \in Bytes
  BY Lengths, Concat DEF Field

LEMMA FieldInjective ==
  ASSUME NEW s \in Bytes, NEW t \in Bytes, NEW u \in Bytes, NEW v \in Bytes,
         Fits32(Len(s)), Fits32(Len(t)), Field(s, u) = Field(t, v)
  PROVE  s = t /\ u = v
<1>1. /\ be32(Len(s)) \in Bytes /\ be32(Len(t)) \in Bytes
      /\ Len(be32(Len(s))) = Len(be32(Len(t)))
  BY Lengths
<1>2. Cat(s, u) \in Bytes /\ Cat(t, v) \in Bytes
  BY Concat
<1>3. be32(Len(s)) = be32(Len(t)) /\ Cat(s, u) = Cat(t, v)
  BY <1>1, <1>2, SplitsOnce DEF Field
<1>4. Len(s) = Len(t)
  BY <1>3, LengthInjective
<1>5. QED
  BY <1>3, <1>4, SplitsOnce

------------------------------------------------------------------------------
LEMMA EmptyRest ==
  <<>> \in Bytes /\ \A a \in Bytes : Cat(a, <<>>) = a
  BY ConcatEmptySeq, EmptySeq DEF Bytes, Cat

\* V1 as nested fields.
LEMMA V1Fields ==
  ASSUME NEW b \in Bytes, NEW a \in Bytes
  PROVE  V1(b, a) = Field(b, Field(a, <<>>)) /\ Field(a, <<>>) \in Bytes
<1> DEFINE lb == be32(Len(b))
           la == be32(Len(a))
<1>1. lb \in Bytes /\ la \in Bytes
  BY Lengths
<1>2. V1(b, a) = Cat(Cat(Cat(lb, b), la), a)
  BY DEF V1, Cat
<1>3. Field(b, Field(a, <<>>)) = Cat(lb, Cat(b, Cat(la, a)))
  BY EmptyRest DEF Field
<1> HIDE DEF lb, la
<1>4. Cat(lb, b) \in Bytes /\ Cat(la, a) \in Bytes
  BY <1>1, Concat
<1>5. Cat(Cat(Cat(lb, b), la), a) = Cat(Cat(lb, b), Cat(la, a))
  BY <1>1, <1>4, Assoc
<1>6. Cat(Cat(lb, b), Cat(la, a)) = Cat(lb, Cat(b, Cat(la, a)))
  BY <1>1, <1>4, Assoc
<1>7. QED
  BY <1>2, <1>3, <1>5, <1>6, EmptyRest, FieldType

\* Two v1 strings are the same only for the same body and AuthInfo, all below 2^32.
LEMMA V1Injective ==
  ASSUME NEW b \in Bytes, NEW a \in Bytes, NEW c \in Bytes, NEW d \in Bytes,
         Fits32(Len(b)), Fits32(Len(a)), Fits32(Len(c)), Fits32(Len(d)),
         V1(b, a) = V1(c, d)
  PROVE  b = c /\ a = d
<1>1. Field(a, <<>>) \in Bytes /\ Field(d, <<>>) \in Bytes
  BY V1Fields
<1>2. b = c /\ Field(a, <<>>) = Field(d, <<>>)
  BY <1>1, V1Fields, FieldInjective
<1>3. QED
  BY <1>2, EmptyRest, FieldInjective

LEMMA Be64Type ==
  ASSUME NEW n \in Nat
  PROVE  be64(n) \in Bytes /\ Len(be64(n)) = 8
<1> DEFINE h == be32(Shr32(n))
           l == be32(n)
<1>1. h \in Bytes /\ Len(h) = 4
  BY Shifts, Be32Type
<1>2. l \in Bytes /\ Len(l) = 4
  BY Be32Type
<1>3. be64(n) = Cat(h, l)
  BY DEF be64, Cat
<1> HIDE DEF h, l
<1>4. Cat(h, l) \in Bytes /\ Len(Cat(h, l)) = 4 + 4
  BY <1>1, <1>2, Concat
<1>5. QED
  BY <1>3, <1>4

LEMMA Be64Injective ==
  ASSUME NEW m \in Nat, NEW n \in Nat, Fits64(m), Fits64(n), be64(m) = be64(n)
  PROVE  m = n
<1> DEFINE hm == be32(Shr32(m))
           hn == be32(Shr32(n))
           lm == be32(m)
           ln == be32(n)
<1>1. Shr32(m) \in Nat /\ Shr32(n) \in Nat
  BY Shifts
<1>2. /\ hm \in Bytes /\ hn \in Bytes /\ Len(hm) = Len(hn)
      /\ lm \in Bytes /\ ln \in Bytes
  BY <1>1, Be32Type
<1>3. Cat(hm, lm) = Cat(hn, ln)
  BY DEF be64, Cat
<1>4. hm = hn /\ lm = ln
  <2> HIDE DEF hm, hn, lm, ln
  <2>1. QED
    BY <1>2, <1>3, SplitsOnce
<1>5. Shr32(m) = Shr32(n)
  BY <1>1, <1>4, Be32Injective DEF Fits64, Fits32
<1>6. QED
  BY <1>4, <1>5, Be32Injective

\* V2 as the tag, the length of the chain-id, the chain-id and V1.
LEMMA V2Fields ==
  ASSUME NEW k \in Bytes, NEW b \in Bytes, NEW a \in Bytes
  PROVE  /\ V1(b, a) \in Bytes
         /\ Cat(be64(Len(k)), Cat(k, V1(b, a))) \in Bytes
         /\ V2(k, b, a) = Cat(Domain, Cat(be64(Len(k)), Cat(k, V1(b, a))))
<1> DEFINE lk == be64(Len(k))
           w  == V1(b, a)
<1>1. w \in Bytes
  BY V1Fields, FieldType
<1>2. lk \in Bytes
  BY Lengths, Be64Type
<1>3. Domain \in Bytes
  BY DomainAssumption DEF Bytes
<1>4. V2(k, b, a) = Cat(Cat(Cat(Domain, lk), k), w)
  BY DEF V2, Cat
<1> HIDE DEF lk, w
<1>5. Cat(Domain, lk) \in Bytes /\ Cat(k, w) \in Bytes
  BY <1>1, <1>2, <1>3, Concat
<1>6. Cat(Cat(Cat(Domain, lk), k), w) = Cat(Cat(Domain, lk), Cat(k, w))
  BY <1>1, <1>5, Assoc
<1>7. Cat(Cat(Domain, lk), Cat(k, w)) = Cat(Domain, Cat(lk, Cat(k, w)))
  BY <1>2, <1>3, <1>5, Assoc
<1>8. Cat(lk, Cat(k, w)) \in Bytes
  BY <1>2, <1>5, Concat
<1>9. QED
  BY <1>1, <1>4, <1>6, <1>7, <1>8 DEF lk, w

\* Two v2 strings are the same only for the same chain-id, body and AuthInfo.
LEMMA V2Injective ==
  ASSUME NEW k \in Bytes, NEW b \in Bytes, NEW a \in Bytes, Fits64(Len(k)),
         NEW l \in Bytes, NEW c \in Bytes, NEW d \in Bytes, Fits64(Len(l)),
         Fits32(Len(b)), Fits32(Len(a)), Fits32(Len(c)), Fits32(Len(d)),
         V2(k, b, a) = V2(l, c, d)
  PROVE  k = l /\ b = c /\ a = d
<1> DEFINE u == Cat(be64(Len(k)), Cat(k, V1(b, a)))
           v == Cat(be64(Len(l)), Cat(l, V1(c, d)))
<1>1. /\ Domain \in Bytes /\ u \in Bytes /\ v \in Bytes
      /\ Cat(Domain, u) = Cat(Domain, v)
  BY DomainAssumption, V2Fields DEF Bytes
<1>2. u = v
  <2> HIDE DEF u, v
  <2>1. QED
    BY <1>1, SplitsOnce
<1>3. /\ be64(Len(k)) \in Bytes /\ be64(Len(l)) \in Bytes
      /\ Len(be64(Len(k))) = Len(be64(Len(l)))
  BY Lengths, Be64Type
<1>4. V1(b, a) \in Bytes /\ V1(c, d) \in Bytes
  BY V2Fields
<1>5. Cat(k, V1(b, a)) \in Bytes /\ Cat(l, V1(c, d)) \in Bytes
  BY <1>4, Concat
<1>6. be64(Len(k)) = be64(Len(l)) /\ Cat(k, V1(b, a)) = Cat(l, V1(c, d))
  BY <1>2, <1>3, <1>5, SplitsOnce
<1>7. Len(k) = Len(l)
  BY <1>6, Lengths, Be64Injective
<1>8. k = l /\ V1(b, a) = V1(c, d)
  BY <1>4, <1>6, <1>7, SplitsOnce
<1>9. QED
  BY <1>8, V1Injective

LEMMA DomainSplits ==
  /\ SubSeq(Domain, 1, 4) \in Bytes /\ SubSeq(Domain, 5, Len(Domain)) \in Bytes
  /\ Len(SubSeq(Domain, 1, 4)) = 4
  /\ Domain = Cat(SubSeq(Domain, 1, 4), SubSeq(Domain, 5, Len(Domain)))
<1> DEFINE h == SubSeq(Domain, 1, 4)
           r == SubSeq(Domain, 5, Len(Domain))
<1>1. Len(Domain) \in Nat /\ Domain \in Seq(Byte)
  BY DomainAssumption, LenProperties
<1>2. /\ h \in Seq(Byte) /\ r \in Seq(Byte) /\ Len(h) = 4 /\ Len(r) = Len(Domain) - 4
      /\ \A i \in 1 .. 4 : h[i] = Domain[i]
      /\ \A i \in 1 .. Len(Domain) - 4 : r[i] = Domain[4 + i]
  BY <1>1, DomainAssumption, SubSeqProperties
<1> HIDE DEF h, r
<1>3. /\ h \o r \in Seq(Byte) /\ Len(h \o r) = Len(h) + Len(r)
      /\ \A i \in 1 .. Len(h) + Len(r) :
           (h \o r)[i] = IF i <= Len(h) THEN h[i] ELSE r[i - Len(h)]
  BY <1>2, ConcatProperties
<1>4. \A i \in 1 .. Len(Domain) : (h \o r)[i] = Domain[i]
  BY <1>1, <1>2, <1>3
<1>5. Domain = h \o r
  <2>1. Len(h \o r) = Len(Domain)
    BY <1>1, <1>2, <1>3
  <2> DEFINE w == h \o r
  <2>2. w \in Seq(Byte) /\ Len(w) = Len(Domain) /\ \A i \in 1 .. Len(w) : w[i] = Domain[i]
    BY <1>3, <1>4, <2>1
  <2> HIDE DEF w
  <2>3. w = Domain
    BY <1>1, <2>2, SeqEqual
  <2>4. QED
    BY <2>3 DEF w
<1>6. QED
  BY <1>2, <1>5 DEF h, r, Cat, Bytes

\* The first four bytes tell the two layouts apart.
LEMMA V1NotV2 ==
  ASSUME NEW k \in Bytes, NEW b \in Bytes, NEW a \in Bytes, NEW c \in Bytes, NEW d \in Bytes,
         be32(Len(c)) # SubSeq(Domain, 1, 4)
  PROVE  V2(k, b, a) # V1(c, d)
<1> DEFINE h == SubSeq(Domain, 1, 4)
           r == SubSeq(Domain, 5, Len(Domain))
           w == Cat(be64(Len(k)), Cat(k, V1(b, a)))
           u == Cat(c, Field(d, <<>>))
<1>1. w \in Bytes /\ V2(k, b, a) = Cat(Domain, w)
  BY V2Fields
<1>2. u \in Bytes /\ V1(c, d) = Cat(be32(Len(c)), u)
  BY V1Fields, Concat DEF Field
<1>3. h \in Bytes /\ r \in Bytes /\ Len(h) = 4 /\ Domain = Cat(h, r)
  BY DomainSplits
<1>4. be32(Len(c)) \in Bytes /\ Len(be32(Len(c))) = 4 /\ be32(Len(c)) # h
  BY Lengths
<1> HIDE DEF h, r, w, u
<1>5. Cat(Domain, w) = Cat(h, Cat(r, w)) /\ Cat(r, w) \in Bytes
  BY <1>1, <1>3, Assoc, Concat
<1>6. QED
  BY <1>1, <1>2, <1>3, <1>4, <1>5, SplitsOnce

------------------------------------------------------------------------------
(* The builders.                                                            *)

\* A buffer of n bytes of which p is written.
Filled(p, n) == p \o Malloc(n - Len(p))

Cells == Seq(Int)

LEMMA BytesAreCells == \A s \in Bytes : s \in Cells /\ Len(s) \in Nat
<1>1. Byte \subseteq Int
  BY RadixAssumption DEF Byte
<1>2. QED
  BY <1>1, SeqMonotonic, LenProperties DEF Bytes, Cells

LEMMA MallocProperties ==
  ASSUME NEW n \in Nat
  PROVE  /\ Malloc(n) \in Cells /\ Len(Malloc(n)) = n
         /\ \A i \in 1 .. n : Malloc(n)[i] = Unwritten
<1>1. Malloc(n) \in [1 .. n -> Int]
  BY DEF Malloc, Unwritten
<1>2. Malloc(n) \in Seq(Int)
  BY <1>1, SeqDef
<1>3. QED
  BY <1>1, <1>2 DEF Cells, Malloc

\* The start of a buffer is what is written of it.
LEMMA PutKeepsStart ==
  ASSUME NEW p \in Cells, NEW g \in Cells
  PROVE  SubSeq(p \o g, 1, Len(p)) = p
<1> DEFINE buf == p \o g
           h == SubSeq(buf, 1, Len(p))
<1>1. Len(p) \in Nat /\ Len(g) \in Nat
  BY LenProperties DEF Cells
<1>2. \A i \in 1 .. Len(p) : p[i] \in Int
  BY ElementOfSeq DEF Cells
<1>3. \A i \in 1 .. Len(p) : buf[i] = p[i]
  BY <1>1, ConcatProperties DEF Cells
<1> HIDE DEF buf
<1>4. \A i \in 1 .. Len(p) : buf[i] \in Int
  BY <1>2, <1>3
<1>5. /\ h \in Seq(Int)
      /\ Len(h) = IF 1 <= Len(p) THEN Len(p) - 1 + 1 ELSE 0
      /\ \A i \in 1 .. Len(p) - 1 + 1 : h[i] = buf[1 + i - 1]
  BY <1>1, <1>4, SubSeqProperties
<1> HIDE DEF h
<1>6. Len(h) = Len(p) /\ \A i \in 1 .. Len(h) : h[i] = p[i]
  BY <1>1, <1>3, <1>5
<1>7. h = p
  BY <1>5, <1>6, SeqEqual DEF Cells
<1>8. QED
  BY <1>7 DEF h, buf

\* What a copy of k bytes leaves behind itself is still unwritten.
LEMMA PutKeepsEnd ==
  ASSUME NEW p \in Cells, NEW n \in Nat, NEW k \in Nat, k <= n
  PROVE  SubSeq(p \o Malloc(n), Len(p) + k + 1, Len(p \o Malloc(n))) = Malloc(n - k)
<1> DEFINE g == Malloc(n)
           buf == p \o g
           m == Len(p) + k + 1
           r == SubSeq(buf, m, Len(buf))
<1>1. /\ g \in Cells /\ Len(g) = n /\ Len(p) \in Nat
      /\ \A i \in 1 .. n : g[i] = Unwritten
  BY MallocProperties, LenProperties DEF Cells
<1>2. n - k \in Nat /\ Unwritten \in Int
  BY DEF Unwritten
<1>3. /\ Len(buf) = Len(p) + n
      /\ \A i \in 1 .. Len(p) + n : buf[i] = IF i <= Len(p) THEN p[i] ELSE g[i - Len(p)]
  BY <1>1, ConcatProperties DEF Cells
<1> HIDE DEF g, buf
<1>4. \A i \in m .. Len(buf) : buf[i] = Unwritten
  <2> SUFFICES ASSUME NEW i \in m .. Len(buf) PROVE buf[i] = Unwritten
    OBVIOUS
  <2>1. /\ i \in 1 .. Len(p) + n /\ ~(i <= Len(p)) /\ i - Len(p) \in 1 .. n
    BY <1>1, <1>3
  <2>2. buf[i] = g[i - Len(p)]
    BY <1>3, <2>1
  <2>3. QED
    BY <1>1, <2>1, <2>2
<1>5. m \in Int /\ Len(buf) \in Int
  BY <1>1, <1>3
<1> HIDE DEF m
<1>6. /\ r \in Seq(Int)
      /\ Len(r) = IF m <= Len(buf) THEN Len(buf) - m + 1 ELSE 0
      /\ \A i \in 1 .. Len(buf) - m + 1 : r[i] = buf[m + i - 1]
  BY <1>2, <1>4, <1>5, SubSeqProperties
<1> HIDE DEF r
<1>7. Len(r) = n - k
  BY <1>1, <1>3, <1>6 DEF m
<1>8. \A i \in 1 .. n - k : r[i] = Unwritten
  <2> SUFFICES ASSUME NEW i \in 1 .. n - k PROVE r[i] = Unwritten
    OBVIOUS
  <2>1. i \in 1 .. Len(buf) - m + 1 /\ m + i - 1 \in m .. Len(buf)
    BY <1>1, <1>3 DEF m
  <2>2. QED
    BY <1>4, <1>6, <2>1
<1>9. /\ Malloc(n - k) \in Seq(Int) /\ Len(Malloc(n - k)) = n - k
      /\ \A i \in 1 .. n - k : Malloc(n - k)[i] = Unwritten
  BY <1>2, MallocProperties DEF Cells
<1>10. r = Malloc(n - k)
  BY <1>6, <1>7, <1>8, <1>9, SeqEqual
<1>11. QED
  BY <1>10 DEF r, m, buf, g

\* A copy right behind what is written extends it.
LEMMA PutNext ==
  ASSUME NEW p \in Bytes, NEW t \in Bytes, NEW n \in Nat, Len(p) + Len(t) <= n
  PROVE  /\ Put(Filled(p, n), Len(p), t) = Filled(Cat(p, t), n)
         /\ Cat(p, t) \in Bytes /\ Len(Cat(p, t)) = Len(p) + Len(t)
<1> DEFINE k == n - Len(p)
<1>1. /\ p \in Cells /\ t \in Cells /\ Len(p) \in Nat /\ Len(t) \in Nat
      /\ k \in Nat /\ Len(t) <= k
  BY BytesAreCells
<1>2. Malloc(k) \in Cells
  BY <1>1, MallocProperties
<1>3. Filled(p, n) = p \o Malloc(k)
  BY DEF Filled
<1> HIDE DEF k
<1>4. SubSeq(p \o Malloc(k), 1, Len(p)) = p
  BY <1>1, <1>2, PutKeepsStart
<1>5. SubSeq(p \o Malloc(k), Len(p) + Len(t) + 1, Len(p \o Malloc(k))) = Malloc(k - Len(t))
  BY <1>1, PutKeepsEnd
<1>6. Put(Filled(p, n), Len(p), t) = (p \o t) \o Malloc(k - Len(t))
  BY <1>3, <1>4, <1>5 DEF Put
<1>7. Cat(p, t) \in Bytes /\ Len(Cat(p, t)) = Len(p) + Len(t)
  BY Concat
<1>8. k - Len(t) = n - Len(Cat(p, t))
  BY <1>1, <1>7 DEF k
<1>9. QED
  BY <1>6, <1>7, <1>8 DEF Filled, Cat

LEMMA FilledFirst ==
  ASSUME NEW n \in Nat
  PROVE  Malloc(n) = Filled(<<>>, n)
<1>1. n - Len(<<>>) = n
  OBVIOUS
<1>2. Malloc(n) \in Cells
  BY MallocProperties
<1>3. <<>> \o Malloc(n) = Malloc(n)
  BY <1>2, ConcatEmptySeq DEF Cells
<1>4. QED
  BY <1>1, <1>3 DEF Filled

LEMMA FilledLast ==
  ASSUME NEW p \in Bytes
  PROVE  Filled(p, Len(p)) = p
<1>1. Len(p) - Len(p) = 0 /\ p \in Cells
  BY BytesAreCells
<1>2. Malloc(0) = <<>>
  BY DEF Malloc
<1>3. QED
  BY <1>1, <1>2, ConcatEmptySeq DEF Filled, Cells

LEMMA PutFirst ==
  ASSUME NEW t \in Bytes, NEW n \in Nat, Len(t) <= n
  PROVE  Put(Malloc(n), 0, t) = Filled(t, n)
<1>1. <<>> \in Bytes /\ Len(<<>>) = 0 /\ 0 + Len(t) <= n
  BY EmptyRest, BytesAreCells
<1>2. Put(Filled(<<>>, n), 0, t) = Filled(Cat(<<>>, t), n)
  BY <1>1, PutNext
<1>3. Cat(<<>>, t) = t
  BY ConcatEmptySeq DEF Bytes, Cat
<1>4. QED
  BY <1>2, <1>3, FilledFirst

\* V1 in C, write by write (c/qorechain_pqc.c:150-159).
LEMMA CMakesV1 ==
  ASSUME NEW b \in Bytes, NEW a \in Bytes
  PROVE  CV1(b, a) = V1(b, a)
<1> DEFINE lb == be32(Len(b))
           la == be32(Len(a))
           n  == 8 + Len(b) + Len(a)
           o1 == 4 + Len(b)
           o2 == 8 + Len(b)
           p2 == Cat(lb, b)
           p3 == Cat(p2, la)
           p4 == Cat(p3, a)
<1>1. /\ lb \in Bytes /\ Len(lb) = 4 /\ la \in Bytes /\ Len(la) = 4
      /\ Len(b) \in Nat /\ Len(a) \in Nat
  BY Lengths
<1>2. CV1(b, a) = Put(Put(Put(Put(Malloc(n), 0, lb), 4, b), o1, la), o2, a)
  BY DEF CV1
<1>3. V1(b, a) = p4
  BY DEF V1, Cat
<1>4. /\ n \in Nat /\ o1 \in Nat /\ o2 \in Nat
      /\ 4 <= n /\ o1 = 4 + Len(b) /\ o1 <= n
      /\ o2 = o1 + 4 /\ o2 <= n /\ n = o2 + Len(a)
  BY <1>1
<1> HIDE DEF lb, la, n, o1, o2
<1>5. Put(Malloc(n), 0, lb) = Filled(lb, n)
  BY <1>1, <1>4, PutFirst
<1>6. Put(Filled(lb, n), 4, b) = Filled(p2, n) /\ p2 \in Bytes /\ Len(p2) = o1
  <2>1. /\ lb \in Bytes /\ b \in Bytes /\ n \in Nat
        /\ Len(lb) = 4 /\ Len(lb) + Len(b) = o1 /\ o1 <= n
    BY <1>1, <1>4
  <2>2. /\ Put(Filled(lb, n), Len(lb), b) = Filled(Cat(lb, b), n)
        /\ Cat(lb, b) \in Bytes /\ Len(Cat(lb, b)) = Len(lb) + Len(b)
    BY <2>1, PutNext
  <2>3. QED
    BY <2>1, <2>2
<1> HIDE DEF p2
<1>7. Put(Filled(p2, n), o1, la) = Filled(p3, n) /\ p3 \in Bytes /\ Len(p3) = o2
  <2>1. /\ p2 \in Bytes /\ la \in Bytes /\ n \in Nat
        /\ Len(p2) = o1 /\ Len(p2) + Len(la) = o2 /\ o2 <= n
    BY <1>1, <1>4, <1>6
  <2>2. QED
    BY <2>1, PutNext
<1> HIDE DEF p3
<1>8. Put(Filled(p3, n), o2, a) = Filled(p4, n) /\ p4 \in Bytes /\ Len(p4) = n
  <2>1. /\ p3 \in Bytes /\ a \in Bytes /\ n \in Nat
        /\ Len(p3) = o2 /\ Len(p3) + Len(a) = n /\ n <= n
    BY <1>1, <1>4, <1>7
  <2>2. QED
    BY <2>1, PutNext
<1> HIDE DEF p4
<1>9. Filled(p4, n) = p4
  BY <1>8, FilledLast
<1>10. QED
  BY <1>2, <1>3, <1>5, <1>6, <1>7, <1>8, <1>9

\* The end of v2 written out is v1 behind what is in front.
LEMMA TailIsV1 ==
  ASSUME NEW f \in Bytes, NEW b \in Bytes, NEW a \in Bytes
  PROVE  Cat(Cat(Cat(Cat(f, be32(Len(b))), b), be32(Len(a))), a) = Cat(f, V1(b, a))
<1> DEFINE lb == be32(Len(b))
           la == be32(Len(a))
<1>1. lb \in Bytes /\ la \in Bytes
  BY Lengths
<1>2. V1(b, a) = Cat(Cat(Cat(lb, b), la), a)
  BY DEF V1, Cat
<1> HIDE DEF lb, la
<1>3. /\ Cat(lb, b) \in Bytes /\ Cat(Cat(lb, b), la) \in Bytes
      /\ Cat(f, lb) \in Bytes
  BY <1>1, Concat
<1>4. Cat(f, Cat(Cat(Cat(lb, b), la), a)) = Cat(Cat(f, Cat(Cat(lb, b), la)), a)
  BY <1>1, <1>3, Assoc
<1>5. Cat(f, Cat(Cat(lb, b), la)) = Cat(Cat(f, Cat(lb, b)), la)
  BY <1>1, <1>3, Assoc
<1>6. Cat(f, Cat(lb, b)) = Cat(Cat(f, lb), b)
  BY <1>1, Assoc
<1>7. QED
  BY <1>2, <1>4, <1>5, <1>6 DEF lb, la

\* What comes in front of V1 in v2.
Front(k) == Cat(Cat(Domain, be64(Len(k))), k)

LEMMA FrontType ==
  ASSUME NEW k \in Bytes
  PROVE  /\ Domain \in Bytes /\ be64(Len(k)) \in Bytes /\ Len(be64(Len(k))) = 8
         /\ Cat(Domain, be64(Len(k))) \in Bytes
         /\ Front(k) \in Bytes /\ Len(Front(k)) = Len(Domain) + 8 + Len(k)
         /\ Len(Domain) \in Nat /\ Len(k) \in Nat
<1> DEFINE lk == be64(Len(k))
<1>1. Domain \in Bytes /\ Len(Domain) \in Nat /\ Len(k) \in Nat
  BY DomainAssumption, BytesAreCells DEF Bytes
<1>2. lk \in Bytes /\ Len(lk) = 8
  BY <1>1, Be64Type
<1>3. Front(k) = Cat(Cat(Domain, lk), k)
  BY DEF Front
<1> HIDE DEF lk
<1>4. Cat(Domain, lk) \in Bytes /\ Len(Cat(Domain, lk)) = Len(Domain) + Len(lk)
  BY <1>1, <1>2, Concat
<1>5. Front(k) \in Bytes /\ Len(Front(k)) = Len(Cat(Domain, lk)) + Len(k)
  BY <1>3, <1>4, Concat
<1>6. Len(Front(k)) = Len(Domain) + 8 + Len(k)
  BY <1>1, <1>2, <1>4, <1>5
<1>7. QED
  BY <1>1, <1>2, <1>4, <1>5, <1>6 DEF lk

LEMMA V2Front ==
  ASSUME NEW k \in Bytes, NEW b \in Bytes, NEW a \in Bytes
  PROVE  V2(k, b, a) = Cat(Cat(Cat(Cat(Front(k), be32(Len(b))), b), be32(Len(a))), a)
<1>1. V2(k, b, a) = Cat(Front(k), V1(b, a))
  BY DEF V2, Front, Cat
<1>2. QED
  BY <1>1, FrontType, TailIsV1

\* V2 in C, write by write (c/qorechain_pqc.c:161-181).
LEMMA CMakesV2 ==
  ASSUME NEW k \in Bytes, NEW b \in Bytes, NEW a \in Bytes
  PROVE  CV2(k, b, a) = V2(k, b, a)
<1> DEFINE lk == be64(Len(k))
           lb == be32(Len(b))
           la == be32(Len(a))
           dl == Len(Domain)
           n  == dl + 8 + Len(k) + 8 + Len(b) + Len(a)
           o1 == dl + 8
           o2 == o1 + Len(k)
           o3 == o2 + 4
           o4 == o3 + Len(b)
           o5 == o4 + 4
           p2 == Cat(Domain, lk)
           p3 == Cat(p2, k)
           p4 == Cat(p3, lb)
           p5 == Cat(p4, b)
           p6 == Cat(p5, la)
           p7 == Cat(p6, a)
<1>1. /\ lb \in Bytes /\ Len(lb) = 4 /\ la \in Bytes /\ Len(la) = 4
      /\ Len(b) \in Nat /\ Len(a) \in Nat
  BY Lengths
<1>2. /\ Domain \in Bytes /\ dl \in Nat /\ dl = Len(Domain)
      /\ lk \in Bytes /\ Len(lk) = 8 /\ Len(k) \in Nat
  BY FrontType
<1>3. CV2(k, b, a) =
        Put(Put(Put(Put(Put(Put(Put(Malloc(n), 0, Domain), dl, lk), o1, k), o2, lb),
                    o3, b), o4, la), o5, a)
  BY DEF CV2
<1>4. V2(k, b, a) = p7
  BY V2Front DEF Front
<1>5. /\ n \in Nat /\ o1 \in Nat /\ o2 \in Nat /\ o3 \in Nat /\ o4 \in Nat /\ o5 \in Nat
      /\ o1 = dl + 8 /\ o2 = o1 + Len(k) /\ o3 = o2 + 4 /\ o4 = o3 + Len(b)
      /\ o5 = o4 + 4 /\ n = o5 + Len(a)
  BY <1>1, <1>2
<1> HIDE DEF lk, lb, la, dl, n, o1, o2, o3, o4, o5
<1>6. dl <= n /\ o1 <= n /\ o2 <= n /\ o3 <= n /\ o4 <= n /\ o5 <= n
  BY <1>1, <1>2, <1>5
<1>7. Put(Malloc(n), 0, Domain) = Filled(Domain, n)
  BY <1>2, <1>5, <1>6, PutFirst
<1>8. Put(Filled(Domain, n), dl, lk) = Filled(p2, n) /\ p2 \in Bytes /\ Len(p2) = o1
  <2>1. /\ Domain \in Bytes /\ lk \in Bytes /\ n \in Nat
        /\ Len(Domain) = dl /\ Len(Domain) + Len(lk) = o1 /\ o1 <= n
    BY <1>2, <1>5, <1>6
  <2>2. QED
    BY <2>1, PutNext
<1> HIDE DEF p2
<1>9. Put(Filled(p2, n), o1, k) = Filled(p3, n) /\ p3 \in Bytes /\ Len(p3) = o2
  <2>1. /\ p2 \in Bytes /\ k \in Bytes /\ n \in Nat
        /\ Len(p2) = o1 /\ Len(p2) + Len(k) = o2 /\ o2 <= n
    BY <1>2, <1>5, <1>6, <1>8
  <2>2. QED
    BY <2>1, PutNext
<1> HIDE DEF p3
<1>10. Put(Filled(p3, n), o2, lb) = Filled(p4, n) /\ p4 \in Bytes /\ Len(p4) = o3
  <2>1. /\ p3 \in Bytes /\ lb \in Bytes /\ n \in Nat
        /\ Len(p3) = o2 /\ Len(p3) + Len(lb) = o3 /\ o3 <= n
    BY <1>1, <1>5, <1>6, <1>9
  <2>2. QED
    BY <2>1, PutNext
<1> HIDE DEF p4
<1>11. Put(Filled(p4, n), o3, b) = Filled(p5, n) /\ p5 \in Bytes /\ Len(p5) = o4
  <2>1. /\ p4 \in Bytes /\ b \in Bytes /\ n \in Nat
        /\ Len(p4) = o3 /\ Len(p4) + Len(b) = o4 /\ o4 <= n
    BY <1>1, <1>5, <1>6, <1>10
  <2>2. QED
    BY <2>1, PutNext
<1> HIDE DEF p5
<1>12. Put(Filled(p5, n), o4, la) = Filled(p6, n) /\ p6 \in Bytes /\ Len(p6) = o5
  <2>1. /\ p5 \in Bytes /\ la \in Bytes /\ n \in Nat
        /\ Len(p5) = o4 /\ Len(p5) + Len(la) = o5 /\ o5 <= n
    BY <1>1, <1>5, <1>6, <1>11
  <2>2. QED
    BY <2>1, PutNext
<1> HIDE DEF p6
<1>13. Put(Filled(p6, n), o5, a) = Filled(p7, n) /\ p7 \in Bytes /\ Len(p7) = n
  <2>1. /\ p6 \in Bytes /\ a \in Bytes /\ n \in Nat
        /\ Len(p6) = o5 /\ Len(p6) + Len(a) = n /\ n <= n
    BY <1>1, <1>5, <1>12
  <2>2. QED
    BY <2>1, PutNext
<1> HIDE DEF p7
<1>14. Filled(p7, n) = p7
  BY <1>13, FilledLast
<1>15. QED
  BY <1>3, <1>4, <1>7, <1>8, <1>9, <1>10, <1>11, <1>12, <1>13, <1>14

\* Java's capacities are the lengths of what it puts (Pqc.java:407-437).
LEMMA JavaMakesV1 ==
  ASSUME NEW b \in Bytes, NEW a \in Bytes
  PROVE  JavaV1(b, a) = V1(b, a)
<1> DEFINE lb == be32(Len(b))
           la == be32(Len(a))
           w  == V1(b, a)
           o1 == 4 + Len(b)
           o2 == 8 + Len(b)
           n  == JavaCapacityV1(b, a)
<1>1. /\ lb \in Bytes /\ Len(lb) = 4 /\ la \in Bytes /\ Len(la) = 4
      /\ Len(b) \in Nat /\ Len(a) \in Nat
  BY Lengths
<1>2. w = Cat(Cat(Cat(lb, b), la), a) /\ JavaPutsV1(b, a) = w
  BY DEF V1, JavaPutsV1, Cat
<1>3. /\ o1 \in Nat /\ o2 \in Nat /\ n \in Nat
      /\ o1 = 4 + Len(b) /\ o2 = o1 + 4 /\ n = o2 + Len(a)
  BY <1>1 DEF JavaCapacityV1
<1>4. JavaV1(b, a) = w \o [i \in 1 .. n - Len(w) |-> 0]
  BY <1>2 DEF JavaV1, JavaArray
<1> HIDE DEF lb, la, w, o1, o2, n
<1>5. Cat(lb, b) \in Bytes /\ Len(Cat(lb, b)) = o1
  <2>1. Len(lb) + Len(b) = o1
    BY <1>1, <1>3
  <2>2. QED
    BY <1>1, <1>3, <2>1, Concat
<1>6. Cat(Cat(lb, b), la) \in Bytes /\ Len(Cat(Cat(lb, b), la)) = o2
  <2>1. Len(Cat(lb, b)) + Len(la) = o2
    BY <1>1, <1>3, <1>5
  <2>2. QED
    BY <1>1, <1>3, <1>5, <2>1, Concat
<1>7. w \in Bytes /\ Len(w) = n
  <2>1. Len(Cat(Cat(lb, b), la)) + Len(a) = n
    BY <1>1, <1>3, <1>6
  <2>2. QED
    BY <1>2, <1>6, <2>1, Concat
<1>8. [i \in 1 .. n - Len(w) |-> 0] = <<>>
  BY <1>3, <1>7
<1>9. QED
  BY <1>4, <1>7, <1>8, ConcatEmptySeq DEF Bytes, w

LEMMA JavaMakesV2 ==
  ASSUME NEW k \in Bytes, NEW b \in Bytes, NEW a \in Bytes
  PROVE  JavaV2(k, b, a) = V2(k, b, a)
<1> DEFINE lb == be32(Len(b))
           la == be32(Len(a))
           f  == Front(k)
           w  == V2(k, b, a)
           o2 == Len(Domain) + 8 + Len(k)
           o3 == o2 + 4
           o4 == o3 + Len(b)
           o5 == o4 + 4
           n  == JavaCapacityV2(k, b, a)
<1>1. /\ lb \in Bytes /\ Len(lb) = 4 /\ la \in Bytes /\ Len(la) = 4
      /\ Len(b) \in Nat /\ Len(a) \in Nat
  BY Lengths
<1>2. /\ f \in Bytes /\ Len(f) = o2
      /\ Len(Domain) \in Nat /\ Len(k) \in Nat
  BY FrontType
<1>3. w = Cat(Cat(Cat(Cat(f, lb), b), la), a)
  BY V2Front
<1>4. JavaPutsV2(k, b, a) = Cat(Cat(Cat(Cat(f, lb), b), la), a)
  BY DEF JavaPutsV2, Front, Cat
<1>5. /\ o2 \in Nat /\ o3 \in Nat /\ o4 \in Nat /\ o5 \in Nat /\ n \in Nat
      /\ o3 = o2 + 4 /\ o4 = o3 + Len(b) /\ o5 = o4 + 4 /\ n = o5 + Len(a)
  BY <1>1, <1>2 DEF JavaCapacityV2
<1>6. JavaV2(k, b, a) = w \o [i \in 1 .. n - Len(w) |-> 0]
  BY <1>3, <1>4 DEF JavaV2, JavaArray
<1> HIDE DEF lb, la, f, w, o2, o3, o4, o5, n
<1>7. Cat(f, lb) \in Bytes /\ Len(Cat(f, lb)) = o3
  <2>1. Len(f) + Len(lb) = o3
    BY <1>1, <1>2, <1>5
  <2>2. QED
    BY <1>1, <1>2, <1>5, <2>1, Concat
<1>8. Cat(Cat(f, lb), b) \in Bytes /\ Len(Cat(Cat(f, lb), b)) = o4
  <2>1. Len(Cat(f, lb)) + Len(b) = o4
    BY <1>1, <1>5, <1>7
  <2>2. QED
    BY <1>1, <1>5, <1>7, <2>1, Concat
<1>9. Cat(Cat(Cat(f, lb), b), la) \in Bytes /\ Len(Cat(Cat(Cat(f, lb), b), la)) = o5
  <2>1. Len(Cat(Cat(f, lb), b)) + Len(la) = o5
    BY <1>1, <1>5, <1>8
  <2>2. QED
    BY <1>1, <1>5, <1>8, <2>1, Concat
<1>10. w \in Bytes /\ Len(w) = n
  <2>1. Len(Cat(Cat(Cat(f, lb), b), la)) + Len(a) = n
    BY <1>1, <1>5, <1>9
  <2>2. QED
    BY <1>3, <1>9, <2>1, Concat
<1>11. [i \in 1 .. n - Len(w) |-> 0] = <<>>
  BY <1>5, <1>10
<1>12. QED
  BY <1>6, <1>10, <1>11, ConcatEmptySeq DEF Bytes, w

\* Every entry point that answers makes the layout of the version it is asked for.
LEMMA BuildersMakeTheLayout ==
  ASSUME NEW x \in Inputs, NEW e \in Entries
  PROVE  Build(e, x) = Layout(x)
<1>1. x.chain \in Bytes /\ x.body \in Bytes /\ x.auth \in Bytes
  BY InputsAssumption DEF Inputs, Bytes
<1>2. BuildV1(e, x.body, x.auth) = V1(x.body, x.auth)
  <2> DEFINE b == x.body
             a == x.auth
  <2>1. /\ GoV1(b, a) = V1(b, a) /\ JsV1(b, a) = V1(b, a)
        /\ RustV1(b, a) = V1(b, a) /\ PythonV1(b, a) = V1(b, a)
    BY DEF V1, GoV1, JsV1, RustV1, PythonV1
  <2>2. CV1(b, a) = V1(b, a) /\ JavaV1(b, a) = V1(b, a)
    BY <1>1, CMakesV1, JavaMakesV1
  <2> HIDE DEF b, a
  <2>3. BuildV1(e, b, a) = V1(b, a)
    BY <2>1, <2>2 DEF BuildV1, Entries, Checked
  <2>4. QED
    BY <2>3 DEF b, a
<1>3. BuildV2(e, x.chain, x.body, x.auth) = V2(x.chain, x.body, x.auth)
  <2> DEFINE k == x.chain
             b == x.body
             a == x.auth
  <2>1. RustV2(k, b, a) = V2(k, b, a) /\ PythonV2(k, b, a) = V2(k, b, a)
    BY DEF V1, V2, RustV1, RustV2, PythonV1, PythonV2
  <2>2. GoV2(k, b, a) = V2(k, b, a) /\ JsV2(k, b, a) = V2(k, b, a)
    BY <1>1, V2Front DEF GoV2, JsV2, Front, Cat
  <2>3. CV2(k, b, a) = V2(k, b, a) /\ JavaV2(k, b, a) = V2(k, b, a)
    BY <1>1, CMakesV2, JavaMakesV2
  <2> HIDE DEF k, b, a
  <2>4. BuildV2(e, k, b, a) = V2(k, b, a)
    BY <2>1, <2>2, <2>3 DEF BuildV2, Entries, Checked
  <2>5. QED
    BY <2>4 DEF k, b, a
<1>4. QED
  BY <1>2, <1>3 DEF Build, Layout

------------------------------------------------------------------------------
\* The inputs are of their types, and stay what they are.
InputsInv == signed \in Inputs /\ verified \in Inputs

LEMMA InputsInvariance == Spec => []InputsInv
<1>1. Init => InputsInv
  BY DEF Init, InputsInv
<1>2. InputsInv /\ [Next]_vars => InputsInv'
  BY DEF InputsInv, Next, vars
<1>3. QED
  BY <1>1, <1>2, PTL DEF Spec

\* What the three theorems share: the same bytes, the same transaction.
LEMMA LayoutInjective ==
  ASSUME NEW x \in Inputs, NEW y \in Inputs, WithinLimits(x), WithinLimits(y),
         x.version # "other", y.version # "other", Layout(x) = Layout(y)
  PROVE  SameTransaction(x, y)
<1>1. /\ x.version \in {"v1", "v2"} /\ y.version \in {"v1", "v2"}
      /\ x.chain \in Bytes /\ x.body \in Bytes /\ x.auth \in Bytes
      /\ y.chain \in Bytes /\ y.body \in Bytes /\ y.auth \in Bytes
  BY InputsAssumption DEF Inputs, Bytes
<1>2. CASE x.version = "v1" /\ y.version = "v1"
  <2>1. x.body = y.body /\ x.auth = y.auth
    BY <1>1, <1>2, V1Injective DEF WithinLimits, Layout
  <2>2. QED
    BY <1>2, <2>1 DEF SameTransaction
<1>3. CASE x.version = "v2" /\ y.version = "v2"
  <2>1. x.chain = y.chain /\ x.body = y.body /\ x.auth = y.auth
    BY <1>1, <1>3, V2Injective DEF WithinLimits, Layout
  <2>2. QED
    BY <1>3, <2>1 DEF SameTransaction
<1>4. CASE x.version = "v1" /\ y.version = "v2"
  BY <1>1, <1>4, V1NotV2 DEF WithinLimits, Layout
<1>5. CASE x.version = "v2" /\ y.version = "v1"
  BY <1>1, <1>5, V1NotV2 DEF WithinLimits, Layout
<1>6. QED
  BY <1>1, <1>2, <1>3, <1>4, <1>5

\* The bytes two sides agree on determine the transaction, its form and, in v2,
\* its network, whichever binding each side uses (c/qorechain_pqc.c:150-181).
THEOREM BytesDetermineTransaction == Spec => []SameBytesSameTransaction
<1>1. InputsInv => SameBytesSameTransaction
  <2> SUFFICES ASSUME InputsInv, WithinLimits(signed), WithinLimits(verified),
                      NEW e \in Entries, ~Refuses(e, signed),
                      NEW f \in Entries, ~Refuses(f, verified),
                      Build(e, signed) = Build(f, verified)
               PROVE  SameTransaction(signed, verified)
    BY DEF SameBytesSameTransaction, Outputs
  <2>1. Layout(signed) = Layout(verified)
    BY BuildersMakeTheLayout DEF InputsInv
  <2>2. QED
    BY <2>1, LayoutInjective DEF InputsInv, Refuses
<1>2. QED
  BY <1>1, InputsInvariance, PTL

\* Entry points that answer agree on the bytes: C's seven copies at computed offsets
\* fill the buffer it has sized, Java's capacity is what it puts, and the end of v2
\* that Go, JS, C and Java write out is the v1 Rust and Python call.
THEOREM BindingsEncodeAlike == Spec => []OneEncoding
<1>1. InputsInv => OneEncoding
  BY BuildersMakeTheLayout DEF InputsInv, OneEncoding, Outputs
<1>2. QED
  BY <1>1, InputsInvariance, PTL

\* The bytes of an input that a checked entry point refuses for its chain-id or its
\* version are bytes no checked entry point makes of anything (go/pqc.go:284-311).
THEOREM RefusalsAgree == Spec => []RefusedVerifiesNowhere
<1>1. InputsInv => RefusedVerifiesNowhere
  <2> SUFFICES ASSUME InputsInv, WithinLimits(signed), WithinLimits(verified),
                      NEW e \in Checked, Refuses(e, signed), LengthsAccepted(e, signed),
                      NEW f \in Entries, ~Refuses(f, signed),
                      NEW g \in Checked, ~Refuses(g, verified),
                      Build(f, signed) = Build(g, verified)
               PROVE  FALSE
    BY DEF RefusedVerifiesNowhere, Outputs
  <2>1. signed.version = "v2" /\ signed.chain = <<>>
    BY DEF Refuses
  <2>2. SameTransaction(signed, verified)
    <3>1. Layout(signed) = Layout(verified)
      BY BuildersMakeTheLayout DEF InputsInv, Entries
    <3>2. QED
      BY <3>1, LayoutInjective DEF InputsInv, Refuses
  <2>3. QED
    BY <2>1, <2>2 DEF SameTransaction, Refuses
<1>2. QED
  BY <1>1, InputsInvariance, PTL
==============================================================================
