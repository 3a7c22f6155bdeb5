------------------------------- MODULE SignBytes -------------------------------
(***************************************************************************)
(* The hybrid sign-bytes as the six bindings build them: the byte string a  *)
(* post-quantum signature of a transaction covers.  A byte is a digit below *)
(* Radix, which is 256 in the code; lengths are written in four of them, or *)
(* eight for the chain-id, and what does not fit is cut off or refused.     *)
(* Each binding has its own two builders, translated one by one: C writes   *)
(* at offsets into a buffer it has sized before, Java fills a buffer of a   *)
(* capacity computed apart, the others append.                              *)
(*                                                                         *)
(* A signature verifies over the bytes it was made over and no others, so   *)
(* what a network accepts is a matter of which inputs have the same bytes:  *)
(* the input a client signed, and the input a network rebuilds.             *)
(***************************************************************************)
EXTENDS Integers, Sequences

CONSTANTS Radix,   \* the number of values of a byte
          Domain,  \* HYBRID_SIGN_BYTES_DOMAIN, the tag in front of v2
          Chains,  \* chain-ids in UTF-8; <<>> also stands for NULL, None and null
          Bodies,  \* transaction bodies without the PQC extension
          Auths    \* AuthInfo bytes

Byte == 0 .. Radix - 1

ASSUME RadixAssumption  == Radix \in Nat /\ Radix > 1
ASSUME DomainAssumption == Domain \in Seq(Byte) /\ Len(Domain) > 4
ASSUME InputsAssumption == /\ Chains \subseteq Seq(Byte)
                           /\ Bodies \subseteq Seq(Byte)
                           /\ Auths \subseteq Seq(Byte)

\* Each binding's dispatcher with the builders behind it ("rust" is the try_ one),
\* and the builders of Go and Rust that do not check their input.
Checked == {"c", "go", "rust", "js", "python", "java"}
Entries == Checked \cup {"go unchecked", "rust unchecked"}

------------------------------------------------------------------------------
(* The length fields.                                                       *)

Shr8(n)  == n \div Radix
Shr16(n) == Shr8(Shr8(n))
Shr24(n) == Shr8(Shr16(n))
Shr32(n) == Shr8(Shr24(n))

\* Mutant: the length is cast to one byte.
be8(n) == <<0, 0, 0, n % Radix>>

\* Big-endian, the low four and eight bytes of n.
be32(n) == <<Shr24(n) % Radix, Shr16(n) % Radix, Shr8(n) % Radix, n % Radix>>
be64(n) == be32(Shr32(n)) \o be32(n)

Fits32(n) == Shr32(n) = 0
Fits64(n) == Fits32(Shr32(n))

------------------------------------------------------------------------------
(* The builders.                                                            *)

\* C: a buffer of n bytes nobody has written, and one with s copied to an offset;
\* a copy past the end shows as a longer buffer.
Unwritten == -1
Malloc(n) == [i \in 1 .. n |-> Unwritten]
Put(buf, at, s) == SubSeq(buf, 1, at) \o s \o SubSeq(buf, at + Len(s) + 1, Len(buf))

CV1(body, auth) ==
  LET total == 8 + Len(body) + Len(auth)
      buf1  == Put(Malloc(total), 0, be32(Len(body)))
      buf2  == Put(buf1, 4, body)
      buf3  == Put(buf2, 4 + Len(body), be32(Len(auth)))
  IN  Put(buf3, 8 + Len(body), auth)

\* Mutant: the offset is not moved over the length of the body.
CV2OffsetLost(chain, body, auth) ==
  LET o     == Len(Domain) + 8 + Len(chain)
      total == o + 8 + Len(body) + Len(auth)
      buf1  == Put(Malloc(total), 0, Domain)
      buf2  == Put(buf1, Len(Domain), be64(Len(chain)))
      buf3  == Put(buf2, Len(Domain) + 8, chain)
      buf4  == Put(buf3, o, be32(Len(body)))
      buf5  == Put(buf4, o, body)
      buf6  == Put(buf5, o + Len(body), be32(Len(auth)))
  IN  Put(buf6, o + 4 + Len(body), auth)

CV2(chain, body, auth) ==
  LET dl    == Len(Domain)
      total == dl + 8 + Len(chain) + 8 + Len(body) + Len(auth)
      o1    == dl + 8
      o2    == o1 + Len(chain)
      o3    == o2 + 4
      o4    == o3 + Len(body)
      o5    == o4 + 4
      buf1  == Put(Malloc(total), 0, Domain)
      buf2  == Put(buf1, dl, be64(Len(chain)))
      buf3  == Put(buf2, o1, chain)
      buf4  == Put(buf3, o2, be32(Len(body)))
      buf5  == Put(buf4, o3, body)
      buf6  == Put(buf5, o4, be32(Len(auth)))
  IN  Put(buf6, o5, auth)

\* Java: what is put into a ByteBuffer, its capacity, and the array behind it.
JavaPutsV1(body, auth) == be32(Len(body)) \o body \o be32(Len(auth)) \o auth
JavaPutsV2(chain, body, auth) ==
  Domain \o be64(Len(chain)) \o chain \o be32(Len(body)) \o body \o be32(Len(auth)) \o auth
JavaCapacityV1(body, auth) == 8 + Len(body) + Len(auth)
JavaCapacityV2(chain, body, auth) ==
  Len(Domain) + 8 + Len(chain) + 8 + Len(body) + Len(auth)
JavaArray(capacity, puts) == puts \o [i \in 1 .. capacity - Len(puts) |-> 0]

JavaV1(body, auth) == JavaArray(JavaCapacityV1(body, auth), JavaPutsV1(body, auth))
JavaV2(chain, body, auth) ==
  JavaArray(JavaCapacityV2(chain, body, auth), JavaPutsV2(chain, body, auth))

\* Go and JS write the end of v2 out again; Rust and Python call their v1.
GoV1(body, auth) == be32(Len(body)) \o body \o be32(Len(auth)) \o auth
GoV2(chain, body, auth) ==
  Domain \o be64(Len(chain)) \o chain \o be32(Len(body)) \o body \o be32(Len(auth)) \o auth

JsV1(body, auth) == be32(Len(body)) \o body \o be32(Len(auth)) \o auth
JsV2(chain, body, auth) ==
  Domain \o be64(Len(chain)) \o chain \o be32(Len(body)) \o body \o be32(Len(auth)) \o auth

RustV1(body, auth) == be32(Len(body)) \o body \o be32(Len(auth)) \o auth
RustV2(chain, body, auth) == Domain \o be64(Len(chain)) \o chain \o RustV1(body, auth)

PythonV1(body, auth) == be32(Len(body)) \o body \o be32(Len(auth)) \o auth
PythonV2(chain, body, auth) == Domain \o be64(Len(chain)) \o chain \o PythonV1(body, auth)

------------------------------------------------------------------------------
(* The entry points.                                                        *)

\* What an entry point is called with; Rust's type has no third version.
Inputs == [version : {"v1", "v2", "other"}, chain : Chains, body : Bodies, auth : Auths]

\* A capacity is an int, and a put past it throws: a sum of 2^31 or more is
\* negative, or wraps to less than is put.
JavaHolds(capacity, puts) == /\ Shr24(capacity) < Radix \div 2
                             /\ Len(puts) <= capacity

\* struct.pack raises on a length beyond 32 bits; the others but Java cast it.
LengthsAccepted(e, x) ==
  CASE e = "python" -> Fits32(Len(x.body)) /\ Fits32(Len(x.auth))
    [] e = "java" /\ x.version = "v1" ->
         JavaHolds(JavaCapacityV1(x.body, x.auth), JavaPutsV1(x.body, x.auth))
    [] e = "java" /\ x.version = "v2" ->
         JavaHolds(JavaCapacityV2(x.chain, x.body, x.auth),
                   JavaPutsV2(x.chain, x.body, x.auth))
    [] OTHER -> TRUE

\* Mutant: JS forgets the check.
RefusesButInJs(e, x) ==
  \/ x.version = "other"
  \/ x.version = "v2" /\ x.chain = <<>> /\ e \in Checked \ {"js"}
  \/ ~LengthsAccepted(e, x)

Refuses(e, x) ==
  \/ x.version = "other"
  \/ x.version = "v2" /\ x.chain = <<>> /\ e \in Checked
  \/ ~LengthsAccepted(e, x)

\* What an entry point that does not refuse returns: its binding's builder of the
\* version, called by the dispatcher.
BuildV1(e, body, auth) ==
  CASE e = "c"      -> CV1(body, auth)
    [] e = "js"     -> JsV1(body, auth)
    [] e = "java"   -> JavaV1(body, auth)
    [] e = "python" -> PythonV1(body, auth)
    [] e \in {"go", "go unchecked"}     -> GoV1(body, auth)
    [] e \in {"rust", "rust unchecked"} -> RustV1(body, auth)

BuildV2(e, chain, body, auth) ==
  CASE e = "c"      -> CV2(chain, body, auth)
    [] e = "js"     -> JsV2(chain, body, auth)
    [] e = "java"   -> JavaV2(chain, body, auth)
    [] e = "python" -> PythonV2(chain, body, auth)
    [] e \in {"go", "go unchecked"}     -> GoV2(chain, body, auth)
    [] e \in {"rust", "rust unchecked"} -> RustV2(chain, body, auth)

Build(e, x) == IF x.version = "v1" THEN BuildV1(e, x.body, x.auth)
                                   ELSE BuildV2(e, x.chain, x.body, x.auth)

Outputs(es, x) == {Build(e, x) : e \in {f \in es : ~Refuses(f, x)}}

------------------------------------------------------------------------------
VARIABLES signed,   \* what a client signs
          verified  \* what a network rebuilds

vars == <<signed, verified>>

Init == signed \in Inputs /\ verified \in Inputs
Next == UNCHANGED vars
Spec == Init /\ [][Next]_vars

(* Properties.                                                              *)

\* Lengths that fit their fields, and no v1 body as long as the first four bytes
\* of the domain tag read as a number (0x716f7265 in the code).
WithinLimits(x) ==
  /\ Fits32(Len(x.body)) /\ Fits32(Len(x.auth)) /\ Fits64(Len(x.chain))
  /\ x.version = "v1" => be32(Len(x.body)) # SubSeq(Domain, 1, 4)

\* What a signature is meant to bind: v1 leaves the network open.
SameTransaction(x, y) ==
  /\ x.version = y.version /\ x.body = y.body /\ x.auth = y.auth
  /\ x.version = "v2" => x.chain = y.chain

\* Whichever entry points two sides use, the bytes are the same only for the same
\* transaction, the same form and, in v2, the same network (js/src/index.js:133-135).
SameBytesSameTransaction ==
  /\ WithinLimits(signed) /\ WithinLimits(verified)
  /\ Outputs(Entries, signed) \cap Outputs(Entries, verified) # {}
  => SameTransaction(signed, verified)

\* Entry points that answer at all answer with the same bytes, with nothing
\* unwritten among them and nothing behind them, whether they write at offsets, to
\* a capacity or one after the other, lengths beyond their fields included: cut off
\* by some, refused by others, never different (js/src/index.js:162-177).
OneEncoding == \A a, b \in Outputs(Entries, signed) : a = b

\* What some checked entry point refuses for its chain-id or version, an unchecked
\* one may build, but no network that uses a checked one verifies those bytes
\* (README.md: "bytes bound to an empty chain-id verify on no network").
RefusedVerifiesNowhere ==
  /\ WithinLimits(signed) /\ WithinLimits(verified)
  /\ \E e \in Checked : Refuses(e, signed) /\ LengthsAccepted(e, signed)
  => Outputs(Entries, signed) \cap Outputs(Checked, verified) = {}
==============================================================================
