------------------------------- MODULE QpqcHash -------------------------------
(***************************************************************************)
(* Hashing in the C binding: qpqc_shake256 drives an OpenSSL digest context *)
(* and returns nothing, so that a failure inside OpenSSL, out of memory or  *)
(* with no provider for SHAKE-256 say, is seen by nobody.  A caller hashes  *)
(* public keys one after the other, into a buffer it declares once.         *)
(***************************************************************************)
CONSTANT Keys

None == <<"uninitialised">>
Digest(key) == <<"SHAKE-256", key>>

VARIABLES
  pc,       \* the next call into OpenSSL, "caller" before the first, "done" after the
            \* last, or "crashed"
  key,      \* the public key being hashed
  context,  \* what the context is: "null", "new", "ready", "fed"
  out       \* what is in the caller's buffer

vars == <<pc, key, context, out>>

Init == pc = "caller" /\ key \in Keys /\ context = "null" /\ out = None

\* qpqc_pubkey_hash passes everything on to qpqc_shake256.
PubkeyHash ==
  /\ pc \in {"caller", "done"} /\ pc' = "EVP_MD_CTX_new"
  /\ key' \in Keys
  /\ context' = "null"
  /\ UNCHANGED out

\* EVP_DigestInit_ex on the NULL of a failed EVP_MD_CTX_new ends the process.
Crash ==
  /\ pc = "EVP_DigestInit_ex" /\ context = "null"
  /\ pc' = "crashed"
  /\ UNCHANGED <<key, context, out>>

\* A call into OpenSSL takes the context a step further, or fails, and fails on a
\* context that the call before has not prepared; no result is looked at.
Step(call, from, to, next) ==
  /\ pc = call /\ pc' = next
  /\ pc = "EVP_DigestInit_ex" => context # "null"
  /\ context' \in {context} \cup (IF context = from THEN {to} ELSE {})
  /\ UNCHANGED <<key, out>>

\* EVP_DigestFinalXOF writes the digest, or fails and writes nothing.
Final ==
  /\ pc = "EVP_DigestFinalXOF" /\ pc' = "done"
  /\ out' \in {out} \cup (IF context = "fed" THEN {Digest(key)} ELSE {})
  /\ context' = "null"  \* EVP_MD_CTX_free
  /\ UNCHANGED key

Shake256 ==
  \/ Step("EVP_MD_CTX_new", "null", "new", "EVP_DigestInit_ex")
  \/ Crash
  \/ Step("EVP_DigestInit_ex", "new", "ready", "EVP_DigestUpdate")
  \/ Step("EVP_DigestUpdate", "ready", "fed", "EVP_DigestFinalXOF")
  \/ Final

Next == PubkeyHash \/ Shake256

Spec == Init /\ [][Next]_vars

------------------------------------------------------------------------------
\* When the call is back the buffer holds the hash of its key ("pubkey_hash:
\* SHAKE-256(pk) truncated to out_len bytes", qorechain_pqc.h:61), never what was
\* there before: two keys do not share an address.
HashIsOfItsKey == pc = "done" => out = Digest(key)
==============================================================================
