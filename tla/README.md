# A TLA+ model of qorechain-pqc

qorechain-pqc offers the same small API in six languages: ML-DSA signatures,
ML-KEM encapsulation, SHAKE-256, and the *hybrid sign-bytes*, the byte string a
post-quantum signature of a QoreChain transaction covers. This directory models
the parts whose correctness depends on order, failure or time, checks the models
with TLC and proves the central results with TLAPS.

Paths below are relative to the repository (`src/`). "Run" names are those of
`PROJECT.json`, which also maps every definition to the lines it models.

## 1. Inventory

### The parts and their state

| Part | Code | State | Operations |
|---|---|---|---|
| C binding over liboqs | `c/qorechain_pqc.c`, `.h` | `qpqc_rng_lock`; liboqs's process-global RNG; buffers it mallocs for its callers | keygen, sign, sign_hedged, verify, encapsulate, decapsulate, sign-bytes builders, version rule, `qpqc_free` |
| Python binding over liboqs-python | `python/qorpqc/__init__.py` | `_rng_lock`; the same global RNG; the ctypes callback `_ZERO_RNG` | methods of `MlDsa` and `MlKem`, the same pure functions |
| Go, Rust, JS, Java bindings | `go/pqc.go`, `rust/src/lib.rs`, `js/src/index.js`, `java/.../Pqc.java` | none: every primitive gets its randomness per call | the same operations |
| Version rule (in all six) | `sign_bytes_version_for`, `..._for_applied` | constants: two plan names, two legacy networks | v1 or v2, from a chain-id and the heights at which plans were applied |
| Sign-bytes encoding (in all six) | `hybrid_sign_bytes_v1/_v2` and the dispatcher | none | bytes from chain-id, body and auth-info |
| Hashes | `shake256`, `pubkey_hash` | none; C drives an OpenSSL context of its own | one call into a library, five in C |
| Vectors, their generators | `vectors/`, `scripts/` | files | written once, compared by every binding's tests |
| CI and publishing | `.github/workflows/` | registries | build, test, publish per language |

### How they interact

- The C and Python bindings share **one RNG with the whole process**. Deterministic
  signing installs a zero filler in it, signs, and switches back; every function
  of the binding that draws takes the binding's lock. Anybody else in the process
  who uses liboqs takes no lock.
- A **caller** of the C binding owns the buffers the binding mallocs, and the
  binding touches the out parameters differently on each of its error paths.
- **Keys, signatures and ciphertexts** made in one binding are used in another. Each
  binding looks at their lengths only, against tables of its own or its backend's;
  Java's ML-DSA secret key is the 32-byte seed, the others' is the expanded key.
- A **client** asks its network about every plan name, one query at a time, hands the
  answers to the version rule of whichever binding it uses, signs the form that
  names and submits. The network accepts exactly one form at any height and may
  switch in between (`README.md:60-95`).

### What is hard, and what makes each part correct

| Part | Hard behaviour | Correct if |
|---|---|---|
| C binding, RNG | threads interleave around a global switch; liboqs fails inside the window; foreign users; `fork` | the zero filler is installed only inside a deterministic sign under the lock; no output is drawn from the wrong source; the lock always comes back |
| Python binding, RNG | the same, plus exceptions at every step and `KeyboardInterrupt` between any two | the same, and what an interrupt may break is bounded and repaired by the next signature |
| C binding, buffers | each malloc and each liboqs call may fail; two buffers in one call | frees are of live buffers, within bounds, once, except after failures named below; secrets are overwritten; nothing leaks for a caller who frees what is set |
| Version rule | two plan names, arrays against maps, repeated and reordered answers, null values | all six agree with one another and with the network |
| Client | stale, lost, repeated, partial answers; the switch overtakes a query | never ahead of the network, rejected at most once, accepted in the end |
| Encoding | length fields of fixed width; offsets and capacities computed apart from what is written; checked and unchecked builders | all builders make the same bytes; different inputs have different bytes; v1 and v2 never coincide |
| Input checks | six tables and six sets of checks, some left to a backend; seeds against expanded keys, trailing bytes | what one binding makes every other takes; malformed input is refused alike |
| Hashes in C | any of four calls into OpenSSL may fail, and none is looked at | the buffer holds the hash of the key it was asked for |

`PROJECT.json` lists each hazard at its line with the properties that cover it.

## 2. Modules

```
Operations            what draws randomness, and from where it must
 ├─ RngContract       abstract: what a caller is promised about randomness
 ├─ QpqcRng           C binding: lock, switches, threads   ── implements RngContract
 │   └─ QpqcFork      the same in a process that forks
 │       └─ QpqcRng_proofs  about both
 └─ QorpqcRng         Python binding, with interrupts      ── keeps RngContract
     └─ QorpqcRng_proofs
QpqcBuffers           C binding: who owns which buffer     ── QpqcBuffers_proofs
QpqcHash              C binding: a hash whose steps may fail
SignBytesVersion      the version rule of the six bindings ── SignBytesVersion_proofs
 ├─ MCSignBytesVersion  the rule over lists of answers     ── MCSignBytesVersion_proofs
 └─ UpgradeClient       a client using it across the switch ── UpgradeClient_proofs
SignBytes             the encoding of the six bindings     ── SignBytes_proofs
 └─ MCSignBytes         the encoding over small bytes
Interop               strings between the six bindings     ── Interop_proofs
```

### RngContract: the promise

`call[t]` is what thread `t` sees: idle, running a function, or answered. An
answer is an error, or a success whose randomness came from `Promised(f)`: the zero
filler for `sign`, the system RNG for `keygen`, `sign_hedged`, `encapsulate`,
nothing for `verify` and `decapsulate`. There is no lock and no RNG in it. It is the
sense of `c/qorechain_pqc.h:27-44` and `python/qorpqc/__init__.py:26-36`.

### QpqcRng: the C binding

| Model | Code |
|---|---|
| `rng` | liboqs's RNG pointer: `"system"` or `"zero"` (`qpqc_zero_rng`, line 41) |
| `lock` | owner of `qpqc_rng_lock` (line 16) |
| `pc[t]`, `fn[t]` | where thread `t` is, in which of the six functions |
| `drawn[t]` | the sources its current call has drawn from, one `Draw` per `OQS_randombytes` |
| `ok[t]` | the backend call's result |
| `seen[x]` | what a foreign liboqs user last drew |
| `Reject`, `Accept` | the early returns before the lock, and falling through them |
| `Acquire`, `InstallZero`, `BackendReturn`, `Restore`, `Unlock`, `Return` | lines 50-56 and their likes, in the code's order |

`Serialised(f)` says which functions take the lock, `AfterBackend(f)` what follows
the backend call in each. The backend may fail at any point, including before it
has drawn; it succeeds only after drawing. The key, message and signature bytes and
the parameter sets are left out: no property tells them apart, only the source of
each draw. Foreign users only draw; that they do not switch the RNG themselves is an
assumption.

### QpqcFork: fork

The file installs no `pthread_atfork` handler. `Fork(t)` is the child's view: a copy
of RNG and lock, and only thread `t` alive (`live`). The lock may belong to a thread
that no longer exists: a child can then stop for ever at `Acquire`. What is checked is
that nothing worse happens.

### QorpqcRng: the Python binding

The same shape with Python's control flow: `with _rng_lock` (`Acquire`, `Exit`),
`OQS_randombytes_custom_algorithm` *before* the `try` (`InstallZero`, `EnterTry`), the
`finally` clause (`Restore`), and a backend that raises. `verify` turns a raise or a
malformed argument into `False`, which is a result; the others raise.
`Interrupt(t)` is a `KeyboardInterrupt` between two steps of `t`; `Unwind` says where
an exception at each stage lands. `InterruptZeroFill(t)` is one raised inside the
ctypes callback `_zero_fill` before its `memset`: ctypes reports it and drops it, and
the buffer stays unset. `interrupted` is a history variable: a deterministic sign has
been hit inside the lock. Assumed of CPython: interrupts are raised in the main
thread only (`Interruptible`), entering and leaving `with lock` is one step, an
interrupted wait raises without the lock.

### QpqcBuffers: ownership in C

One caller makes one kind of call over and over, with any parameter set each time.
`var` is its pointer and length for each out parameter, `heap` the live buffers. It owns
them in one of four ways (`Idioms`), three of them in `c/test_vectors.c`: `"fresh"`
(declare `NULL`/0 per call and free whatever was returned, lines 43-48, 65-70, 97, 148),
`"on success"` (uninitialised, freed only after `QPQC_OK`: `pk` and `sk`, 85-88, 149) and
`"unchecked"` (uninitialised, the result ignored, freed regardless: `hb`, 85, 90, 149).
`"reused"` calls again with variables of which only the pointer was set back, as 95 does
with `sig` without a second call; the header does not warn against it. Any malloc and any
liboqs call may fail; whether a failing `OQS_SIG_sign` sets `*sig_len` is left open.

A free of what the caller does not own (`~Owned`) is undefined, and the behaviour ends in
front of it. `OnlyFailuresMisleadAFree` says which frees these are, all of them after a
failed call: of variables the call never wrote (`Unwritten`), and of a buffer with the
length an earlier call with a larger parameter set left in the caller's variable
(`Stale`). Both are reachable in the model.

### SignBytesVersion and MCSignBytesVersion: the version rule

`VersionForMap` is the rule of Go, Rust, JS, Python and Java, `VersionForArrays` C's
over parallel arrays, where names may be `NULL`, unknown or repeated. `MapOf` is the map
a client builds from answers in the order they came (a later one overwrites).
`Verifies` is the network, external to the repository. `MCSignBytesVersion` has one
state per input.

### UpgradeClient: a client across the switch

The network (`applied`) applies plans at growing heights; a client asks
(`NodeAnswers`), receives in any order (`Receive`), loses (`Lose`), possibly gives up
and decides on what it has (`Decide`), and submits (`Accept`, `Reject`), over and over.
`knowable` and `complete` are history: the switch preceded the attempt, the decision
had every answer. The network and the queries are outside the repository and are
modelled from `README.md:60-95`.

The network accepts a transaction iff the form the client signed is the one it
verifies: `SignBytes` says that no other form of any transaction has the same bytes.

### SignBytes and MCSignBytes: the encoding

A byte is a digit below `Radix`, a length is cut to four of them (`be32`; eight for the
chain-id, `be64`) as the casts in C, Go, Rust and JS do, or refused
(`LengthsAccepted`: `struct.pack` raises, Java's capacity is an `int`). Each binding has
its own builders. C's (`CV1`, `CV2`) `Malloc` a total computed first and `Put` each field
at an offset; what nobody writes stays `Unwritten`, and a write past the end makes the
buffer longer. Java's fill a `ByteBuffer` whose capacity is computed apart from what is
put. `GoV1`, `GoV2`, `JsV1`, ... append, Rust and Python with a v2 that calls their v1.
`Entries` are the six dispatchers (`BuildV1`, `BuildV2` name the builder each calls) and
the unchecked builders of Go and Rust. One state is a pair of
inputs: the one a client signs and the one a network rebuilds; a signature verifies
iff the two have the same bytes. `WithinLimits` names the boundary at which that
fails: lengths that do not fit their fields, and a v1 body of exactly 0x716f7265
bytes (1.9 GB), whose length field reads like the start of the v2 domain tag. NULL,
None and null are the empty chain-id, as they are in the code; UTF-8 and lone
surrogates in the chain-ids of JS and Java are left out.

### Interop: six bindings, one user

A user holds a secret key, a public key and a signature or ciphertext, and passes them
to any binding at any level. A string is what kind of thing it is, at which level,
whose, and how many bytes too long or too short (`off`, after `Damage`): that is all
the bindings' checks look at. `Sizes` are those of FIPS 203 and 204, and each binding has a
table of its own (`PythonTable`, `RustTable`, `JsTable`, `JavaTable`; C and Go ask their
backends, `BackendTable`). It also has its own checks: `CVerify` compares the key's
length, answers -1, and leaves the signature's to liboqs; `GoVerify` compares the
signature's and leaves the key's to CIRCL; `GoDecapsulate` leaves both to CIRCL, the
others compare both. `SecretFrom` is what a keygen hands out, `FirstBytes` what a binding
would use as a seed if it took a string for one (of an ML-DSA key: rho, which is public).

The cryptography is ideal and external. `Authentic` takes lengths for granted and ignores
bytes behind the end of a signature, as `go/pqc.go:131-133` says of CIRCL; no backend is
given more credit but liboqs, which is told the length and compares it
(`LiboqsVerifies`). `Decapsulated` has implicit rejection. The message, changes of
content that keep the length, keygen from a 64-byte ML-KEM seed in JS, and C's
acceptance of any algorithm name liboqs knows are left out.

### QpqcHash: a hash in C

`qpqc_shake256` calls OpenSSL five times and looks at no result. `context` is how far the
digest context has come, and every `Step` may fail and leave it behind;
`EVP_DigestFinalXOF` then writes nothing. A failed `EVP_MD_CTX_new` gives a NULL on which
the next call ends the process. The other bindings make one library call that reports
its own failure.

## 3. Runs

| Run | States | What it shows |
|---|---|---|
| `c_rng` | 38 475 | `ZeroOnlyInWindow`, `AnswersFromPromisedSource`, `ForeignZerosOnlyWhileSigning`, the inductive invariant `IInv`; `ImplementsContract`: the C binding is a refinement of `RngContract`; the lock is given back on every path, a waiter starves only under an endless load of new calls, `verify` never waits |
| `c_fork` | 109 520 | no call in a child answers from the wrong source; a child blocks only on a lock whose owner was left behind, and never in `decapsulate` |
| `py_rng` | 141 780 | the same safety for Python *until an interrupt hits a deterministic sign* (interrupts elsewhere included), `SignatureRestoresSystemRng`: the next signature repairs the RNG; no exception or interrupt leaves `_rng_lock` held |
| `py_interrupt_restore` | violation | an interrupt between lines 121 and 122 leaves the zero filler installed with the lock free |
| `py_interrupt_determinism` | violation | an interrupt swallowed in `_zero_fill` yields a signature that is not the deterministic one |
| `c_buffers` | 3 898 | frees go wrong only after a failure, in the two ways named (`OnlyFailuresMisleadAFree`); `SecretsAreCleansed`; only failed calls leave buffers nobody frees (`LostOnlyAfterFailure`) |
| `c_hash` | violation | an OpenSSL failure leaves the buffer as it was, and nobody is told |
| `version_rule` | 96 118 | each binding decides as the network, and all alike on one answer per name |
| `version_null_chain` | violation | a null chain-id ends in a `NullPointerException` in Java, against its own documentation |
| `upgrade` | 84 224 | `NeverAhead`, `WrongOnlyWhenOvertaken`, `RejectedAtMostOnce`, `EventuallyAccepted` |
| `sign_bytes` | 46 656 | the same bytes only for the same transaction, form and network; the builders of all bindings make one encoding (`OneEncoding`), longer inputs than their fields included; what a checked builder refuses verifies nowhere |
| `interop` | 31 302 | the six sets of checks agree on anything held, damaged or not (`VerdictsAgree`, `DecapsulationsAgree`); `HonestVerifies`, `HonestDecapsulates` across bindings; `NoKeyFromPublicBytes` |

**Bounds.** Three threads are one in the window, one that could land in it and a third
that waits meanwhile; a fourth adds no relation, and the safety results are proved for
any number anyway. One foreign user, for each is independent. The RNG runs take three
or four of the six functions, one of each kind: `sign` switches; `keygen`,
`sign_hedged` and `encapsulate` draw under the lock; `verify` and `decapsulate` take
none. Functions of a kind share their control flow, the runs take different ones, and
the proofs cover all six. `drawn` is a set, so any number of draws is covered. In
`QpqcBuffers`, `MaxBuffers = 3` lets two leaked buffers accumulate beside a live one, and
two parameter sets let lengths differ. In the version rule three entries contain every
pair of names in either order with a repetition, and heights -1..2 have a negative,
"not applied" and two that differ. In `UpgradeClient` three answers are one repeated
name with the other name missing or present; the client is C (arrays) or Java (map),
whose rules differ in what a repeated answer does. In `MCSignBytes` a byte has four
values, so that a length field overflows at 256 bytes; bodies and auth-infos spell
length fields, a body spells the rest of a v2 string, and one of each is longer than
its field holds; the proofs are for any radix. In `Interop` two seeds are a key and
another's key, all levels and sizes are the real ones, and one byte more or less suffices for checks of exact
lengths.

**Fairness.** `WF(Step(t))` and `WF(BackendReturn(t))` for every thread: the scheduler
runs every thread and a liboqs call ends. New calls, foreign draws, forks and
interrupts are not promised. There is no strong fairness on the lock: neither a
default pthread mutex nor a `threading.Lock` is fair, which is why the property is
`WaiterStarvesOnlyUnderLoad` and not that every waiter gets in. In `UpgradeClient` a
client keeps asking (weak fairness), an answer asked for over and over arrives in the
end (strong fairness on receiving it, as losing it disables that), and a decision is
submitted; the network is not obliged to apply anything.

**Deadlock** is checked everywhere except in `c_fork`, where a child may wait for
ever for a lock whose owner the fork left behind, in `c_hash`, where the process may have
crashed, and in `c_buffers`, where a free of what the caller does not own ends the
behaviour.

## 4. Proofs

Every theorem holds for any set of threads, foreign users and functions within the
named assumptions: `FnsAssumption` (the functions are among the six),
`ThreadsAssumption` (`NoThread` is no thread), `InterruptibleAssumption`; and for any
parameter sets, numbers of buffers, answers and heights, radix, domain tag and inputs
within `AlgsAssumption`, `MaxBuffersAssumption`, `ClientsAssumption`,
`HeightsAssumption`, `MaxEntriesAssumption`, `RadixAssumption` (above 1),
`DomainAssumption` (the tag is longer than a length field), `InputsAssumption` (byte
strings); and in `Interop` for any set of seeds.

- **`QpqcRng_proofs`**. `AnswersFromPromisedSource` is not inductive: that an answer
  came from the right RNG depends on every draw made while the call was running, those
  on who could switch the RNG meanwhile, and that on who owns the lock. `IInv` adds
  these three: `HolderOwnsLock` (a thread is inside its critical section iff it owns the
  lock, hence one at a time), `StagesFitFunctions` (only serialised functions wait, only
  `sign` switches), `DrawsFromPromisedSource` (the draws *so far* match). `InvStep` has
  one case per action. From it: `ZerosStayInTheWindow`, `PromisedRandomness`,
  `ForeignZeros`, and `Implementation` (`Spec => Contract!Spec`, by `InitImplements` and
  `StepImplements`: `Call`, entry into `"answered"` and `Return` are the contract's steps,
  all others stutter).
  `LockOnItsWay` is the safety half of `LockIsReleased`: whoever holds the lock has fewer
  steps left to its own unlock (`StepsLeft`) after each step that moves it, and loses the
  lock by that unlock only.
  A fork changes nothing but who is alive, and the steps of the living are steps of the
  C binding (`ForkRefines`). Hence `ChildRandomness`, and `ForkImplementation`: the
  contract holds across forks. `LostLockStaysLost` is the safety half of
  `BlockedOnlyByLostOwner`: no step of the living touches a lock that is not theirs, so
  one left behind stays so.
- **`QorpqcRng_proofs`**. The same argument with the promise conditional on
  `~interrupted`, and with `SignatureRestoresSystemRng`, which is not: `SignaturesRepair`
  holds whatever was interrupted before. `Conformance` is the contract, step by step,
  until an interrupt hits a deterministic sign. `LockOnItsWay` holds through every unwinding,
  interrupted or not.
- **`QpqcBuffers_proofs`**. Every allocating call is an instance of one lemma,
  `AllocationKeeps`: whatever buffers it got, nothing wrong is freed if it sets the
  lengths whenever it succeeds and whenever it leaves a secret key. Needed besides the
  properties: between calls a pointer is as it was declared (`Idle`), and a reused length
  is 0 or the one some parameter set gives that slot (`Brought`).
  `MisleadingFreesFollowFailures` is the property; `OnlyOwnedIsFreed` draws the
  conclusion for a caller: who declares the variables per call, or frees after success
  only, frees nothing but live buffers within their bounds.
- **`SignBytesVersion_proofs`, `MCSignBytesVersion_proofs`**. A finite set of heights
  has a greatest (`FiniteHasMax`: a smallest set without one, less an element, would
  be a smaller), and it is above 0 iff one of them is (`MaxPositive`). Hence
  `BindingDecides`; `RulesAgree` adds that without a repeated name the last entry about
  a name and any entry are the same.
- **`UpgradeClient_proofs`**. `NeverAhead` is not inductive: it rests on the answers held,
  in flight or listed. `IInv` says that none claims a plan the network has not applied
  (`Truthful`), that if the network had switched when the attempt began it was under a
  plan about which no held answer says otherwise (`Informed`), and that a decision is
  still what the rule makes of the list (`AsDecided`). A rejection of a fully answered
  decision then means that the switch came during the attempt, so the next attempt
  knows of it and no later one is rejected (`OneRejection`). `TypeCorrect` needs a count:
  every plan is applied at a height above the earlier ones, so no height exceeds the
  number of plans applied, and there are three (`Bounded`).
- **`SignBytes_proofs`**. First the builders: a `Put` keeps what is before it and behind
  it (`PutKeepsStart`, `PutKeepsEnd`), so that puts one behind the other fill a buffer
  from the left (`PutNext`) and the last one ends it (`FilledLast`); C's offsets are such
  puts (`CMakesV1`, `CMakesV2`), and Java's puts are as long as its capacities
  (`JavaMakesV1`, `JavaMakesV2`). Hence every builder makes one layout, `V1` or `V2`
  (`BuildersMakeTheLayout`), which is `BindingsEncodeAlike`. Then the layout: a length
  field is injective below its width (`Be32Injective`, `Be64Injective`); a string with a
  prefix of known length splits in one way (`SplitsOnce`); so the fields can be read off
  one by one (`V1Injective`, `V2Injective`), and the first four bytes tell v1 from v2
  (`V1NotV2`). `BytesDetermineTransaction` and `RefusalsAgree` follow for any inputs
  within the limits.
- **`Interop_proofs`**. Each binding's table is the standard's wherever it looks
  (`TablesAgree`), and each set of checks, whatever its order and whoever makes them,
  comes to the same (`VerifiesWhatFits`, `DecapsulatesAlike`). The rest follows from the
  sizes: within one kind the sizes of two levels differ by more than the byte that damage adds
  or takes, hence a string that fits is whole and of that level (`FitsOwnKind`), and no
  expanded key of any level passes for a seed (`SeedsAreSeeds`). `IInv` says that the
  strings are of their kinds and of drawn seeds (`Shapes`), that a pair is whole and of
  one seed (`Paired`), and that a product whose origin is known is what that key gives
  (`Made`; without it nothing relates a signature to the key held). `OneVerdict` and
  `OneSharedSecret` say more than that the bindings agree: on what, namely on exactly the
  whole signature by the key held (`Genuine`) and the whole ciphertext to it
  (`Recoverable`). What they assume is external: that liboqs's and CIRCL's sizes are the
  standard's and that these two check the lengths left to them.

Every invariant and every safety action property of the passing runs is so a theorem.
**Only model-checked** are the liveness properties, as fairness and ENABLED are out of
the prover's reach (`LockIsReleased`, `WaiterStarvesOnlyUnderLoad`, `PureCallsReturn`,
`BlockedOnlyByLostOwner`, `ChildPureCallsReturn`, `EventuallyAccepted`), and the
violations. `LockOnItsWay` and `LostLockStaysLost` say which steps cannot happen on the
way; that the others do happen is what fairness is for.

## 5. Where the code and its documentation part

1. `python/qorpqc/__init__.py:121-126`: the switch to zeros precedes the `try`, so an
   interrupt between them (or on entry to the switch in the `finally`) skips the restore
   that lines 29-30 describe, and the lock is free. The next deterministic signature
   repairs it.
2. `python/qorpqc/__init__.py:41-45`: an interrupt inside `_zero_fill` is dropped by
   ctypes; the signature returned is then not the one lines 104-105 promise.
3. `java/.../Pqc.java:384`: `List.contains(null)` throws `NullPointerException` where
   lines 43-45 and `java/README.md:56-58` promise `IllegalArgumentException`, and the other
   bindings with a null decide v2.

4. `c/qorechain_pqc.c:111-118`: `qpqc_shake256` ignores every result of OpenSSL and
   returns nothing, so that after a failure `qpqc_pubkey_hash`, which
   `qorechain_pqc.h:61` says is the hash of the key, leaves the buffer as it was: with a
   buffer used twice, two keys get the same address.

Met on the way and not findings of a run, as no document or test says otherwise:

- the header does not mention `fork`; a child made while another thread is signing
  inherits a lock nobody will release;
- `c/test_vectors.c:149` frees `hb`, which is unset if the builder at line 90 failed;
- a caller who keeps its length variables from call to call and changes the parameter set
  has `qpqc_free` cleanse past the end of the buffer of a failed keygen
  (`c/qorechain_pqc.c:23`) or, if liboqs leaves `*sig_len` alone, of a failed signature
  (52, 69). `OnlyFailuresMisleadAFree` has both among its exceptions.

## 6. Not modelled, and what is left

Not modelled:

- the cryptography (liboqs, CIRCL, the Rust, JS and Java libraries), which is external
  and taken as ideal;
- vectors and their generators: straight-line scripts whose output every binding's tests
  compare byte for byte;
- `publish.yml`: jobs of a hosted service, one per registry, that share no state; that
  versions can drift apart when one fails is visible in the file, and a model of it
  would model the service;
- what the sections on `SignBytes` and `Interop` name as left out;
- C's `verify` answering -1 to a malformed key, which a caller who tests for truth takes
  for 1: `Interop` has the three answers, but no such caller.
