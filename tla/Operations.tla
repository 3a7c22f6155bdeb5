------------------------------ MODULE Operations ------------------------------
(***************************************************************************)
(* The operations of the bindings over liboqs, by their use of randomness.  *)
(***************************************************************************)

\* The operations that draw randomness, and those that draw none.
Consumers  == {"keygen", "sign", "sign_hedged", "encapsulate"}
Pure       == {"verify", "decapsulate"}
Operations == Consumers \cup Pure

\* What liboqs's process-global RNG can be switched to.
Sources == {"system", "zero"}

\* The sources a call may answer from: the zero filler for deterministic
\* signing, the system RNG for the other consumers, none for the rest.
Promised(f) == IF f = "sign" THEN {"zero"}
               ELSE IF f \in Consumers THEN {"system"} ELSE {}
==============================================================================
