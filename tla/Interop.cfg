CONSTANTS
  Seeds = {s1, s2}
SPECIFICATION Spec
INVARIANTS TypeOK NoKeyFromPublicBytes VerdictsAgree HonestVerifies DecapsulationsAgree HonestDecapsulates
