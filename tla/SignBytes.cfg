CONSTANTS
  Radix <- MCRadix
  Domain <- MCDomain
  Chains <- MCChains
  Bodies <- MCBodies
  Auths <- MCAuths
SPECIFICATION Spec
INVARIANTS SameBytesSameTransaction OneEncoding RefusedVerifiesNowhere
