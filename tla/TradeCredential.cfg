\* Two operators, two api keys and four payloads: a key can be replaced and
\* put back while a probe or a rotation of its first payload is under way.
SPECIFICATION Spec
CONSTANTS
  p1 = p1
  p2 = p2
  k1 = k1
  k2 = k2
  NoKey = NoKey
  Operators = {p1, p2}
  Keys = {k1, k2}
  MaxEnvelopes = 4
SYMMETRY Symmetry
INVARIANTS
  TypeOK
  ValidWasProbed
  NoRotationLost
  ClientIsVouched
PROPERTIES
  ImplementsRegister
