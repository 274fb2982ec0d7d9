CONSTANTS
  Size = 2
  Modulus = 4
  Receivers = {"callback", "ticks"}
SPECIFICATION Spec
INVARIANT Consistent
PROPERTIES
  InOrder
  Delivered
