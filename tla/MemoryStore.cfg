SPECIFICATION Spec
CONSTANTS
  Workers = {w1, w2, w3}
  Keys = {k1, k2}
  Durable = FALSE
  MaxForgotten = 2
INVARIANT OncePerMemory
