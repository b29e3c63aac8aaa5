CONSTANTS
  u1 = u1
  u2 = u2
  c1 = c1
  Rien = Rien
  Univers = {u1, u2}
  Createurs = {c1}
SPECIFICATION Spec
INVARIANTS
  AssertPosition
