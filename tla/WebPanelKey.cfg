CONSTANTS
  r1 = r1
  r2 = r2
  Requests = {r1, r2}
  Forms <- MCForms
  NoForm = NoForm
  Nobody = Nobody

SYMMETRY Symmetry
SPECIFICATION Spec
INVARIANT PasswordIsReal
