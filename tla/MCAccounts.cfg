SPECIFICATION Spec
CONSTANTS
  Clients = {c1, c2}
  Nicknames = {ana, ben}
  Passwords = {x, y}
  Nobody = Nobody
  MaxErrors = 2
SYMMETRY AccountSymmetry
INVARIANTS
  TypeOK
  AnswersAreTrue
  TakenOnce
PROPERTIES
  KeepsDirectory
