CONSTANTS
  Users = {alice, bob}
  Creator = alice
  Administrators = {bob}
  Requests = {q1, q2}
SPECIFICATION Spec
SYMMETRY RequestSymmetry
PROPERTIES
  OwnerlessOnlyByOverlap
  NoGrantIsRemovedTwice
  SecondRoleOnlyByOverlap
