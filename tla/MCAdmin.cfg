CONSTANTS
  None = None
  Lost = Lost
  Phones = {phone}
  Admins = {admin}
  Sockets = {s1, s2, s3}
  Fixes = {f1, f2}
  Fences = {g1}
  Minutes = {60, 120}
SYMMETRY Symmetry
SPECIFICATION Spec
INVARIANTS
  TypeOK
  MapHasLastFix
  MapHasLastFence
  MapIsWatched
PROPERTY ImplementsLiveMap
