CONSTANTS
  N = 4
  Infinite = 10000
  Ports <- Ports4
  Leads <- Leads4
SPECIFICATION Spec
INVARIANTS TypeOK NextIffFinite RoutesDescend DistancesAreShortest OneTestSuffices
