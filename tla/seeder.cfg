\* Two seeders at once, repeated runs.
SPECIFICATION Spec
CONSTANTS
  s1 = s1
  s2 = s2
  ocean = ocean
  forest = forest
  i1 = i1
  i2 = i2
  i3 = i3
  i4 = i4
  NoId = NoId
  Seeders = {s1, s2}
  Titles = {ocean, forest}
  Manifest <- TwoTitles
  Ids = {i1, i2, i3, i4}
  Favored = 1
INVARIANTS
  TypeOK
  SeedsServable
  CleanRunCompletes
  NoMoreCopiesThanSeeders
SYMMETRY Symmetry
