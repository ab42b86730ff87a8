CONSTANTS
  rootDirStart = root
  EOC = EOC
  c1 = c1
  c2 = c2
  c3 = c3
  a = a
  b = b
  log1 = log1
  log2 = log2
  log3 = log3
  ShortNames <- MCShortNames
  LongNames <- MCLongNames
  LfnEntries = 2
  Basis = Basis
  Hashes = {h1}
  FatPrograms <- MCFatPrograms
  AllNames = {a, b, log1, log2, log3}
  NameEntries <- MCNameEntries
  ExFatPrograms <- MCExFatPrograms
SYMMETRY Symmetry
SPECIFICATION Spec
INVARIANTS
  TypeOK
  LookupAgrees
  WholeNames
  SfnUnique
  SettledKept
  NoGarbage
  FreeBehind
  DirectoriesRight
  NothingLeaked
