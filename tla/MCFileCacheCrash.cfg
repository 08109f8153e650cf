CONSTANTS
  w1 = w1
  w2 = w2
  w3 = w3
  f1 = f1
  f2 = f2
  f3 = f3
  f4 = f4
  Worker <- Workers3
  Name <- Names4
  FileSizes <- NoneEmpty
  MaxCacheSize = 5
  MaxInserts = 6
SYMMETRY Symmetric
SPECIFICATION Spec
INVARIANT KeepsServing
