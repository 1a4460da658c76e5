\* Two threads race on every step; the third slot lets a count reach 2 while
\* another object is replaced.
CONSTANTS
  Objects = {o1, o2, o3}
  Slots = {s1, s2, s3}
  Threads = {t1, t2}
  NoObj = NoObj
  NoSlot = NoSlot
SPECIFICATION Spec
SYMMETRY Symmetry
INVARIANTS CountMatches NoDangling
PROPERTY NoResurrection
\* A NULL dereference ends the process, and the objects are finite.
CHECK_DEADLOCK FALSE
