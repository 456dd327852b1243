CONSTANTS
  NoOne = NoOne
  s1 = s1
  s2 = s2
  s3 = s3
  i1 = i1
  low = low
  high = high
  k1 = k1
  k2 = k2
  p1 = p1
  p2 = p2
  l1 = l1
  l2 = l2
  m1 = m1
  r1 = r1
  r2 = r2
  r3 = r3
  j1 = j1
  j2 = j2
  c1 = c1
  w1 = w1
SPECIFICATION LiveSpec
PROPERTIES SeedCompletes EveryWaitEnds
CHECK_DEADLOCK FALSE
