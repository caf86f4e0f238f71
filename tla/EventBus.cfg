SPECIFICATION Spec
CONSTANTS
  s1 = s1
  s2 = s2
  s3 = s3
  k1 = k1
  k2 = k2
  NoSub = NoSub
  Sub = {s1, s2, s3}
  Pub = {p1, p2}
  Key = {k1, k2}
  KeyOf <- SharedKeys
  MaxSignal = 2
INVARIANTS TypeOK ListenersAreActive
PROPERTY ImplementsSubscriptions
