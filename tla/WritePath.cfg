SPECIFICATION RunSpec
CONSTANTS
  p1 = p1
  p2 = p2
  p3 = p3
  q1 = q1
  q2 = q2
  Readers = {p1, p2, p3}
  Writers = {q1, q2}
  MaxReaders = 8
  w1 = w1
  w2 = w2
  f1 = f1
  fc = fc
  Workers = {w1, w2}
  Flushes = {f1, fc}
  Closer = fc
  ChanCap = 2
INVARIANTS MutualExclusion CountersRestored 
PROPERTY WritersProceed
