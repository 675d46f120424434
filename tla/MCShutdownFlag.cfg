CONSTANTS
  probes = probes
  updater = updater
  k1 = k1
  k2 = k2
  Workers = {probes, updater}
  Waiter = probes
  Wakers = {k1}
  NoWorker = NoWorker
  Nobody = Nobody
SPECIFICATION Spec
INVARIANT StaysDown
