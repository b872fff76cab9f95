\* The capacity of the cache.
CONSTANTS
  Keys = {k1, k2, k3, k4}
  Images = {v1, v2}
  NoImage = NoImage
  items_cap = 2
SPECIFICATION CacheSpec
INVARIANTS
  WithinCap
