SPECIFICATION Spec
CONSTANTS
  u1 = u1  u2 = u2  u3 = u3  u4 = u4  u5 = u5  u6 = u6  u7 = u7
  Uploads = {u1, u2, u3, u4, u5, u6, u7}
  ConcurrentUploads = 2
  Shards = 2
  ShardOf <- TwoShards
  Requests = {q1, q2}
  Keys = {k1}
  Numbers = {}
  Bodies = {b1}
SYMMETRY UploadSymmetry
INVARIANT HeldWithinCapacity
