SPECIFICATION Spec
CONSTANTS
  r1 = r1  r2 = r2  ann = ann  root = root  u1 = u1  u2 = u2  bulk = bulk  del = del
  Records = {r1, r2}
  Users = {ann, root}
  Admins = {root}
  Requests = {bulk, del, u1}
  Op <- BulkOp
  Actor <- BulkActor
  Patch <- BulkPatch
  Edit = Edit
  MaxRetries = 1
  RedisFails = FALSE
  NoOne = NoOne
  Gone = Gone
CHECK_DEADLOCK FALSE
INVARIANT ReportedIsCommitted
