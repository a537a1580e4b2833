\* A user and an item, one plan, three changes or rebases, one stop halfway.
SPECIFICATION Spec
CONSTANTS
  u1 = u1  i1 = i1
  Users = {u1}
  Items = {i1}
  Nobody = Nobody
  MaxCommits = 3
  MaxPlans = 1
  MaxFailures = 1
INVARIANTS NoWorkIsLost
PROPERTIES BranchMovesByRule PendingPlansEnd
