\* Three requests, two codes, two users, a page that two memberships fill, three
\* connections and two attempts.
SPECIFICATION Spec
CONSTANTS
  Requests = {q1, q2, q3}
  Codes = {c1, c2}
  Users = {u1, u2}
  Names = {n1, n2}
  PageSize = 2
  MaxOpenConns = 3
  MaxNumberRetries = 2
SYMMETRY Symmetry
INVARIANTS TypeOK GrantsAccounted OwnerRemains NumbersAllocated RepositoryServed
\* Requests are used up.
CHECK_DEADLOCK FALSE
