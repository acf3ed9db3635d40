\* Two users create a repository of the same name for one organization.
SPECIFICATION Spec
CONSTANTS
  Requests = {q1, q2}
  Codes = {c1, c2}
  Users = {u1, u2}
  Names = {n1, n2}
  PageSize = 2
  MaxOpenConns = 3
  MaxNumberRetries = 2
INVARIANTS RepositoryKept
\* Requests are used up.
CHECK_DEADLOCK FALSE
