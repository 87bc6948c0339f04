SPECIFICATION MCSpec
CONSTANTS
  c1 = c1
  c2 = c2
  k = k
  star = star
  rule = rule
  n1 = n1
  n2 = n2
  None = None
  Gone = Gone
  Junk = Junk
  Client = {c1, c2}
  Trusted = {0, 9}
  Anonymous = 0
  Key = {k, star, rule, n1, n2}
  UserKey <- MCUserKey
  RuleKey <- MCRuleKey
  PermOf <- MCPermOf
  PublicKey <- MCPublicKey
  Length <- MCLength
  Matches <- MCMatches
  KeyShard <- MCKeyShard
  EmptyShard = 0
  Requests <- MCRequests
  MaxRequests = 3
  MaxRestarts = 1
INVARIANTS AnsweredSeenAlways
