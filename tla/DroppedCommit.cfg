SPECIFICATION Spec
CONSTANTS
  s1 = s1
  s2 = s2
  u1 = u1
  g1 = g1
  c0 = c0
  c1 = c1
  m1 = m1
  m2 = m2
  d1 = d1
  topic = topic
  Syncs = {}
  Pulls = {}
  Merges = {g1}
  Commits = {c0, c1, m1, m2, d1}
  History <- Ancestors
  Files <- Trees
  Drafts <- MyDrafts
  Topics <- MyTopics
  Local <- Unpushed
  Origin <- Merged
  Checkout0 = "dev"
  Base <- BaseC1
  Target <- ToM1
  RemoteOnly = FALSE
  Failures = 2
  Moves = 0
  Pushes = 0
PROPERTIES
  FastForwardOnly
CHECK_DEADLOCK FALSE
