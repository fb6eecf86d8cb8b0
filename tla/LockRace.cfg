SPECIFICATION Spec
CONSTANTS
  s1 = s1
  s2 = s2
  u1 = u1
  g1 = g1
  c0 = c0
  c1 = c1
  m1 = m1
  m2 = m2
  d1 = d1
  topic = topic
  Syncs = {s1}
  Pulls = {u1}
  Merges = {}
  Commits = {c0, c1, m1, m2, d1}
  History <- Ancestors
  Files <- Trees
  Drafts <- MyDrafts
  Topics <- MyTopics
  Local <- Behind
  Origin <- Synchronized
  Checkout0 = "dev"
  Base <- BaseC0
  Target <- ToM1
  RemoteOnly = FALSE
  Failures = 2
  Moves = 0
  Pushes = 0
INVARIANTS
  NeverRace
CHECK_DEADLOCK FALSE
