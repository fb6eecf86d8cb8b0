\* A sync, a pull and a merge through the Host Agent on one clone.
SPECIFICATION Spec
CONSTANTS
  s1 = s1
  s2 = s2
  u1 = u1
  g1 = g1
  c0 = c0
  c1 = c1
  m1 = m1
  m2 = m2
  d1 = d1
  topic = topic
  Syncs = {s2}
  Pulls = {u1}
  Merges = {g1}
  Commits = {c0, c1, m1, m2, d1}
  History <- Ancestors
  Files <- Trees
  Drafts <- MyDrafts
  Topics <- NoTopics
  Local <- BehindShared
  Origin <- Merged
  Checkout0 = "dev"
  Base <- BaseC0
  Target <- ToM1M2
  RemoteOnly = TRUE
  Failures = 1
  Moves = 1
  Pushes = 1
INVARIANTS
  SyncedIsReal
PROPERTIES
  FastForwardOnly
  OnlyPublished
CHECK_DEADLOCK FALSE
