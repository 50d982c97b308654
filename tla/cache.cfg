CONSTANTS
  page = page
  post = post
  author = author
  tag = tag
  r1 = r1
  r2 = r2
  w1 = w1
  w2 = w2
  None = None
  Timer = Timer
  Docs = {page, post, author, tag}
  Ref <- Refs
  Readers = {r1, r2}
  Requests <- Asked
  Writers = {w1, w2}
  Written <- WrittenBy
  Silent = {w2}
  Shards <- TwoShards
  MaxEntries = 1
  MaxPanics = 1
  MaxNestedClears = 1
SPECIFICATION MCSpec
INVARIANTS CommitClears OneFetch SoftCap
PROPERTIES FreshAtLast ReadsEnd
CHECK_DEADLOCK FALSE
