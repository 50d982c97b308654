CONSTANTS
  Saves = {s1, s2, s3}
  s1 = s1
  s2 = s2
  s3 = s3
  Created = Created
  NoContent = NoContent
  Deployments <- Sound
SPECIFICATION Spec
SYMMETRY Perms
INVARIANTS LatestIsHighest EditorSeesLastSave PublishedOnRecord LogWithinCap UnpublishKeepsContent
PROPERTIES DeletedForGood
CHECK_DEADLOCK FALSE
