CONSTANTS
  nova = nova
  lumen = lumen
  flex = flex
  path = path
  plus = plus
  V0 = V0
  V1 = V1
  Lenders = {nova, lumen}
  Documents = {flex, path, plus}
  Versions = {V0, V1}
  Days = {0, 1}
  NoDay = NoDay
  Open = Open
  NoScope = NoScope
  Manifests <- Corpora
  Questions <- Asked
  Replies <- Replied
SPECIFICATION Spec
INVARIANTS TypeOK ScopeFollowsDialogue ComparedAsSaid FilterFindsManual NothingIsTakenBack
