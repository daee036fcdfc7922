SPECIFICATION ArcSpec
CONSTANTS
  Frames = {f1, f2}
  PageIds = {p1, p2, p3, p4, p5}
  NoFrame = NoFrame
INVARIANTS
  ArcTypeOK
  ListsAndMapsAgree
  EvictFindsAVictim
  MetadataIsBounded
  VictimIsLeastRecentlyUsed
