\* One run over every lab and snapshot of the instance, with one edit of the lab.
SPECIFICATION Spec
CONSTANTS
  own = own
  other = other
  Skus <- TwoSkus
  First = own
  Prices = {1, 2}
  Windows = {1, 2}
  Follow = Follow
  Unlisted = Unlisted
  Garbled = Garbled
  NoFile = NoFile
  NoAsset = NoAsset
  NoAnswer = NoAnswer
  Labs <- SmallLabs
  Contexts <- SmallContexts
  Answers <- SmallAnswers
  MaxEdits = 1
INVARIANTS
  TypeOK
  PlanIsGrounded
  PatchConverges
  NarrowEdits
  ShipsWhatPassed
  EveryFindingAccounted
CHECK_DEADLOCK FALSE
