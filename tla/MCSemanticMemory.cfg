\* Two episodes, three executions by two slots, and two meanings.
CONSTANTS
  Meanings = {a, b}
  FactIds = {1, 2, 3}
  Episodes = {e1, e2}
  Slots = {w1, w2}
  FactLimit = 2
  MaxActions = 2
  MaxRuns = 3
  NoMeaning = NoMeaning
  NoTarget = NoTarget
  NoEpisode = NoEpisode
  Invented = Invented
SPECIFICATION Spec
SYMMETRY Symmetry
INVARIANTS
  TypeOK
  NoDuplicateFacts
  EpisodeCountsOnce
PROPERTIES
  InvalidationIsFinal
  ProvenanceGrows
\* Every job may have been executed as often as the bound allows.
CHECK_DEADLOCK FALSE
