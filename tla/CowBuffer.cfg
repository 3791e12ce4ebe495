SPECIFICATION FairSpec
CONSTANTS
  h1 = h1
  h2 = h2
  o1 = o1
  o2 = o2
  o3 = o3
  o4 = o4
  Handles = {h1, h2}
  Objs = {o1, o2, o3, o4}
  Contents <- MCContents
  Cuts <- MCCuts
  Whole = "whole"
  Cut <- MCCut
  Compose <- MCCompose
  Torn = Torn
  Garbage = Garbage
  Nil = Nil
  RefMax = 9
INVARIANTS
  RefcountExact
  WritesAlone
PROPERTIES
  SharingInvisible
  CallsFinish
  Reclaimed
