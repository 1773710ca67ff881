SPECIFICATION FairSpec
CONSTANTS
  Order <- MCOrder
  First = {"web"}
  States = {"idle"}
  MaxGen = 1
INVARIANTS SelectionKept
PROPERTIES NoticeShown
