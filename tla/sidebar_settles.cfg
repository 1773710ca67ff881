SPECIFICATION FairSpec
CONSTANTS
  Order <- MCOrder
  First = {"web"}
  States = {"idle", "running"}
  MaxGen = 1
PROPERTIES SidebarSettles
