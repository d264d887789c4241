SPECIFICATION FairSpec
CONSTANTS
  p1 = p1
  p2 = p2
  p3 = p3
  home1 = home1
  home2 = home2
  Procs = {p1, p2, p3}
  HomeWallet <- ThreeUsers
  NoWallet = NoWallet
  WithAddress = {home1, home2}
  Files = {f1, f2}
  MaxFaults = 3
  Nobody = Nobody
INVARIANTS
  StartupInv
  OneServer
PROPERTIES
  UploadsKept
  DirectorySpec
  ServesAgain
