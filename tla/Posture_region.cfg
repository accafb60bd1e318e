SPECIFICATION Spec
CONSTANTS
  Resources <- MCResources
  RegionOrder <- MCRegionOrder
  KindOf <- MCKindOf
  HomeOf <- MCHomeOf
  LinksOf <- MCLinksOf
  Label <- MCLabel
  OpenGroups = {"sg1", "sg2"}
  Facing = {"svc1", "lb1", "lb2"}
  Listening = {"lb1", "lb2"}
  Exempt <- MCExempt
  Trusts <- MCTrusts
  Grants <- MCGrants
  Outsiders <- MCOutsiders
  Scenarios <- MCScenarios
  AccountOf <- MCAccountOf
  Registered = {"000", "111"}
  Self = "000"
  TextOf <- MCTextOf
INVARIANT RegionVerdictKept
