SPECIFICATION Spec
CONSTANTS
  Self = "111"
  PrincipalOrder <- MCPrincipals
  RoleOrder <- MCRoles
  ResourceOrder <- MCResources
  ActionsOf <- MCActionsOf
  Aliases <- MCAliases
  Sources = {"live", "terraform"}
  Accounts <- MCAccounts
INVARIANTS TypeOK AssumeEdgesExact OutsidersExposed NoPhantomOutsider AccessEdgesExact CriticalIsUngated
CHECK_DEADLOCK FALSE
