SPECIFICATION Spec
CONSTANTS
  Self = "111"
  PrincipalOrder <- MCPrincipals
  RoleOrder <- MCRoles
  ResourceOrder <- MCResources
  ActionsOf <- MCActionsOf
  Aliases <- MCAliases
  Sources = {"live", "terraform"}
  Accounts <- MCAccounts
INVARIANT DeniedTrustGrantsNothing
CHECK_DEADLOCK FALSE
