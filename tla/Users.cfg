SPECIFICATION Spec
CONSTANTS
  People = {ann, bob}
  Emails = {e1, e2, e3}
  AdminLists = {{}, {e1}}
  None = None
INVARIANT OneRowEach
PROPERTY AdminRemains
