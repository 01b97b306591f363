SPECIFICATION Spec
CONSTANTS
  CommandLines <- Typed
  Environments <- Exported
  Names <- Named
  EnvToken <- Token
  Fields <- Settings
  BuiltIn <- KindDefaults
  BadSegments <- Bad
  None = None
INVARIANTS TypeOK RoutesApart CredentialsReachTheirMount
CHECK_DEADLOCK FALSE
