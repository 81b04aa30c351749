CONSTANTS
  Clients = {c1, c2}
  ConfValues = {"on", "other"}
  MaxCommands = 2
  MaxCrashes = 2
SPECIFICATION Spec
SYMMETRY Alike
INVARIANTS TypeOK SettingsKept TicosdInStep CollectdInStep DisabledIsSilent
