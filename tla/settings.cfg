\* Two edits by anybody, two starts, a private and a bundled strategy.
CONSTANTS
  Private = {mine}
  Shared = {bundled}
  Default = bundled
  Calls <- MCCalls
  Market = FALSE
  Explicit = FALSE
  TwoFiles = FALSE
  MaxEdits = 2
  MaxBoots = 2
SPECIFICATION Spec
INVARIANTS SettingsAreKept AgentGoesOn
PROPERTY IdentityStays
