SPECIFICATION Spec
CONSTANTS
  Unknown = Unknown
  Frame <- MCFrame
  Catalog <- MCCatalog
  Missions <- MCMissions
  Designs <- MCDesigns
  ClaimEntries <- MCClaimEntries
  ProviderOps <- MCProviderOps
  MAX_DISPLAYED = 3
  MAX_CONFIRMS = 2
  MAX_FOREIGN = 1
INVARIANTS CgCardCentres AcceptedIsFeasible ReadyIsDisplayed
PROPERTIES AcceptTouchesOwned DialogueEnds
