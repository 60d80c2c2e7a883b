SPECIFICATION Spec
CONSTANTS
  MaxBackups = 1
  MaxAsked = 1
INVARIANTS TypeOK FreshPreview CompletedIsReal
PROPERTIES OffersWhatIsNeeded LadderLands CeSetUpLicensed
CHECK_DEADLOCK FALSE
