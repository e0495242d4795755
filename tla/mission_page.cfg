SPECIFICATION PageSpec
CONSTANTS
  Files = {f1, f2}
  Tabs = {t1, t2}
  p1 = p1
  p2 = p2
  p3 = p3
  aerial = aerial
  nadir = nadir
  BlankId = BlankId
  SurveyFiles <- Surveys
  MarkSelections <- Selections
  Bundles <- PossibleBundles
  Photos <- MissionPhotos
  Presets = {"STANDARD", "DRAFT"}
  MaxLaunches = 1
SYMMETRY Symmetry
CONSTRAINT FewReads
INVARIANTS
  UploadsAreRemembered
  CorrectionIsGrounded
