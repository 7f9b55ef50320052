SPECIFICATION SpecIntake
CONSTANTS
  Creator = {w1, w2}
  MaxCases = 5
  Client = {remote, local}
  TrustedHost = {local}
  Limit = 2
  Window = 2
INVARIANTS
  NumbersGapless
  WindowSlides
PROPERTIES
  KeepsPromise
  AnswersEveryCall
  EventuallyAdmissible
