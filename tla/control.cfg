\* A browser and the terminal that send and hand control to each other,
\* structured control in both modes, one failed acquisition.
SPECIFICATION Spec
CONSTANTS
  w = w  t = t
  Clients = {w, t}
  Holder <- BrowserAndTerminal
  Shared = t
  Modes = {"tui", "headless"}
  Structured = {"tui", "headless"}
  IdleGuard = {"tui", "headless"}
  Planners = {w}
  Senders = {w, t}
  MaxAsks = 1
  MaxLeases = 2
  MaxRuntimes = 2
  MaxFailures = 1
CONSTRAINT SendsOrReplacements
INVARIANTS PaneMatchesController DeliveredByController
PROPERTIES InterruptedOnlyByConsent
