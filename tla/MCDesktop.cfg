SPECIFICATION Spec
CONSTANTS
  Values <- MCValues
  Legacy <- MCLegacy
  Default <- MCDefault
  MaxVersion = 2
  Ids = {1, 2}
  Limits = {1, 2}
  Days = {1}
  Forever = Forever
  MaxDay = 2
  Combinations = {c1}
  Modifiers = {m1, m2}
  NoShortcut = NoShortcut
  Engines = {e1, e2}
  Directories = {e1}
  NoEngine = NoEngine
  Variants <- MCVariants
  MaxPackages = 1
  MaxSessions = 3
  Requests = {1, 2}
  Notices = {n1, n2}
  NoNotice = NoNotice
  MaxEntries = 3
  Pages = {"history", "shortcut", "choices", "engine", "worker", "hud", "notice", "start"}
  MaxDeaths = 1
CHECK_DEADLOCK FALSE
SYMMETRY Symmetry
INVARIANTS EffectsFollowSettings InFlightIsWhole NothingIsLost PanelFollowsSession NoticeActsOnce
PROPERTIES HistoryIsStillAfterExit SessionIsSettled
