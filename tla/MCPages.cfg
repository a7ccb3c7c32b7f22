SPECIFICATION PagesSpec
CONSTANTS
  t1 = t1
  t2 = t2
  demo = demo
  mine = mine
  Tab = {t1, t2}
  Code = {"", demo, mine}
  Empty = ""
  DefaultSource = demo
  None = None
  Key <- MCKey
  Value <- MCValue
  Default <- MCDefault
  Field <- MCField
  Token = "settingsGithubToken"
  NoToken = ""
SYMMETRY Symmetry
INVARIANTS
  SettingsKept
PROPERTIES
  BackAndForth
  StillThere
