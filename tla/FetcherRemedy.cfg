SPECIFICATION RemedySpec
CONSTANTS
  Urls = {u1}
  Contents = {c1}
  Images = {c1}
  Jobs = {j1}
  Kinds = {"preload"}
  MaxInflight = 1
  MaxAssets = 2
  MaxMishaps = 0
  Disturb = {}
  None = None
PROPERTY MissRemediable
