SPECIFICATION AuthSpec
CONSTANTS
  Token = {t1, t2, t3}
  Thread = {g1, g2}
  NoAgent = NoAgent
  TTL = 2
  Slack = 1
SYMMETRY Symmetry
PROPERTIES
  OldTokenStops
