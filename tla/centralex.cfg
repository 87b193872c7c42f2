\* The Centralex client, the line and a server.
SPECIFICATION FairSpec
CONSTANTS
  y = y
  z = z
  MAX_TCP_CONNECTIONS = 2
  Gegenstellen = {y, z}
  Telegramme = {"Null", "Confirm", "Call", "Ende", "Version"}
  MaxRx = 1
  MaxAnrufe = 2
  MaxTele = 2
  Niemand = Niemand
  Neuvergabe = FALSE
  Zentralen = {z}
  Selbst = Selbst
  CxBufMax = 2
  FalschGrenze = 1
  Protokolliert = TRUE
INVARIANTS CxTyp LinkMitSocket EinBesitzer
PROPERTIES AnmeldungEndet
