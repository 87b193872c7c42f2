\* Every release of the line ends at rest.
SPECIFICATION FairAbbau
CONSTANTS
  a = a
  MAX_TCP_CONNECTIONS = 2
  Gegenstellen = {a}
  Verzeichnis = {a}
  Telegramme = {"Quitt", "Ende"}
  MaxRx = 1
  MaxAnrufe = 1
  MaxTele = 2
  Niemand = Niemand
  Lokal = Lokal
  SocketInBufMax = 1
  SocketOutBufMax = 1
  MaxPuffer = 1
  FehlerGrenze = 2
  LangeDienstmeldungen = FALSE
  Funkstille = FALSE
  BusAusfall = TRUE
  GeraetKorrekt = TRUE
  TextBeimWaehlen = TRUE
  TWIHandshakeNeu = FALSE
  Neuvergabe = FALSE
PROPERTIES GrundstellungErreicht
