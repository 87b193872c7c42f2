\* A lost connection, within a block of data too; printing what is left.
SPECIFICATION FairVerlust
CONSTANTS
  a = a
  MAX_TCP_CONNECTIONS = 1
  Gegenstellen = {a}
  Verzeichnis = {a}
  Telegramme = {"Kopf", "Rest"}
  MaxRx = 1
  MaxAnrufe = 2
  MaxTele = 2
  Niemand = Niemand
  Lokal = Lokal
  SocketInBufMax = 2
  SocketOutBufMax = 1
  MaxPuffer = 1
  FehlerGrenze = 1
  LangeDienstmeldungen = FALSE
  Funkstille = TRUE
  BusAusfall = FALSE
  GeraetKorrekt = TRUE
  TextBeimWaehlen = TRUE
  TWIHandshakeNeu = TRUE
  Neuvergabe = FALSE
PROPERTIES VerlustEndet RestdruckEndet
