\* tcp.c gives an entry away while a handle refers to it.
SPECIFICATION Spec
CONSTANTS
  a = a
  b = b
  MAX_TCP_CONNECTIONS = 2
  Gegenstellen = {a, b}
  Verzeichnis = {}
  Telegramme = {"Quitt", "Ende"}
  MaxRx = 2
  MaxAnrufe = 2
  MaxTele = 1
  Niemand = Niemand
  Lokal = Lokal
  SocketInBufMax = 2
  SocketOutBufMax = 2
  MaxPuffer = 1
  FehlerGrenze = 2
  LangeDienstmeldungen = FALSE
  Funkstille = FALSE
  BusAusfall = FALSE
  GeraetKorrekt = TRUE
  TextBeimWaehlen = TRUE
  TWIHandshakeNeu = FALSE
  Neuvergabe = TRUE
INVARIANTS SocketDesPartners
