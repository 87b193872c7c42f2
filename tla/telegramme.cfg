\* One caller or dialled partner, every kind of telegram.
SPECIFICATION Spec
CONSTANTS
  a = a
  MAX_TCP_CONNECTIONS = 2
  Gegenstellen = {a}
  Verzeichnis = {a}
  Telegramme = {"Null", "Durchwahl", "Kopf", "Rest", "Ende", "Quitt", "Version", "Ascii"}
  MaxRx = 1
  MaxAnrufe = 1
  MaxTele = 2
  Niemand = Niemand
  Lokal = Lokal
  SocketInBufMax = 2
  SocketOutBufMax = 2
  MaxPuffer = 1
  FehlerGrenze = 2
  LangeDienstmeldungen = TRUE
  Funkstille = FALSE
  BusAusfall = TRUE
  GeraetKorrekt = FALSE
  TextBeimWaehlen = TRUE
  TWIHandshakeNeu = FALSE
  Neuvergabe = FALSE
INVARIANTS  VerbundenMitPartner GeraetAus
PROPERTIES ImplementiertLeitung
