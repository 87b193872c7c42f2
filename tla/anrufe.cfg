\* Two stations: b is dialled, a and b call; any terminal, ten minutes of silence.
SPECIFICATION Spec
CONSTANTS
  a = a
  b = b
  MAX_TCP_CONNECTIONS = 2
  Gegenstellen = {a, b}
  Verzeichnis = {b}
  Telegramme = {"Kopf", "Rest", "Ascii"}
  MaxRx = 1
  MaxAnrufe = 2
  MaxTele = 1
  Niemand = Niemand
  Lokal = Lokal
  SocketInBufMax = 2
  SocketOutBufMax = 1
  MaxPuffer = 1
  FehlerGrenze = 1
  LangeDienstmeldungen = FALSE
  Funkstille = TRUE
  BusAusfall = FALSE
  GeraetKorrekt = FALSE
  TextBeimWaehlen = FALSE
  TWIHandshakeNeu = FALSE
  Neuvergabe = FALSE
INVARIANTS NurDieserAnruf LeitungFrei SocketDesPartners
PROPERTIES PartnerBleibt
