\* The socket of the busy signal; send errors in an accepted call.
SPECIFICATION FairBlind
CONSTANTS
  a = a
  MAX_TCP_CONNECTIONS = 2
  Gegenstellen = {a}
  Verzeichnis = {}
  Telegramme = {"Quitt", "Ende"}
  MaxRx = 1
  MaxAnrufe = 2
  MaxTele = 1
  Niemand = Niemand
  Lokal = Lokal
  SocketInBufMax = 1
  SocketOutBufMax = 1
  MaxPuffer = 1
  FehlerGrenze = 2
  LangeDienstmeldungen = FALSE
  Funkstille = FALSE
  BusAusfall = TRUE
  GeraetKorrekt = FALSE
  TextBeimWaehlen = TRUE
  TWIHandshakeNeu = FALSE
  Neuvergabe = FALSE
INVARIANTS FehlerWirdGeheilt
PROPERTIES BlindSocketFrei
