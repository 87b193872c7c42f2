\* The address against two subscriber servers, two failures; the file system; the log; each by itself.
SPECIFICATION StationSpec
CONSTANTS
  ANZ_TEILNEHMER_SERVER = 2
  TeilnehmerServerFehlerZaehlerGrenze = 2
  DiErneuernAb = 1
  DiAufgebenAb = 2
  DiGeheimzahlGrenze = 1
  DiMaxIP = 2
  DiMaxEreignisse = 2
  DiMaxFragen = 1
  Teile = {"Adresse", "Datei", "Protokoll"}
  FsAnzahl = 2
  FsEinheiten = 2
  FsPlaetze = 5
  FsLang = 1
  FsNamen = {1, 2, 3}
  FsStellen = {0, 2, 3}
  FsMengen = {1, 3}
  FsMaxRufe = 4
  FsMaxAusfaelle = 1
  PrMaxPuffer = 2
  PrMaxDatei = 3
  PrMaxMeldungen = 3
  PrMaxMinuten = 3
  PrMaxRufe = 2
INVARIANTS LaeuftMitSocket DateienGanz NichtsVerloren ProtokollFolge
PROPERTIES AdresseWirdBekannt SelbstAnrufEndet
CHECK_DEADLOCK FALSE
