\* Clients of the servers, the data path and the converter, each by itself; all come to their bounds.
SPECIFICATION WegeSpec
CONSTANTS
  s1 = s1
  s2 = s2
  n1 = n1
  n2 = n2
  Server = {s1, s2}
  Nummer = {n1, n2}
  Lokale <- MCLokale
  AnzTlnServKanaele = 2
  Keiner = Keiner
  Befragte = {s1}
  Verkuerzt = FALSE
  Ueberfaellig = FALSE
  MaxZeit = 1
  MaxAenderungen = 1
  MaxStoerungen = 0
  MaxNeustarts = 0
  MaxFremd = 1
  Teile = {"Server", "Weg", "Umsetzer"}
  ZwLagen <- MCLagen
  ZwMaxPuffer = 3
  ZwBlock = 2
  ZwOutMax = 7
  ZwUmlauf = 8
  ZwMaxNetz = 1
  SerUmTicksProBit = 9
  SerUmTicksProStopBit = 13
  UmVerzug = 3
  UmCodes = {0, 21}
  UmMaxZeichen <- MCUmZeichen
  UmBeschleunigen = {TRUE, FALSE}
INVARIANTS WegeTyp ZeichenFolge QuittungStimmt UmsetzerTreu
PROPERTIES NurNeuere
CHECK_DEADLOCK FALSE
