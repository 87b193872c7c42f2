\* Two subscriber servers: one change and one loss or restart; one change and a station that calls; two telegrams of stations.
SPECIFICATION LagenSpec
CONSTANTS
  s1 = s1
  s2 = s2
  n1 = n1
  n2 = n2
  Server = {s1, s2}
  Nummer = {n1}
  Lokale = {}
  AnzTlnServKanaele = 2
  Keiner = Keiner
  Befragte = {s1}
  Verkuerzt = FALSE
  Ueberfaellig = FALSE
  MaxZeit = 2
  MaxAenderungen = 1
  MaxStoerungen = 1
  MaxNeustarts = 1
  MaxFremd = 2
INVARIANTS NichtsVergessen
PROPERTIES Konvergenz
