\* The directory and the byte stream, each by itself; both may come to their bounds.
SPECIFICATION DienstSpec
CONSTANTS
  Dienste = {"Buch", "Strom"}
  TbFassung <- MCFassung
  TlnBuchMemMax = 5
  TbMaxZeit = 1
  TbMaxAenderungen = 2
  MAX_RECIVEBUFFER_LENGHT = 3
  MAX_TCP_Datalenght = 2
  MAX_TCP_RETRANSMISSIONS = 3
  StAbsender = {"tcp", "fremd"}
  StTelegramme = {1, 2, 3}
  StSegmente = {1}
  StLesen = {1, 2}
  StMaxBytes = 4
INVARIANTS EindeutigUndPassend ListeVollstaendig SummeStimmt SicherungGanz RingPasst StromTreu ErfolgHeisstDa
CHECK_DEADLOCK FALSE
