\* One session, sending or fetching, one loss or failure of the bus; the typing and the session come to an end.
SPECIFICATION ElFairSpec
CONSTANTS
  ElInMax = 3
  ElDruckMax = 2
  ElMails <- MCMails
  ElText <- MCText
  ElMaxSitzungen = 1
  ElMaxStoerungen = 1
  ElZerrissen = FALSE
INVARIANTS GeloeschtNurGelesen AngenommenIstAnfang
PROPERTIES ElSitzungEndet
CHECK_DEADLOCK FALSE
