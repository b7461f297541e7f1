SPECIFICATION MCSpec
CONSTANTS
  d1 = d1 d2 = d2 r1 = r1 r2 = r2 n1 = n1 u1 = u1 u2 = u2 t1 = t1 t2 = t2
  f1 = f1 a = a b = b c = c up1 = up1 up2 = up2 g1 = g1 g2 = g2 x1 = x1 x2 = x2 x3 = x3
  None = None Unborn = Unborn Gone = Gone Hole = Hole Absent = Absent
  Devices = {d1, d2}
  Requests = {r1, r2}
  Routes <- MCRoutes
  MaxConnections = 3
  Notes = {n1}
  UserIds = {u1, u2}
  Tokens = {t1, t2}
  Names = {f1}
  Blocks = {a, b, c}
  Images <- MCImages
  Uploads = {up1, up2}
  Downloads = {g1, g2}
  Records = {x1, x2, x3}
  MaxLimit = 2
  MaxPage = 3
INVARIANTS SessionTypeOK SteadyConnectionDelivers SwitchesSerialise NoteTypeOK PushedTokenWasHeld FirmwareTypeOK AnswerIsTrue DownloadMatchesAnswer ListingTypeOK NothingSkipped ListingIsExact
PROPERTIES RequestsAnswered SubscribedAgain RecordedDespitePush StoreSpec
CHECK_DEADLOCK FALSE
