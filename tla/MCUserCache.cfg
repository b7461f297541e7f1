SPECIFICATION FairSpec
CONSTANTS
  n1 = n1 n2 = n2 p1 = p1 p2 = p2 r1 = r1 r2 = r2 l1 = l1
  changePass = changePass changeName = changeName changeBack = changeBack
  Names = {n1, n2}
  Passwords = {p1, p2}
  Requests = {r1}
  Logins = {l1}
  Updates = {changePass, changeName, changeBack}
  None = None
  Gone = Gone
  FirstUser <- MCFirstUser
  NameOf <- MCNameOf
  PasswordOf <- MCPasswordOf
INVARIANTS TypeOK CachedPasswordExplained
PROPERTIES VerdictsSettle
