SPECIFICATION Spec
CONSTANTS
  me = me
  u1 = u1
  u2 = u2
  Me = me
  Users = {u1, u2}
  Channels = {"x"}
  Watched = "x"
  Nicks = {"nick", "a", "b", "c"}
  Home <- MCHome
  Hosts = {"h1", "h2"}
  FirstHost = "h1"
  Accounts = {"acc"}
  Keys = {"k"}
  Absent = Absent
  Nothing = Nothing
  MaxWire = 3
  MaxChanges = 5
INVARIANT AccountsTrue
PROPERTY Follows
CHECK_DEADLOCK FALSE
