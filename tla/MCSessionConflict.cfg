\* Two tabs that refresh one login at the same time.
CONSTANTS
  Families = {1}
  Tabs = {t1, t2}
  MaxExchanges = 2
  NoToken = NoToken
SPECIFICATION SessionSpec
PROPERTY ConflictLeavesCookie
