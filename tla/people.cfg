SPECIFICATION AllSpec
CONSTANTS
  Three = {x1, x2, x3}
  Two = {y1, y2}
  Sessions = {c1, c2}
  Groups = {g1}
  Types = {t1}
  Meetings = {m1}
  Handouts = {h1}
  Ministries = {n1}
  Registered = {q1}
  MaxVisits = 3
  Phones = {"a"}
  MaxScans = 4
  MaxAnswers = 3
  Materials = {e1}
  Logo = logo
  Processes = {s1}
  MaxDay = 1
  MaxFaults = 1
  Cats = {k1, k2}
  SystemCats = {k1}
  Rows = {r1}
  Now = 45
  MonthStart = 31
  MonthLength = 30
SYMMETRY Symmetry
INVARIANTS
  
  RegistrationsCohere
  GroupsCohere
  
  
  MaterialsCohere
  
CHECK_DEADLOCK FALSE
