CONSTANTS
  p1 = p1
  p2 = p2
  p3 = p3
  u1 = u1
  u2 = u2
  w1 = w1
  w2 = w2
  NoProject = NoProject
  Projects = {p1, p2}
  Users = {u1}
  Workers = {w1, w2}
  Plans = {"FREE", "PRO"}
  Limit = 1
  MaxEntries = 1
  c1 = c1
  d1 = d1
  d2 = d2
  l1 = l1
  s1 = s1
  Picks = {d1, d2}
  Lines = {l1}
  MaxMade = 2
  BuiltIn = {c1}
  Smart = {s1}
  Queries = {"", "q"}
  NoQuery = ""
  NoSection = NoSection
  Groups = Groups
  MaxAsked = 2
SPECIFICATION MCSpec
SYMMETRY Symmetry
INVARIANTS
  ProjectsSound
  PickerSound
PROPERTIES
  RequestsKeepPromises
  ImportMakesEach
