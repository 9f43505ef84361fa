SPECIFICATION Spec
CONSTANTS
  None = None
  Pages = {p1, p2}
  Workers = {w1}
  Lines = {first}
  Statuses = {paid, unpaid}
  MaxEdits = 1
PROPERTIES
  RequestsEnd
