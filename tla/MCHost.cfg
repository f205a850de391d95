SPECIFICATION Spec
CONSTANTS
  Processes = {p1, p2}
  Servers = {p1, p2}
  Secrets = {s1, s2, s3}
  Configured = Configured
  Absent = Absent
  Empty = Empty
  NoSecret = NoSecret
  Audits = {a1, a2}
  Urls = {u1, u2}
  NoUrl = NoUrl
  NoCard = NoCard
  Blank = Blank
  Garbled = Garbled
  Formats = {xlsx, docx}
  Names = {name}
  BaseName <- MCBaseName
  FormatsOf <- MCFormatsOf
  ProcessOf <- MCProcessOf
  Environments <- MCEnvironments
  MaxStarts = 3
  p1 = p1
  p2 = p2
  a1 = a1
  a2 = a2
  xlsx = xlsx
  docx = docx
  name = name
SYMMETRY MCSymmetry
CONSTRAINT MCSecretsAlone
INVARIANTS TypeOK CookieSurvives SourceToldIfSame OwnUnlessDisturbed
CHECK_DEADLOCK FALSE
