SPECIFICATION Spec
CONSTANTS
  None = None
  base = base
  dual = dual
  first = first
  odd = odd
  bare = bare
  mdoc = mdoc
  g = g
  name = name
  age = age
  whole = whole
  status = status
  Credential <- MCCredential
  SuitesOf <- MCSuitesOf
  VersionOf <- MCVersionOf
  GroupName = {g}
  Path = {name, age, whole, status}
  SubjectPath = {name, age, whole}
  WholeSubject = whole
  JsonLd = {base, dual, first, odd, bare}
  Requests <- MCRequests
  Selections <- MCSelections
  Consents <- MCConsents
CHECK_DEADLOCK FALSE
INVARIANTS
  TypeOK
  DisclosesOnlyConsented
  RequiredIsDisclosed
  DerivedKeepsSubject
  NeverWidens
  CredentialNotEclipsed
  ScreenOmitsOnlySubject
