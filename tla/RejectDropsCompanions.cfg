SPECIFICATION Spec
CONSTANTS
  None = None
  e1 = e1
  e2 = e2
  h1 = h1
  h2 = h2
  c1 = c1
  c2 = c2
  good = good
  twin = twin
  rival = rival
  plain = plain
  forged = forged
  enveloped = enveloped
  bbs = bbs
  Host = {h1, h2}
  HostOf <- MCHostOf
  Credential <- MCCredential
  Enveloped = {enveloped}
  SuitesOf <- MCSuitesOf
  ProofHolds = {good, twin, rival, plain, enveloped, bbs}
  Char <- MCChar
  Newline <- MCNewline
  IssuerOf <- MCIssuerOf
  IdOf <- MCIdOf
  ContentOf <- MCContentOf
  Exchange = {e1, e2}
  Call = {c1}
  ReplyShapes <- SequentialShapes
  MaxReplies = 2
  Cancellable = FALSE
INVARIANTS
  CompanionsSurvive
