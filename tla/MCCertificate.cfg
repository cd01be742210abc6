CONSTANTS
  a = a
  aHash = aHash
  b = b
  h = h
  c1 = c1
  c2 = c2
  Tabs = {t1, t2}
  Platforms = {"linux", "windows"}
  Raws <- MCRaws
  URLs <- MCURLs
  NoURL = NoURL
  CertificateURL <- MCCertificateURL
  HostOf <- MCHostOf
  Certs = {c1, c2, c3}
  NoCert = NoCert
  Revoked = {c3}
  MaxTokens = 2
  MaxLoads = 3
  MaxClicks = 2
  MaxEvals = 1
SYMMETRY Symmetric
SPECIFICATION Spec
INVARIANTS RevokedStayBlocked IInv
PROPERTY ConsentIsBound
CHECK_DEADLOCK FALSE
