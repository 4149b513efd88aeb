SPECIFICATION Spec
CONSTANTS
  app1 = app1
  app2 = app2
  s1 = s1
  s2 = s2
  s3 = s3
  Callers <- MCOneCaller
  Addresses <- MCAddresses
  Patterns <- MCPatterns
  Meta <- MCMeta
  MaxAdds = 3
  MaxSessions = 2
PROPERTIES
  KeptWhenRemoteCallFails
