CONSTANTS
  File <- MCFile
  Roots <- MCRoots
  BaseDirs <- MCBaseDirs
  Name <- MCName
  EnvVar <- MCEnvVar
  Env <- MCEnv
  MaxStatements = 3
SPECIFICATION FairSpec
INVARIANTS TypeOK BaseDirFollowsStack AttributesOwn PathParsedOnce UnexpectedErrorIsReal
PROPERTY Terminates
