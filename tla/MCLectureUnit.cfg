SPECIFICATION Spec
CONSTANTS
  i1 = i1
  i2 = i2
  r1 = r1
  v1 = v1
  v2 = v2
  d1 = d1
  nobody = nobody
  old = old
  new = new
  Nobody = nobody
  LastPage = 2
  Versions = {1, 2}
  Ingestions = {i1, i2}
  Renames = {r1}
  Visibilities = {v1, v2}
  Deletions = {d1}
  NameOf <- Renamed
  Uploads <- SomeUploads
  Hidings <- SomeHidings
  MaxJobs = 3
  VersionBefore = 1
  HiddenBefore = {1}
  DefaultLimit = 2
  MaxFailures = 2
INVARIANT TypeOK
INVARIANT ReleasedStaysHidden
PROPERTY RenameKept
PROPERTY FinishedHasPages
PROPERTY RunsEnd
