\* Three packages with a tarball each; every path of up to four of seven segments;
\* every document with some of six versions, every kind of request for one.
CONSTANTS
  Packages <- SomePackages
  Scopes = {"@s"}
  Tarballs = {"t"}
  Label = "label"
  Dotted = {".."}
  Letter <- FirstLetter
  Versions <- SomeVersions
  NoVersion = NoVersion
SPECIFICATION Spec
INVARIANTS
  DiskIsKept
  RequestsFindTheirs
  MajorAtLeast
  NewestOfMajor
