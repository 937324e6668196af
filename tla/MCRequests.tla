----------------------------- MODULE MCRequests -----------------------------
(* Requests for TLC. *)
EXTENDS Requests

\* One package without a scope, two of a scope, one of them of the same name.
SomePackages == {<<"a">>, <<"@s", "a">>, <<"@s", "b">>}

FirstLetter(segment) == IF segment = "@s" THEN "@" ELSE segment

Version(major, minor) == [major |-> major, minor |-> minor, pre |-> FALSE]

\* Several of one major version, numbers of one and of two digits, a prerelease
\* of a version that is there.
SomeVersions ==
  {Version(1, 2), Version(1, 9), Version(1, 10), Version(2, 1), Version(10, 0),
   [Version(1, 2) EXCEPT !.pre = TRUE]}

=============================================================================
