--------------------------- MODULE MCGuestMounts ---------------------------
EXTENDS GuestMounts

MCPaths == {"/", "/boot", "/boot/efi", "/home", "/srv"}
MCUnder == {<<"/", p>> : p \in MCPaths \ {"/"}} \cup {<<"/boot", "/boot/efi">>}
MCLength == [p \in MCPaths |-> CASE p = "/" -> 1 [] p = "/srv" -> 4 [] p = "/boot/efi" -> 9 [] OTHER -> 5]
MCDepth == [p \in MCPaths |-> CASE p = "/" -> 0 [] p = "/boot/efi" -> 2 [] OTHER -> 1]

\* p1 is a boot or data partition, p3 the ESP.  The second fstab mounts one
\* device twice; the last names a mount point and the root device twice.
MCFstabs == {<< >>,
             << Entry("p1", "/home"), Entry("p1", "/srv") >>,
             << Entry("root", "/"), Entry("p3", "/boot/efi"), Entry("p1", "/boot") >>,
             << Entry("root", "/home"), Entry("p1", "/boot"), Entry("p3", "/boot"), Entry("p3", "/home") >>}
=============================================================================
