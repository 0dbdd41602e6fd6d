---------------------------- MODULE MCFrontDoor -----------------------------
(* Small instances of FrontDoor.                                           *)
EXTENDS FrontDoor, TLC

\* Every kind of host, in every spelling and with every port.
TypedAddresses == Addresses

\* A page of another site.
ForeignPages == [scheme : {"https"}, kind : {"v4"}, form : {"plain"},
                 port : {"8443"}, extra : {FALSE}]

TokenSymmetry == Permutations(Requests) \cup Permutations(Attachments)
=============================================================================
