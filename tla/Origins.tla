------------------------------ MODULE Origins -------------------------------
(***************************************************************************)
(* The public origin of config.go: which spellings of it the server takes, *)
(* and what a browser makes of the same address.                           *)
(*                                                                         *)
(* An address is a record of what the checks tell apart.  A host has a     *)
(* kind and a form.  The form is "plain" where this is how the host is     *)
(* written, and "other" for another spelling of the same host: capitals,   *)
(* an IPv6 address with extra zeroes.  Go writes an IPv4 address inside    *)
(* IPv6 ("mapped") "dotted", a browser "hex".                              *)
(*                                                                         *)
(* Three kinds of host look like names: "dns" is one; "numeral" is one to  *)
(* Go and an IPv4 address to a browser, which rewrites it, like 0x7f.1;    *)
(* "unopenable" is one to Go and an error to a browser, like example.7,    *)
(* whose last label is a number that does not make an address.             *)
(***************************************************************************)

HostKinds == {"dns", "numeral", "unopenable", "v4", "v6", "mapped", "scoped", "invalid"}
Forms     == {"plain", "other", "dotted", "hex"}

\* What stands after the host: nothing, a colon alone, or a port.
Ports == {"none", "colon", "443", "8443", "08443", "0", "65536"}

\* "extra" says that there is a user, a path, a query, a fragment or a space.
Addresses == [scheme : {"https", "http"}, kind : HostKinds, form : Forms,
              port : Ports, extra : BOOLEAN]

\* validURLPort; 08443 passes here.
validURLPort(port) == port \notin {"colon", "0", "65536"}

\* The form canonicalPublicOrigin gives a host: netip.Addr.String for an
\* address, lower case for a name.
CanonicalForm(kind) == IF kind = "mapped" THEN "dotted" ELSE "plain"

\* canonicalPublicOrigin refuses a zone, a name that is none or whose labels are
\* all digits, the default port and leading zeroes.  A name with one other
\* character, which may be the x of a hexadecimal number, is let through.
HasCanonical(a) ==
    /\ a.kind \notin {"scoped", "invalid"}
    /\ a.port \notin {"443", "08443"}

canonicalPublicOrigin(a) == [a EXCEPT !.form = CanonicalForm(a.kind)]

\* Fault: the default port may be spelled out.
DefaultPortAllowed(a) ==
    /\ a.scheme = "https" /\ ~a.extra /\ validURLPort(a.port)
    /\ a.kind \notin {"scoped", "invalid"} /\ a.port # "08443"
    /\ a = canonicalPublicOrigin(a)

validatePublicOrigin(a) ==
    /\ a.scheme = "https" /\ ~a.extra /\ validURLPort(a.port)
    /\ HasCanonical(a)
    /\ a = canonicalPublicOrigin(a)

\* The URL Standard: a browser opens no URL with a scope, or with a host that it
\* cannot read.
Opens(a) ==
    /\ a.scheme = "https" /\ a.port # "65536"
    /\ a.kind \notin {"scoped", "invalid", "unopenable"}

\* What the browser writes into Host and Origin for an address that it opened,
\* without the path and the default port.
Serialized(a) ==
    [a EXCEPT !.kind = IF a.kind = "numeral" THEN "v4" ELSE a.kind,
              !.form = IF a.kind = "mapped" THEN "hex" ELSE "plain",
              !.port = CASE a.port \in {"none", "colon", "443"} -> "none"
                         [] a.port \in {"8443", "08443"} -> "8443"
                         [] OTHER -> a.port,
              !.extra = FALSE]
=============================================================================
