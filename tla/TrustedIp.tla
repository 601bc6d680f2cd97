------------------------------ MODULE TrustedIp ------------------------------
(***************************************************************************)
(* resolve_trusted_ip of src/request.rs: the client's address behind       *)
(* trusted proxies.  An address is a model value, "junk" an entry of       *)
(* X-Forwarded-For that does not parse; the ranges of --trust-proxy are    *)
(* the set of addresses they contain.                                      *)
(***************************************************************************)
EXTENDS Naturals, Sequences, SequencesExt

None == "none"           \* a Unix socket's peer; no answer
Junk == "junk"
NoHeader == <<"none">>
NotText == <<"nottext">> \* a header that is not visible ASCII

BadScanRight(trusted, entry, st) ==   \* an entry that does not parse ends the scan
  IF st.found THEN st
  ELSE [ip |-> IF entry = Junk THEN st.ip ELSE entry, found |-> entry = Junk \/ entry \notin trusted]

(* One entry of the loop over the header from right to left *)
ScanRight(trusted, entry, st) ==
  IF st.found \/ entry = Junk THEN st
  ELSE [ip |-> entry, found |-> entry \notin trusted]

(* The loop: st[k] is what it holds after the k entries furthest to the right *)
ScanHeader(xff, remote, trusted) ==
  LET st[k \in 0..Len(xff)] ==
        IF k = 0 THEN [ip |-> remote, found |-> FALSE]
        ELSE ScanRight(trusted, xff[Len(xff) + 1 - k], st[k - 1])
  IN  st[Len(xff)].ip

(* `proxies`: some --trust-proxy is given; `trusted`: what they contain *)
ResolveTrustedIp(xff, remote, proxies, trusted) ==
  IF ~proxies \/ (remote # None /\ remote \notin trusted) THEN remote
  ELSE IF xff = NotText THEN None
  ELSE IF xff = NoHeader THEN remote
  ELSE ScanHeader(xff, remote, trusted)

-----------------------------------------------------------------------------
(* By position: the entries that parse, those no trusted proxy has, and the
   client, which is the one of them furthest to the right. *)
Valid(xff) == {i \in 1..Len(xff) : xff[i] # Junk}
Untrusted(xff, trusted) == {i \in Valid(xff) : xff[i] \notin trusted}
ClientOf(xff, trusted) ==
  xff[CHOOSE i \in Untrusted(xff, trusted) : \A j \in Untrusted(xff, trusted) : j <= i]
=============================================================================
