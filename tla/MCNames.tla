------------------------------- MODULE MCNames -------------------------------
(***************************************************************************)
(* Model-checking instance of NginxHttpContext.  Namespaces are DNS-1123  *)
(* labels and names DNS-1123 subdomains (metadata.name of a custom        *)
(* resource), so both may contain '-' and names may contain '.'; upstream *)
(* names are DNS-1035 labels.  "vsr" is a legal upstream name that also   *)
(* appears inside the VSR namer.                                           *)
(***************************************************************************)
EXTENDS NginxHttpContext

Id(ns, name) == [namespace |-> Txt(ns), name |-> Txt(name)]

MCVirtualServers == {Id(ns, name) : ns \in {"a", "a-b"}, name \in {"c", "b-c", "c.d"}}

MCVirtualServerRoutes == {Id("a", "r"), Id("a-b", "r")}

MCUpstreamIds == {Txt("u"), Txt("vsr")}

\* Two VirtualServers whose safe names coincide, and a name with a '.'.
PlainVirtualServers == {Id("a-b", "c"), Id("a", "b-c")}
DottedVirtualServers == {Id("a", "c.d")}
MixedVirtualServers == PlainVirtualServers \cup DottedVirtualServers

=============================================================================
