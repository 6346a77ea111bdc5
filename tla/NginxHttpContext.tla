--------------------------- MODULE NginxHttpContext ---------------------------
(***************************************************************************)
(* The identifiers that the configurations of several VirtualServers      *)
(* define in the one NGINX http context they share.  The controller       *)
(* compiles each VirtualServer, with the VirtualServerRoutes delegated to  *)
(* it, into its own file included in http{}; upstream blocks and the      *)
(* variables of map and split_clients blocks are http-level names, so two *)
(* compiled VirtualServers must not define the same one.                  *)
(*                                                                         *)
(* A compiled VirtualServer is a record [vs, vsrs]: the identities         *)
(* [namespace, name] of the VS and of its VSRs, as character sequences.   *)
(* Every compile declares the upstreams UpstreamIds in the VS and in each  *)
(* VSR, and emits SplitClients split_clients blocks and MatchesRoutes      *)
(* matches routes of Matches matches with Conditions conditions each.     *)
(***************************************************************************)
EXTENDS NameAlgebra, FiniteSets

CONSTANTS
  VirtualServers,        \* identities of the VirtualServers of the cluster
  VirtualServerRoutes,   \* identities of the VirtualServerRoutes
  UpstreamIds,           \* Upstream.Name of every resource, as characters
  SplitClients,          \* split_clients blocks a compile emits
  MatchesRoutes,         \* matches routes a compile emits
  Matches,               \* matches per matches route
  Conditions             \* conditions per match

VARIABLES
  loaded,      \* the compiled VirtualServers whose files are in http{}
  upstreams    \* the upstream names defined in http{}

vars == <<loaded, upstreams>>

\* The upstream names one compile defines: the upstream loops of
\* GenerateVirtualServerConfig name each upstream with the namer of its owner.
UpstreamNamesOf(c) ==
  {GetNameForUpstream(newUpstreamNamerForVirtualServer(c.vs), u) : u \in UpstreamIds}
  \cup {GetNameForUpstream(newUpstreamNamerForVirtualServerRoute(c.vs, r), u)
          : r \in c.vsrs, u \in UpstreamIds}

\* The map and split_clients variables one compile defines, all with the
\* variable namer of the VirtualServer.
VariableNamesOf(c) ==
  LET safe == newVariableNamer(c.vs) IN
  {GetNameForSplitClientVariable(safe, i) : i \in 0..(SplitClients - 1)}
  \cup {GetNameForVariableForMatchesRouteMainMap(safe, m) : m \in 0..(MatchesRoutes - 1)}
  \cup {GetNameForVariableForMatchesRouteMap(safe, m, k, j)
          : m \in 0..(MatchesRoutes - 1), k \in 0..(Matches - 1), j \in 0..(Conditions - 1)}

LoadedVirtualServers == {c.vs : c \in loaded}
UsedRoutes == UNION {c.vsrs : c \in loaded}

Init ==
  /\ loaded = {}
  /\ upstreams = {}

\* The controller writes the configuration of VirtualServer vs, compiled
\* with the VSRs delegated to it.  A VSR has the host of the one VS that
\* delegates to it, and no two VirtualServers share a host.
Load(vs, vsrs) ==
  /\ vs \notin LoadedVirtualServers
  /\ vsrs \cap UsedRoutes = {}
  /\ loaded' = loaded \cup {[vs |-> vs, vsrs |-> vsrs]}
  /\ upstreams' = upstreams \cup UpstreamNamesOf([vs |-> vs, vsrs |-> vsrs])

\* The controller removes the file of a deleted VirtualServer.
Delete(c) ==
  /\ loaded' = loaded \ {c}
  /\ upstreams' = upstreams \ UpstreamNamesOf(c)

Next ==
  \/ \E vs \in VirtualServers, vsrs \in SUBSET VirtualServerRoutes : Load(vs, vsrs)
  \/ \E c \in loaded : Delete(c)

Spec == Init /\ [][Next]_vars

-----------------------------------------------------------------------------
(* Properties *)

\* UpstreamNamesUnique.  Loading a VirtualServer defines one new upstream
\* name for every upstream of the VS and of each of its VSRs: the
\* "vs_<ns>_<name>[_vsr_<ns>_<name>]_<upstream>" names never coincide,
\* neither within one compile nor with an upstream already defined by
\* another VirtualServer, whatever '-' and '.' the names contain.
UpstreamNamesUnique ==
  [][\A c \in loaded' \ loaded :
       /\ UpstreamNamesOf(c) \cap upstreams = {}
       /\ Cardinality(UpstreamNamesOf(c))
            = (1 + Cardinality(c.vsrs)) * Cardinality(UpstreamIds)]_vars

\* VariablesUniqueAcrossVirtualServers.  Two VirtualServers loaded together
\* define no variable in common (newVariableNamer replaces '-' by '_', so
\* a-b/c and a/b-c both get the prefix $vs_a_b_c).
VariablesUniqueAcrossVirtualServers ==
  \A c1, c2 \in loaded :
    c1.vs /= c2.vs => VariableNamesOf(c1) \cap VariableNamesOf(c2) = {}

\* VariableNamesSafe.  Every emitted variable name is '$' followed only by
\* letters, digits and '_', the characters NGINX reads as part of a
\* variable name (a '.' of a VirtualServer name ends it early).
VariableNameChars == {DigitChar(d) : d \in 0..9} \cup ToSet(Txt("_abcdefghijklmnopqrstuvwxyzABCDEFGHIJKLMNOPQRSTUVWXYZ"))

VariableNamesSafe ==
  \A c \in loaded : \A v \in VariableNamesOf(c) :
    v[1] = "$" /\ ToSet(Tail(v)) \subseteq VariableNameChars

\* VariableNamesUnambiguous.  Every variable a compile emits is read by
\* NGINX as that very name, and is defined by that VirtualServer only: the
\* two ways newVariableNamer's replacement of '-' alone goes wrong.
VariableNamesUnambiguous == VariableNamesSafe /\ VariablesUniqueAcrossVirtualServers

=============================================================================
