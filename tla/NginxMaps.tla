----------------------------- MODULE NginxMaps -----------------------------
(***************************************************************************)
(* How NGINX evaluates the configuration the generator emits: `map` and   *)
(* `split_clients` blocks, internal redirects to a variable, and named    *)
(* locations.  This is the environment of the generator, not code of the  *)
(* repository; the properties use it to ask what a request is served by.  *)
(*                                                                         *)
(* Strings are sequences of one-character strings.  A configuration is a  *)
(* record with fields maps, splitClients, locations, internalRedirects    *)
(* and upstreams, as VirtualServerConfigurator builds them.               *)
(***************************************************************************)
EXTENDS VSTypes, FiniteSets, SequencesExt

Quote == "\""

\* The configuration parser removes the quotes around a quoted token.
Unquote(v) ==
  IF Len(v) >= 2 /\ v[1] = Quote /\ v[Len(v)] = Quote
  THEN SubSeq(v, 2, Len(v) - 1) ELSE v

\* ngx_http_map: a parameter whose token is `default` is the default; a
\* token starting with `~` is a regular expression; otherwise a leading
\* backslash is dropped and the rest is matched as a literal string.
IsDefaultParam(v) == Unquote(v) = <<"default">>
IsRegexParam(v)   == LET t == Unquote(v) IN t /= <<>> /\ t[1] = "~"
LiteralOf(v)      == LET t == Unquote(v) IN IF t /= <<>> /\ t[1] = "\\" THEN Tail(t) ELSE t

\* The regular expressions that occur here are literals, optionally anchored
\* with a leading `^`; an unanchored one matches anywhere in the string.
RegexMatches(v, s) ==
  LET re == Tail(Unquote(v)) IN
  IF re /= <<>> /\ re[1] = "^" THEN IsPrefix(Tail(re), s)
  ELSE \E k \in 0..Len(s) : IsPrefix(re, SubSeq(s, k + 1, Len(s)))

\* Exact strings win over regular expressions, regular expressions are
\* tried in order, and the default applies when nothing matches.
MapLookup(params, s) ==
  LET exact == {k \in DOMAIN params : ~IsDefaultParam(params[k].value)
                                      /\ ~IsRegexParam(params[k].value)
                                      /\ LiteralOf(params[k].value) = s}
      regex == {k \in DOMAIN params : IsRegexParam(params[k].value)
                                      /\ RegexMatches(params[k].value, s)}
      dflt  == {k \in DOMAIN params : IsDefaultParam(params[k].value)}
  IN  IF exact /= {} THEN params[Min(exact)].result
      ELSE IF regex /= {} THEN params[Min(regex)].result
      ELSE IF dflt /= {} THEN params[Min(dflt)].result
      ELSE <<>>

\* split_clients reads a weight "<n>%"; the model's <<n, "%">> stands for it.
Percent(w) == IF Len(w) = 2 /\ w[2] = "%" THEN w[1] ELSE 0

\* split_clients: the request's hash falls in a percentile bucket 0..99;
\* the first distribution whose cumulative percentage exceeds it is taken.
Cumulative(dists, j) == FoldLeft(LAMBDA acc, d : acc + Percent(d.weight), 0, SubSeq(dists, 1, j))

SplitLookup(dists, bucket) ==
  LET hit == {j \in DOMAIN dists : bucket < Cumulative(dists, j)}
  IN  IF hit = {} THEN <<>> ELSE dists[Min(hit)].value

IsVariable(x) == x /= <<>> /\ x[1] = "$"
IsNamedLocation(x) == x /= <<>> /\ x[1] = "@"

Unknown == <<"?">>

\* The value of variable var for a request whose own variables are req.
RECURSIVE EvalVar(_, _, _, _)
EvalVar(cfg, var, req, bucket) ==
  LET ms  == {k \in DOMAIN cfg.maps : cfg.maps[k].variable = var}
      scs == {k \in DOMAIN cfg.splitClients : cfg.splitClients[k].variable = var}
  IN  IF ms /= {} THEN
        LET m   == cfg.maps[Min(ms)]
            src == FlattenSeq([k \in DOMAIN m.source |-> EvalVar(cfg, m.source[k], req, bucket)])
            res == MapLookup(m.parameters, src)
        IN  IF IsVariable(res) THEN EvalVar(cfg, res, req, bucket) ELSE res
      ELSE IF scs /= {} THEN SplitLookup(cfg.splitClients[Min(scs)].distributions, bucket)
      ELSE IF var \in DOMAIN req THEN req[var]
      ELSE Unknown

\* The location name NGINX reads from `location <path>`: the modifier and
\* the pattern, with the quotes around a regular expression removed.
LocationKey(p) ==
  LET body(s) == Unquote(IF s /= <<>> /\ s[1] = " " THEN Tail(s) ELSE s) IN
  CASE p = <<>>                                  -> <<"", p>>
    [] IsNamedLocation(p)                        -> <<"@", p>>
    [] Len(p) >= 2 /\ p[1] = "~" /\ p[2] = "*"   -> <<"~*", body(SubSeq(p, 3, Len(p)))>>
    [] p[1] = "~"                                -> <<"~", body(Tail(p))>>
    [] p[1] = "="                                -> <<"=", Tail(p)>>
    [] OTHER                                     -> <<"", p>>

\* What a location does with a request: return a response, or proxy it to
\* the one upstream whose name is the host of proxy_pass.
Dangling == [kind |-> "dangling"]

LocationEffect(cfg, loc) ==
  IF loc.return /= NULL THEN [kind |-> "return", code |-> loc.return.code, text |-> loc.return.text]
  ELSE LET ups == {k \in DOMAIN cfg.upstreams : cfg.upstreams[k].name = loc.proxyPass[2]}
       IN  IF Cardinality(ups) /= 1 THEN Dangling
           ELSE [kind |-> "proxy", origin |-> cfg.upstreams[Min(ups)].origin,
                 https |-> loc.proxyPass[1] = "https"]

\* The effect of the request on the location or internal redirect at path.
Serve(cfg, path, req, bucket) ==
  LET key  == LocationKey(path)
      irls == {k \in DOMAIN cfg.internalRedirects : LocationKey(cfg.internalRedirects[k].path) = key}
      locs == {k \in DOMAIN cfg.locations : LocationKey(cfg.locations[k].path) = key}
  IN  IF Cardinality(irls) + Cardinality(locs) /= 1 THEN Dangling
      ELSE IF locs /= {} THEN LocationEffect(cfg, cfg.locations[Min(locs)])
      ELSE LET dest  == EvalVar(cfg, cfg.internalRedirects[Min(irls)].destination, req, bucket)
               named == {k \in DOMAIN cfg.locations : cfg.locations[k].path = dest}
           IN  IF Cardinality(named) /= 1 THEN Dangling
               ELSE LocationEffect(cfg, cfg.locations[Min(named)])

=============================================================================
