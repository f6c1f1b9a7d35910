----------------------------- MODULE ConfigLoad -----------------------------
(***************************************************************************)
(* internal/config and internal/hostname: what the agent does before it    *)
(* starts a component.  datadog.yaml is laid over the defaults and the DD_ *)
(* variables over both; each component asks for the endpoints it ships to, *)
(* the primary and those of the dual-shipping settings; the conf.d files   *)
(* give the log sources; and the host's name is chosen.                    *)
(*                                                                         *)
(* A domain is [kind, site, slashes]: kind "app" for the well-known        *)
(* app.<site>, "agent" for the host with the agent's version before it,    *)
(* "custom" for any other, and the slashes it was written with.  A key is  *)
(* [text, blanks]: what is left of it without the blanks around it, and    *)
(* these.                                                                  *)
(***************************************************************************)
EXTENDS Integers, Sequences, FiniteSets, SequencesExt

----------------------------------------------------------------------------
(* Load.  A setting is read with the reader of its kind; an environment    *)
(* maps variables to what was written, a text that parses to a value of    *)
(* the kind or does not.                                                   *)

Malformed == "malformed"

\* envString takes whatever is set, envBool and envInt what parses, and envJSON
\* what parses and is not empty, in place of what was there.
envString(text, old) == text
envNumber(text, old) == IF text \in {"", Malformed} THEN old ELSE text
envJSON(text, old) == IF text \in {"", Malformed} THEN old ELSE text

\* Some of applyEnv's steps, in its order: both names of dd_url, and one of
\* each reader.
Steps ==
  <<[var |-> "DD_URL", setting |-> "dd_url", kind |-> "string"],
    [var |-> "DD_DD_URL", setting |-> "dd_url", kind |-> "string"],
    [var |-> "DD_ADDITIONAL_ENDPOINTS", setting |-> "additional_endpoints", kind |-> "json"],
    [var |-> "DD_LOGS_ENABLED", setting |-> "logs_enabled", kind |-> "number"]>>
Settings == {Steps[i].setting : i \in DOMAIN Steps}

\* What is left of an old value when a variable of this kind says text.
Read(kind, text, old) ==
  IF kind = "string" THEN envString(text, old)
  ELSE IF kind = "number" THEN envNumber(text, old) ELSE envJSON(text, old)

Overridden(cfg, step, env) ==
  IF step.var \notin DOMAIN env THEN cfg
  ELSE [cfg EXCEPT ![step.setting] = Read(step.kind, env[step.var], @)]

applyEnv(steps, cfg, env) ==
  LET after[n \in 0..Len(steps)] ==
        IF n = 0 THEN cfg ELSE Overridden(after[n - 1], steps[n], env)
  IN after[Len(steps)]

Default == [s \in Settings |-> "default"]

\* Unmarshal: the keys the file omits keep their defaults.
Under(file, has) ==
  [s \in Settings |-> IF file = "ok" /\ s \in DOMAIN has THEN has[s] ELSE Default[s]]

\* The file says "missing", "unreadable", "malformed" or which settings it has.
Load(file, has, env) ==
  IF file \in {"unreadable", "malformed"} THEN {}
  ELSE {applyEnv(Steps, Under(file, has), env)}

Key(text, blanks) == [text |-> text, blanks |-> blanks]
NoKey == Key("", 0)

\* Validate: the one setting without which the agent does not start.
Validate(apiKey) == apiKey # NoKey

----------------------------------------------------------------------------
(* Endpoints.                                                              *)

Trimmed(domain) == [domain EXCEPT !.slashes = 0]
TrimSpace(key) == [key EXCEPT !.blanks = 0]

\* infraDomain: the host a well-known domain's agents ship to.
infraDomain(domain) ==
  IF domain.kind = "app" THEN [Trimmed(domain) EXCEPT !.kind = "agent"] ELSE Trimmed(domain)

Unset == [kind |-> "unset", site |-> "", slashes |-> 0]
infraBase(cfg) ==
  IF cfg.ddURL = Unset THEN [kind |-> "agent", site |-> cfg.site, slashes |-> 0]
  ELSE infraDomain(cfg.ddURL)

Endpoint(base, route, key, reliable) ==
  [url |-> <<base, route>>, key |-> key, reliable |-> reliable]

\* The two that are dropped as one: of one URL as it is written, and one key.
Same(e, f) == e.url = f.url /\ e.key = f.key

\* What a request reaches: slashes behind the URL lead to the same intake, and the
\* HTTP client sends the key without its blanks.
Reached(e) == <<Trimmed(e.url[1]), e.url[2], TrimSpace(e.key)>>

\* One more entry, if it has a key and is not there already.
Added(eps, e) ==
  IF e.key.text = "" \/ \E i \in DOMAIN eps : Same(eps[i], e) THEN eps ELSE Append(eps, e)

\* The entries with a key, in order, but for what is there already.
AddNew(eps, entries) ==
  LET upto[n \in 0..Len(entries)] ==
        IF n = 0 THEN eps ELSE Added(upto[n - 1], entries[n])
  IN upto[Len(entries)]

\* The routes of MetricsEndpoints, CheckRunEndpoints, IntakeEndpoints,
\* EventsEndpoints and MetadataEndpoints: only their domains get a version.
InfraRoutes == {"series", "check_run", "intake", "metadata"}
urlFor(route, domain) == IF route \in InfraRoutes THEN infraDomain(domain) ELSE Trimmed(domain)

\* A setting's domains with their keys, in the order of the domains.
Entries(extra, route) ==
  FlattenSeq([i \in DOMAIN extra |->
    [k \in DOMAIN extra[i].keys |->
       Endpoint(urlFor(route, extra[i].domain), route, TrimSpace(extra[i].keys[k]), TRUE)]])

\* Mutation of appendAdditional: only the additional ones are compared.
appendAdditionalUnseen(eps, extra, route) == eps \o AddNew(<<>>, Entries(extra, route))

appendAdditional(eps, extra, route) == AddNew(eps, Entries(extra, route))

infraEndpoints(cfg, route) ==
  appendAdditional(<<Endpoint(infraBase(cfg), route, cfg.apiKey, TRUE)>>, cfg.additional,
                   route)

\* The logs endpoints name a host and a scheme of their own, without slashes.
LogsURL(cfg) ==
  IF cfg.logsURL = Unset THEN [kind |-> "logs", site |-> cfg.site, slashes |-> 0]
  ELSE Trimmed(cfg.logsURL)

\* One without a host is passed over like one without a key.
LogsEntries(extra) ==
  [i \in DOMAIN extra |->
     Endpoint([kind |-> "custom", site |-> extra[i].host, slashes |-> 0], "logs",
              IF extra[i].host = "" THEN NoKey ELSE TrimSpace(extra[i].key),
              extra[i].isReliable # "false")]

LogsEndpoints(cfg) ==
  AddNew(<<Endpoint(LogsURL(cfg), "logs", cfg.apiKey, TRUE)>>, LogsEntries(cfg.logsAdditional))

ProcessURL(cfg) ==
  IF cfg.processURL = Unset THEN [kind |-> "process", site |-> cfg.site, slashes |-> 0]
  ELSE Trimmed(cfg.processURL)

ProcessEndpoints(cfg) ==
  appendAdditional(<<Endpoint(ProcessURL(cfg), "collector", cfg.apiKey, TRUE)>>,
                   cfg.processAdditional, "collector")

\* Whole URLs, taken as they are; the main one may be switched off.
ProfilingURL(cfg) ==
  IF cfg.profilingURL = Unset THEN [kind |-> "profile", site |-> cfg.site, slashes |-> 0]
  ELSE cfg.profilingURL
profilingMain(cfg) ==
  IF cfg.sendToMain # "false" THEN <<Endpoint(ProfilingURL(cfg), "", cfg.apiKey, TRUE)>>
  ELSE <<>>
ProfilingEndpoints(cfg) == appendAdditional(profilingMain(cfg), cfg.profilingAdditional, "")

----------------------------------------------------------------------------
(* LoadLogSources: the sources of the readable, well-formed files, those   *)
(* of *.d/conf.yaml first; any other file fails it, {} here.               *)

\* Those of q that are in S, in order.
Picked(q, S) ==
  LET upto[n \in 0..Len(q)] ==
        IF n = 0 THEN <<>>
        ELSE IF q[n] \in S THEN Append(upto[n - 1], q[n]) ELSE upto[n - 1]
  IN upto[Len(q)]

\* The files at a place, with their sources one after the other.
At(confd, place) == Picked(confd, {f \in ToSet(confd) : f.at = place})
Declared(files) == FlattenSeq([i \in DOMAIN files |-> files[i].logs])

LoadLogSources(confd) ==
  LET files == At(confd, "x.d/conf.yaml") \o At(confd, "x.yaml")
      all == Declared(files)
      read == {s \in ToSet(all) : s.type \in {"file", "journald"}}
  IN IF \E i \in DOMAIN files : ~files[i].ok THEN {}
     ELSE {[sources |-> Picked(all, read), skipped |-> Picked(all, ToSet(all) \ read)]}

----------------------------------------------------------------------------
(* The host's name.  "" where a probe, a file or the system gives none.    *)

isDefaultHostname(h) == h \in {"", "localhost", "ip-10-0-0-1"}

\* cloud asks both at once, and each must succeed in its own time.
cloud(probes) == [gce |-> IF probes.gceInTime THEN probes.gce ELSE "",
                  ec2 |-> IF probes.ec2InTime THEN probes.ec2 ELSE ""]

Resolve(configured, file, probes, os) ==
  IF configured # "" THEN configured
  ELSE IF file # "" THEN file
  ELSE IF cloud(probes).gce # "" THEN cloud(probes).gce
  ELSE IF ~isDefaultHostname(os) THEN os
  ELSE IF cloud(probes).ec2 # "" THEN cloud(probes).ec2
  ELSE IF os # "" THEN os ELSE "unknown"

----------------------------------------------------------------------------
(* Laws, of any configuration, and all of them over small ones.            *)

\* No two endpoints have one URL and one key as they are written, and none but the
\* primary is without a key; every destination of the settings is there, and the
\* primary is the first.  One intake is reached twice with one key exactly if a
\* setting names that of the primary and the primary is written otherwise: what it
\* is compared by is not trimmed (its key, and the URL of the profiles).
EndpointsOf(eps, primary, entries) ==
  /\ \A i, j \in DOMAIN eps : Same(eps[i], eps[j]) => i = j
  /\ \A e \in ToSet(entries) : e.key.text # "" => \E i \in DOMAIN eps : Same(eps[i], e)
  /\ \A i \in DOMAIN eps : i > Len(primary) => eps[i] \in ToSet(entries) /\ eps[i].key.text # ""
  /\ IsPrefix(primary, eps)
  /\ (\E i, j \in DOMAIN eps : i # j /\ Reached(eps[i]) = Reached(eps[j]))
       <=> \E p \in ToSet(primary) : \E e \in ToSet(entries) :
             e.key.text # "" /\ ~Same(p, e) /\ Reached(p) = Reached(e)

ShipsOnce(cfg, route) ==
  /\ EndpointsOf(infraEndpoints(cfg, route),
                 <<Endpoint(infraBase(cfg), route, cfg.apiKey, TRUE)>>,
                 Entries(cfg.additional, route))
  /\ EndpointsOf(ProcessEndpoints(cfg),
                 <<Endpoint(ProcessURL(cfg), "collector", cfg.apiKey, TRUE)>>,
                 Entries(cfg.processAdditional, "collector"))
  /\ EndpointsOf(ProfilingEndpoints(cfg), profilingMain(cfg), Entries(cfg.profilingAdditional, ""))

Domains == [kind : {"app", "agent", "custom"}, site : {"eu"}, slashes : 0..1]
Lists(S, n) == UNION {[1..k -> S] : k \in 0..n}
Extras == {e \in Lists([domain : Domains, keys : {<<Key("k1", 0)>>, <<Key("k2", 1), NoKey>>}], 2) :
             \A i, j \in DOMAIN e : e[i].domain = e[j].domain => i = j}

EndpointsTrue ==
  \A extra \in Extras : \A dd \in Domains \cup {Unset} : \A main \in {"", "false"} : \A blanks \in 0..1 :
    ShipsOnce([ddURL |-> dd, profilingURL |-> dd,
               processURL |-> [kind |-> "custom", site |-> "eu", slashes |-> 1],
               site |-> "eu", apiKey |-> Key("k1", blanks), sendToMain |-> main, additional |-> extra,
               processAdditional |-> extra, profilingAdditional |-> extra], "series")

\* The logs endpoints are as the others, and of the additional ones each that
\* has a host and a key is there.
LogsShipOnce(cfg) ==
  LET eps == LogsEndpoints(cfg)
      extra == cfg.logsAdditional
  IN /\ EndpointsOf(eps, <<Endpoint(LogsURL(cfg), "logs", cfg.apiKey, TRUE)>>, LogsEntries(extra))
     /\ \A i \in DOMAIN extra : extra[i].host # "" /\ extra[i].key.text # "" =>
          \E j \in DOMAIN eps : eps[j].key = TrimSpace(extra[i].key)
            /\ eps[j].url[1] = [kind |-> "custom", site |-> extra[i].host, slashes |-> 0]

LogsEndpointsTrue ==
  \A extra \in Lists([host : {"", "eu", "h"}, key : {Key("k1", 1), NoKey}, isReliable : {"", "false"}], 2) :
   \A blanks \in 0..1 :
    LogsShipOnce([site |-> "eu", apiKey |-> Key("k1", blanks), logsAdditional |-> extra,
                  logsURL |-> [kind |-> "custom", site |-> "eu", slashes |-> 1]])

\* A setting is what the last of its variables that can be read says, of the
\* environment alone (the file's keys are not mixed in), else what the file
\* says, else the default; only a file that is there and cannot be read, or
\* parsed, stops the agent.
Takes(step, env) ==
  step.var \in DOMAIN env /\ (step.kind = "string" \/ env[step.var] \notin {"", Malformed})
LastSays(steps, cfg, env, s) ==
  LET is == {i \in DOMAIN steps : steps[i].setting = s /\ Takes(steps[i], env)}
  IN IF is = {} THEN cfg[s] ELSE env[steps[CHOOSE i \in is : \A k \in is : k <= i].var]
Overrides(file, has, env) ==
  LET loaded == Load(file, has, env)
  IN /\ (loaded = {}) <=> file \in {"unreadable", "malformed"}
     /\ \A cfg \in loaded : \A s \in Settings :
          cfg[s] = LastSays(Steps, Under(file, has), env, s)

Variables == {Steps[i].var : i \in DOMAIN Steps}
OverridesTrue ==
  \A file \in {"missing", "unreadable", "malformed", "ok"} :
    \A env \in UNION {[vs -> {"env", "", Malformed}] : vs \in SUBSET Variables} :
      \A has \in UNION {[ss -> {"file"}] : ss \in SUBSET Settings} : Overrides(file, has, env)

\* Every source of every file is read or skipped as often as the files declare
\* it; one bad file is no reason to run with the sources of the others.
Times(q, s) == Len(Picked(q, {s}))
Considered(f) == f.at \in {"x.d/conf.yaml", "x.yaml"}
DeclaredTimes(confd, s) ==
  LET upto[n \in 0..Len(confd)] ==
        IF n = 0 THEN 0
        ELSE upto[n - 1] + (IF Considered(confd[n]) THEN Times(confd[n].logs, s) ELSE 0)
  IN upto[Len(confd)]
EverySource(confd) ==
  LET r == LoadLogSources(confd)
  IN /\ (r = {}) <=> \E i \in DOMAIN confd : Considered(confd[i]) /\ ~confd[i].ok
     /\ \A x \in r : \A i \in DOMAIN confd : \A s \in ToSet(confd[i].logs) :
          Times(IF s.type \in {"file", "journald"} THEN x.sources ELSE x.skipped, s)
            = DeclaredTimes(confd, s)

SourcesTrue ==
  \A confd \in Lists([at : {"x.d/conf.yaml", "x.yaml", "x.yml"}, ok : BOOLEAN,
                      logs : {<<>>, <<[type |-> "file"]>>,
                              <<[type |-> "tcp"], [type |-> "journald"]>>}], 2) :
    EverySource(confd)

\* A name somebody chose is used before one a platform gave, the EC2 instance
\* only in place of a name the platform made up, and no name is "unknown" while
\* there is one.
NameOf(configured, file, probes, os) ==
  LET h == Resolve(configured, file, probes, os)
      chosen == {configured, file} \ {""}
      gce == cloud(probes).gce
      ec2 == cloud(probes).ec2
  IN /\ h # ""
     /\ chosen # {} => h \in chosen
     /\ chosen = {} => h \in ({gce, ec2, os} \ {""}) \cup {"unknown"}
     /\ chosen = {} /\ h \notin {gce, os, "unknown"} => isDefaultHostname(os)
     /\ "unknown" \notin {configured, file, gce, ec2, os} =>
          (h = "unknown" <=> (chosen = {} /\ gce = "" /\ ec2 = "" /\ os = ""))

HostnameTrue ==
  \A configured, file \in {"", "chosen"} : \A os \in {"", "localhost", "ip-10-0-0-1", "mine"} :
    \A probes \in [gce : {"", "gce"}, gceInTime : BOOLEAN, ec2 : {"", "i-1"}, ec2InTime : BOOLEAN] :
      NameOf(configured, file, probes, os)

ConfigTrue ==
  EndpointsTrue /\ LogsEndpointsTrue /\ OverridesTrue /\ SourcesTrue /\ HostnameTrue
=============================================================================
