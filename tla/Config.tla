------------------------------- MODULE Config -------------------------------
(***************************************************************************)
(* internal/config: defaults and validation of a configuration, and, from  *)
(* the packages that use it, the checks their constructors repeat on their *)
(* part of it.  A configuration is what the YAML decoder leaves on top of  *)
(* DefaultConfig; durations are in seconds.  What the strings and regexp   *)
(* packages and the Docker SDK make of a string are constants.             *)
(***************************************************************************)
EXTENDS Integers, Functions

CONSTANTS
  TrimSpace, ToLower, TrimPrefixSlash,   \* of the strings that occur
  Regexps,        \* the patterns regexp.Compile accepts
  Hosts,          \* the strings the Docker SDK's WithHost accepts
  ParseLogLevel,  \* the level of the names of levels
  NoLevel         \* ParseLogLevel's error

ASSUME StringsAssumption == TrimSpace[""] = ""

Blank(s) == TrimSpace[s] = ""
Canonical(s) == ToLower[TrimSpace[s]]
normalizeName(s) == TrimPrefixSlash[TrimSpace[s]]

-----------------------------------------------------------------------------
(* Defaults                                                                *)

DefaultConfig ==
  [logLevel |-> "info", socket |-> "unix:///var/run/docker.sock", parser |-> "graph-node",
   context |-> <<"INFO", "WARN", "ERROR", "CRITICAL">>,
   candidates |-> <<"WARN", "ERROR", "CRITICAL">>,
   path |-> "/var/lib/graph-log-watcher/state.db", replayOverlap |-> 2,
   initialReplayWindow |-> 300, flushInterval |-> 1, flushEvents |-> 100,
   maxGroups |-> 10000, groupTTL |-> 86400, maxSamples |-> 3, bufferLines |-> 100,
   queueSize |-> 100, maxAlertsPerMinute |-> 20, stormCooldown |-> 60,
   listen |-> ":9108", dockerUnavailableAfter |-> 60, allDetachedAfter |-> 60,
   logChannelSize |-> 10000, timeout |-> 10,
   containers |-> <<>>, redaction |-> <<>>, rules |-> <<>>, channels |-> <<>>]

(* The defaults of a rule whose settings were left out.                    *)
applyRuleDefaults(c) ==
  [c EXCEPT !.rules =
     [i \in DOMAIN c.rules |->
        [c.rules[i] EXCEPT !.mode = IF @ = "" THEN "normalized" ELSE @,
                           !.maxBytes = IF @ = 0 THEN 16384 ELSE @]]]

-----------------------------------------------------------------------------
(* Validation: Validate collects every complaint; here, there is none.     *)

validateNames(values, required) ==
  /\ required => values # <<>>
  /\ \A i \in DOMAIN values : ~Blank(values[i])
  /\ IsInjective([i \in DOMAIN values |-> TrimSpace[values[i]]])

validateLevels(values) ==
  /\ values # <<>>
  /\ \A i \in DOMAIN values : ParseLogLevel[values[i]] # NoLevel
  /\ IsInjective([i \in DOMAIN values |-> ParseLogLevel[values[i]]])

(* Patterns that must be there, of redaction and normalization.            *)
validateRegexRules(patterns) ==
  \A i \in DOMAIN patterns : ~Blank(patterns[i]) /\ patterns[i] \in Regexps

(* Definitions named Bad... are faulty variants used to test properties.   *)
BadValidatePattern(p) == p \in Regexps \/ p # ""

validatePattern(p) == p = "" \/ p \in Regexps

validateDedup(r) ==
  /\ Canonical(r.mode) \in {"exact", "normalized", "fields", "rule"}
  /\ Canonical(r.mode) = "fields" => validateNames(r.fields, TRUE)
  /\ validateRegexRules(r.normalize)

validateContext(r) ==
  /\ r.before >= 0 /\ r.after >= 0 /\ r.afterWait >= 0
  /\ r.after > 0 => r.afterWait > 0
  /\ r.maxBytes > 0

BadValidateLimits(r) == r.threshold >= 0 /\ r.window > 0 /\ r.cooldown >= 0

validateLimits(r) == r.threshold > 0 /\ r.window > 0 /\ r.cooldown >= 0

validateRules(rules) ==
  /\ rules # <<>>
  /\ IsInjective([i \in DOMAIN rules |-> TrimSpace[rules[i].id]])
  /\ \A i \in DOMAIN rules :
       LET r == rules[i]
       IN /\ ~Blank(r.id)
          /\ Canonical(r.severity) \in {"low", "medium", "high", "critical"}
          /\ validateNames(r.containers, FALSE)
          /\ validateLevels(r.levels)
          /\ validatePattern(r.pattern)
          /\ \A j \in DOMAIN r.excludes : validatePattern(r.excludes[j])
          /\ \A f \in DOMAIN r.fieldEquals : ~Blank(f) /\ ~Blank(r.fieldEquals[f])
          /\ validateLimits(r)
          /\ validateDedup(r)
          /\ validateContext(r)

validateChannels(channels) ==
  /\ DOMAIN channels # {}
  /\ \A id \in DOMAIN channels : /\ ~Blank(id) /\ ~Blank(channels[id].webhook)
                                 /\ Canonical(channels[id].platform) = "dingtalk"

Validate(c) ==
  /\ Canonical(c.logLevel) \in {"debug", "info", "warn", "error"}
  /\ ~Blank(c.socket) /\ c.parser = "graph-node"
  /\ validateNames(c.containers, TRUE)
  /\ validateLevels(c.context) /\ validateLevels(c.candidates)
  /\ ~Blank(c.path) /\ c.replayOverlap >= 0 /\ c.initialReplayWindow >= 0
  /\ c.flushInterval > 0 /\ c.flushEvents > 0
  /\ c.maxGroups > 0 /\ c.groupTTL > 0 /\ c.maxSamples > 0
  /\ c.bufferLines > 0
  /\ c.queueSize > 0 /\ c.maxAlertsPerMinute > 0 /\ c.stormCooldown >= 0
  /\ ~Blank(c.listen)
  /\ c.dockerUnavailableAfter > 0 /\ c.allDetachedAfter > 0
  /\ c.logChannelSize > 0 /\ c.timeout > 0
  /\ validateRegexRules(c.redaction)
  /\ validateRules(c.rules)
  /\ validateChannels(c.channels)

-----------------------------------------------------------------------------
(* What the constructors refuse                                            *)

LoggerAccepts(c) == Canonical(c.logLevel) \in {"debug", "info", "warn", "error"}

OpenAccepts(c) == c.path # "" /\ c.flushInterval > 0 /\ c.flushEvents > 0

(* redact.New and NewNormalizer.                                           *)
PatternsCompile(patterns) ==
  \A i \in DOMAIN patterns : patterns[i] # "" /\ patterns[i] \in Regexps

(* rule.Compile.                                                           *)
Compiles(r) ==
  /\ ~Blank(r.id)
  /\ \A i \in DOMAIN r.levels : ParseLogLevel[r.levels[i]] # NoLevel
  /\ r.levels # <<>>
  /\ \A p \in {r.pattern} \cup { r.excludes[j] : j \in DOMAIN r.excludes } :
       p # "" => p \in Regexps
  /\ Canonical(r.mode) \in {"exact", "normalized", "fields", "rule"}
  /\ Canonical(r.mode) = "fields" => r.fields # <<>>
  /\ PatternsCompile(r.normalize)

(* router.NewFromNames.                                                    *)
RouterAccepts(c) ==
  /\ \A i \in DOMAIN c.context : ParseLogLevel[c.context[i]] # NoLevel
  /\ \A i \in DOMAIN c.candidates : ParseLogLevel[c.candidates[i]] # NoLevel

(* buildPipelineParts: redactor, rules, router, context store, aggregator. *)
PartsAccept(c) ==
  /\ PatternsCompile(c.redaction)
  /\ \A i \in DOMAIN c.rules : Compiles(c.rules[i])
  /\ RouterAccepts(c)
  /\ c.bufferLines > 0
  /\ c.maxGroups > 0 /\ c.groupTTL > 0 /\ c.maxSamples > 0

(* buildNotifier: a DingTalk notifier per channel and the worker.          *)
NotifierAccepts(c) ==
  /\ \A id \in DOMAIN c.channels : id # "" /\ c.channels[id].webhook # ""
  /\ c.queueSize > 0 /\ c.maxAlertsPerMinute > 0 /\ c.stormCooldown >= 0

(* NewSDKClient: WithHost reads docker.socket, and asks for a scheme, such *)
(* as unix://; the client connects only when it is used.                   *)
ClientAccepts(c) == c.socket \in Hosts

(* docker.New compares the names as Docker spells them.                    *)
SourceAccepts(c) ==
  /\ c.containers # <<>>
  /\ \A i \in DOMAIN c.containers : normalizeName(c.containers[i]) # ""
  /\ IsInjective([i \in DOMAIN c.containers |-> normalizeName(c.containers[i])])

(* Aggregator.Record refuses such a rule every time it matches.            *)
RecordAccepts(r) == r.threshold > 0 /\ r.window > 0 /\ r.cooldown >= 0
=============================================================================
