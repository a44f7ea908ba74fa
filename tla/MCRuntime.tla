------------------------------ MODULE MCRuntime ------------------------------
(* Instances of Runtime for TLC: a valid configuration, and all those that *)
(* differ from it in one setting.                                          *)
EXTENDS Runtime, TLC

LevelNames == {"INFO", "WARN", "ERROR", "CRITICAL", "warn", "loud"}
Strings == LevelNames \cup
  {"", " ", "a", " a", "/a", "/", "info", "high", "HIGH", "rule", "fields", "normalized",
   "dingtalk", "(", "x", "graph-node", DefaultConfig.socket, DefaultConfig.path,
   DefaultConfig.listen, "/var/run/docker.sock"}

MCTrimSpace == (" " :> "" @@ " a" :> "a") @@ [s \in Strings |-> s]
MCToLower == ("HIGH" :> "high") @@ [s \in Strings |-> s]
MCTrimPrefixSlash == ("/a" :> "a" @@ "/" :> "") @@ [s \in Strings |-> s]
MCRegexps == Strings \ {"("}
MCHosts == {DefaultConfig.socket}
MCParseLogLevel == ("warn" :> "WARN" @@ [l \in LevelNames \ {"warn", "loud"} |-> l])
                     @@ [s \in Strings |-> "none"]

ARule ==
  [id |-> "a", severity |-> "HIGH", containers |-> <<>>, levels |-> <<"warn">>,
   pattern |-> "x", excludes |-> <<"x">>, fieldEquals |-> "a" :> "x",
   threshold |-> 1, window |-> 1, cooldown |-> 0, mode |-> "", fields |-> <<>>,
   normalize |-> <<"x">>, before |-> 1, after |-> 1, afterWait |-> 1, maxBytes |-> 0]

Base ==
  [DefaultConfig EXCEPT !.containers = <<"a">>, !.rules = <<ARule>>, !.redaction = <<"x">>,
                        !.channels = "a" :> [platform |-> "dingtalk", webhook |-> "x"]]

(* Records that differ from one in one field.                              *)
Variants(record, changes) ==
  UNION { { [record EXCEPT ![f] = v] : v \in changes[f] } : f \in DOMAIN changes }

RuleChanges ==
  [id |-> {"", " "}, severity |-> {"", "x"}, containers |-> {<<" ">>, <<"a", " a">>},
   levels |-> {<<>>, <<"loud">>, <<"WARN", "warn">>}, pattern |-> {"("}, excludes |-> {<<"(">>},
   fieldEquals |-> {" " :> "x", "a" :> ""}, threshold |-> {0}, window |-> {0},
   cooldown |-> {-1}, mode |-> {"x", "fields"}, normalize |-> {<<"">>, <<" ">>, <<"(">>},
   before |-> {-1}, after |-> {-1}, afterWait |-> {-1, 0}, maxBytes |-> {-1}]

Numbers == {"replayOverlap", "initialReplayWindow", "flushInterval", "flushEvents", "maxGroups",
            "groupTTL", "maxSamples", "bufferLines", "queueSize", "maxAlertsPerMinute",
            "stormCooldown", "dockerUnavailableAfter", "allDetachedAfter", "logChannelSize",
            "timeout"}
Texts == {"logLevel", "socket", "parser", "path", "listen"}

MCConfigs ==
  {Base}
    \cup { [Base EXCEPT !.rules = <<r>>] : r \in Variants(ARule, RuleChanges) }
    \cup { [Base EXCEPT ![f] = -1] : f \in Numbers }
    \cup { [Base EXCEPT ![f] = s] : f \in Texts, s \in {"", " "} }
    \cup Variants(Base, [
           socket |-> {"/var/run/docker.sock"},
           rules |-> {<<>>, <<ARule, ARule>>}, redaction |-> {<<"">>, <<"(">>},
           context |-> {<<>>, <<"loud">>}, candidates |-> {<<"WARN", "warn">>},
           containers |-> {<<>>, <<" ">>, <<"/">>, <<"a", " a">>, <<"a", "/a">>},
           channels |-> {<<>>, "" :> Base.channels["a"],
                         "a" :> [platform |-> "x", webhook |-> "x"],
                         "a" :> [platform |-> "dingtalk", webhook |-> " "]}])
=============================================================================
