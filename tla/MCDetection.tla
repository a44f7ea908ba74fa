---------------------------- MODULE MCDetection ----------------------------
(* An instance of Detection for TLC.  The first rule is disabled; "a"      *)
(* stops and deduplicates by two fields; "b" and "c" both match the third  *)
(* line.  The fields of the first two lines are the same bytes in a row.   *)
EXTENDS Detection, TLC

CONSTANTS Threshold1, Threshold2, WindowValue, CooldownValue

Messages == {<<1>>, <<2>>, <<3>>}

AnyRule ==
  [id |-> <<10>>, enabled |-> TRUE, containers |-> {}, levels |-> {"error"},
   components |-> {}, fieldEquals |-> << >>, pattern |-> Messages, excludes |-> {},
   stopOnMatch |-> FALSE, mode |-> "rule", fields |-> <<>>, normalizer |-> <<>>,
   threshold |-> Threshold1, window |-> WindowValue, cooldown |-> CooldownValue]

MCRuleList ==
  <<[AnyRule EXCEPT !.enabled = FALSE, !.stopOnMatch = TRUE],
    [AnyRule EXCEPT !.id = <<11>>, !.components = {<<7>>}, !.fieldEquals = (<<4>> :> <<9>>),
                    !.mode = "fields", !.fields = <<<<6>>, <<5>>>>, !.stopOnMatch = TRUE],
    [AnyRule EXCEPT !.id = <<12>>, !.levels = {"error", "unknown"}, !.excludes = {{<<1>>}},
                    !.mode = "normalized",
                    !.normalizer = <<[m \in Messages |-> IF m = <<3>> THEN <<2>> ELSE m]>>],
    [AnyRule EXCEPT !.id = <<13>>, !.containers = {<<8>>}, !.levels = {"error", "info"},
                    !.threshold = Threshold2, !.mode = "exact"]>>

Failed(fields, raw) ==
  [container |-> <<8>>, level |-> "error", raw |-> raw, message |-> <<1>>,
   fields |-> (Word.component :> <<7>>) @@ (<<4>> :> <<9>>) @@ fields]

MCLines ==
  {Failed(<<5>> :> <<6>>, <<1, 1>>), Failed(<<6>> :> <<6>>, <<1, 2>>),
   [container |-> <<8>>, level |-> "error", raw |-> <<2>>, message |-> <<2>>, fields |-> << >>],
   [container |-> <<8>>, level |-> "unknown", raw |-> <<>>, message |-> <<3>>, fields |-> << >>],
   [container |-> <<8>>, level |-> "info", raw |-> <<2>>, message |-> <<2>>, fields |-> << >>]}

(* TLC evaluates a definition that only constants enter once, but not the  *)
(* one a constant is given by: hence tables, and names for them.           *)
AllHashed == { Hashed(RuleList[i], e) : i \in DOMAIN RuleList, e \in Lines }

HashTable ==
  LET all == AllHashed
  IN [bytes \in all |-> 1 + Cardinality({ b \in all : StringLess(b, bytes) })] @@ << >>

MCHash == HashTable
MCFingerprints == 1 .. Cardinality(AllHashed)
MCSamples == { rawIdentity(e) : e \in Lines }

(* The rule that each fingerprint belongs to.                              *)
RuleTable ==
  LET table == HashTable
      owner == { <<table[Hashed(RuleList[i], e)], i>> : i \in DOMAIN RuleList, e \in Lines }
  IN [f \in MCFingerprints |-> RuleList[(CHOOSE o \in owner : o[1] = f)[2]]] @@ << >>

MCThreshold == [f \in MCFingerprints |-> RuleTable[f].threshold]
MCWindow == [f \in MCFingerprints |-> RuleTable[f].window]
MCCooldown == [f \in MCFingerprints |-> RuleTable[f].cooldown]
=============================================================================
