----------------------------- MODULE Detection -----------------------------
(***************************************************************************)
(* The detection path of Processor.Process: the level gate of              *)
(* internal/router, Engine.Match and Fingerprint of internal/rule, and the *)
(* aggregator that counts under the fingerprint (Aggregator.tla).  Strings *)
(* are sequences of bytes, fixed words one byte; a regular expression is   *)
(* the set of messages it matches, a replacement a function on messages.   *)
(***************************************************************************)
EXTENDS Aggregator

CONSTANTS
  Lines,            \* parsed and redacted entries, but for their timestamp
  RuleList,         \* Engine.rules, compiled, in the order of the configuration
  ContextLevels, AlertCandidates,    \* the Router's two sets
  LevelUnknown,
  Hash              \* sha256, as a number, of the bytes written to it

VARIABLES
  line,       \* the entry Process works on, or worked on last
  todo,       \* matches Process has not recorded yet, with the entry's timestamp
  hits,       \* history: the rules that counted line
  members     \* history: the incidents each active group took events of

dvars == <<now, groups, result, seen, line, todo, hits, members>>

NoLine == [level |-> "none"]

Field(e, name) == IF name \in DOMAIN e.fields THEN e.fields[name] ELSE <<>>

Word == [rule |-> <<101>>, container |-> <<102>>, mode |-> <<103>>, raw |-> <<104>>,
         message |-> <<105>>, component |-> <<106>>, exact |-> <<107>>,
         normalized |-> <<108>>, fields |-> <<109>>]

-----------------------------------------------------------------------------
(* The level gate.                                                         *)
Route(e) ==
  CASE e.level \in AlertCandidates -> "candidate"
    [] e.level \in ContextLevels \ AlertCandidates -> "context"
    [] OTHER -> "discard"

EntersRuleEngine(e) == Route(e) = "candidate"

(* Rule.Matches.  An empty set of containers or components admits any.     *)
Matches(r, e) ==
  /\ r.enabled
  /\ r.containers # {} => e.container \in r.containers
  /\ e.level \in r.levels
  /\ r.components # {} => Field(e, Word.component) \in r.components
  /\ \A name \in DOMAIN r.fieldEquals : Field(e, name) = r.fieldEquals[name]
  /\ e.message \in r.pattern
  /\ \A exclude \in r.excludes : e.message \notin exclude

(* Definitions named Bad... are faulty variants used to test properties.   *)
BadMatch(e) == SelectSeq([i \in 1 .. Len(RuleList) |-> i], LAMBDA i : Matches(RuleList[i], e))

(* Engine.Match, as indices of rules: up to the first match that stops.    *)
Match(e) ==
  LET loop[i \in 0 .. Len(RuleList)] ==
        IF i = 0 THEN [matches |-> <<>>, stopped |-> FALSE]
        ELSE LET acc == loop[i - 1]
             IN IF acc.stopped \/ ~Matches(RuleList[i], e) THEN acc
                ELSE [matches |-> Append(acc.matches, i), stopped |-> RuleList[i].stopOnMatch]
  IN loop[Len(RuleList)].matches

(* The gate in Process: an entry without a level is matched nevertheless.  *)
Matched(e) ==
  IF EntersRuleEngine(e) \/ e.level = LevelUnknown THEN Match(e) ELSE <<>>

-----------------------------------------------------------------------------
(* The fingerprint.                                                        *)

Normalize(r, message) ==
  LET value[i \in 0 .. Len(r.normalizer)] ==
        IF i = 0 THEN message ELSE r.normalizer[i][value[i - 1]]
  IN value[Len(r.normalizer)]

(* rawIdentity, and sampleOf in the aggregator.                            *)
rawIdentity(e) == IF e.raw # <<>> THEN e.raw ELSE e.message

fieldValue(id, e, field) ==
  CASE field = Word.rule -> id
    [] field = Word.container -> e.container
    [] OTHER -> Field(e, field)

StringLess(a, b) ==
  \/ Len(a) < Len(b) /\ SubSeq(b, 1, Len(a)) = a
  \/ \E i \in DOMAIN a \cap DOMAIN b :
       a[i] < b[i] /\ SubSeq(a, 1, i - 1) = SubSeq(b, 1, i - 1)

(* sort.Strings, as it sorts a short slice: by insertion.                  *)
Insert(sorted, s) ==
  LET k == Cardinality({ j \in DOMAIN sorted : ~StringLess(s, sorted[j]) })
  IN SubSeq(sorted, 1, k) \o <<s>> \o SubSeq(sorted, k + 1, Len(sorted))

SortStrings(list) ==
  LET sorted[i \in 0 .. Len(list)] ==
        IF i = 0 THEN <<>> ELSE Insert(sorted[i - 1], list[i])
  IN sorted[Len(list)]

BadWritePart(value) == value

(* Eight bytes of length, as one number, and the bytes.                    *)
writePart(value) == <<Len(value)>> \o value

(* What a mode adds to the rule's ID and the container.                    *)
Parts(r, e) ==
  CASE r.mode = "exact" -> <<Word.raw, rawIdentity(e)>>
    [] r.mode = "normalized" -> <<Word.message, Normalize(r, e.message)>>
    [] r.mode = "fields" ->
         LET sorted == SortStrings(r.fields)
         IN [k \in 1 .. 2 * Len(sorted) |->
               IF k % 2 = 1 THEN sorted[(k + 1) \div 2]
               ELSE fieldValue(r.id, e, sorted[k \div 2])]
    [] r.mode = "rule" -> <<>>

(* The bytes hashed: the parts written one after the other.                *)
Written(parts) ==
  LET bytes[i \in 0 .. Len(parts)] ==
        IF i = 0 THEN <<>> ELSE bytes[i - 1] \o writePart(parts[i])
  IN bytes[Len(parts)]

AllParts(r, e) ==
  <<Word.rule, r.id, Word.container, e.container, Word.mode, Word[r.mode]>> \o Parts(r, e)

Hashed(r, e) == Written(AllParts(r, e))

Fingerprint(r, e) == Hash[Hashed(r, e)]

(* Constants of the aggregator: every fingerprint of a rule has the rule's *)
(* settings, and the samples are those of the lines.                       *)
ASSUME DetectionAssumption ==
  /\ \A e \in Lines : rawIdentity(e) \in Samples
  /\ \A e \in Lines : \A i \in DOMAIN RuleList :
       LET r == RuleList[i]
           f == Fingerprint(r, e)
       IN /\ f \in Fingerprints
          /\ Threshold[f] = r.threshold /\ Window[f] = r.window /\ Cooldown[f] = r.cooldown

(* What is hashed are strings: of the rule, of the line, and what the      *)
(* normalizer makes of its message.                                        *)
Strings == Seq(Nat)

ASSUME DataAssumption ==
  /\ Len(RuleList) \in Nat /\ DOMAIN RuleList = 1 .. Len(RuleList)
  /\ \A i \in DOMAIN RuleList :
       LET r == RuleList[i]
       IN /\ r.stopOnMatch \in BOOLEAN
          /\ r.id \in Strings /\ r.fields \in Seq(Strings)
          /\ r.mode \in {"exact", "normalized", "fields", "rule"}
          /\ \A e \in Lines : Normalize(r, e.message) \in Strings
  /\ \A e \in Lines :
       /\ e.container \in Strings /\ e.raw \in Strings /\ e.message \in Strings
       /\ \A name \in DOMAIN e.fields : e.fields[name] \in Strings

(* validate rejects a second rule with the same ID, and no two of the      *)
(* inputs hashed collide under sha256.                                     *)
ASSUME IdentityAssumption ==
  \A i, j \in DOMAIN RuleList, d, e \in Lines :
    /\ RuleList[i].id = RuleList[j].id => i = j
    /\ Fingerprint(RuleList[i], d) = Fingerprint(RuleList[j], e) =>
         Hashed(RuleList[i], d) = Hashed(RuleList[j], e)

-----------------------------------------------------------------------------
(* What makes two events of a rule the same incident.                      *)
What(r, e) ==
  CASE r.mode = "exact" -> rawIdentity(e)
    [] r.mode = "normalized" -> Normalize(r, e.message)
    [] r.mode = "fields" ->
         [field \in { r.fields[k] : k \in DOMAIN r.fields } |-> fieldValue(r.id, e, field)]
    [] r.mode = "rule" -> <<>>

Incident(r, e) == [rule |-> r.id, container |-> e.container, what |-> What(r, e)]

DInit ==
  /\ Init
  /\ line = NoLine /\ todo = <<>> /\ hits = {} /\ members = << >>

(* One turn of the loop over the matches: Fingerprint and Record.          *)
RecordMatch(i, e, timestamp) ==
  LET f == Fingerprint(RuleList[i], e)
      earlier == IF f \in Active /\ ~Expired(groups[f]) THEN members[f] ELSE {}
  IN /\ Record(f, timestamp, rawIdentity(e))
     /\ members' = [g \in DOMAIN groups' |->
                      IF g = f THEN earlier \cup {Incident(RuleList[i], e)} ELSE members[g]]

(* Process up to its first Record.  Processor.mu keeps the next line out,  *)
(* but the clock and the other callers of the aggregator go on.            *)
Process(e, timestamp) ==
  LET matches == Matched(e)
  IN /\ todo = <<>>
     /\ line' = e
     /\ IF matches = <<>>
        THEN /\ hits' = {}
             /\ UNCHANGED <<now, groups, result, seen, todo, members>>
        ELSE /\ hits' = {Head(matches)}
             /\ todo' = [k \in 1 .. Len(matches) - 1 |->
                           [rule |-> matches[k + 1], timestamp |-> timestamp]]
             /\ RecordMatch(Head(matches), e, timestamp)

ProcessNext ==
  /\ todo # <<>>
  /\ RecordMatch(Head(todo).rule, line, Head(todo).timestamp)
  /\ hits' = hits \cup {Head(todo).rule}
  /\ todo' = Tail(todo)
  /\ UNCHANGED line

(* Time passes, or somebody reads the aggregator.  The observer's          *)
(* Aggregated calls Len right after each Record, at the same time, when it *)
(* evicts nothing more.                                                    *)
Aside ==
  /\ Tick \/ LenOrState
  /\ members' = Keep(members, DOMAIN groups')
  /\ UNCHANGED <<line, todo, hits>>

DNext ==
  \/ \E e \in Lines, timestamp \in EventTimes : Process(e, timestamp)
  \/ ProcessNext
  \/ Aside

DSpec == DInit /\ [][DNext]_dvars

-----------------------------------------------------------------------------
(* Properties                                                              *)

\* A line is counted once by each rule that matches it and that no earlier matching
\* rule with stop_on_match shadows, and by no other rule; a line below the candidate
\* levels is counted by none, one without a level like a candidate.
CountedByRules ==
  line # NoLine /\ todo = <<>> =>
    hits = { i \in DOMAIN RuleList :
               /\ line.level \in AlertCandidates \cup {LevelUnknown}
               /\ Matches(RuleList[i], line)
               /\ \A j \in 1 .. i - 1 :
                    Matches(RuleList[j], line) => ~RuleList[j].stopOnMatch }

\* A group of the aggregator is one incident: all its events agree in rule, container
\* and what the rule deduplicates by, and no two groups are of the same incident.
\* Fields that run together in the bytes hashed would merge two of them.
OneIncidentPerGroup ==
  /\ \A f \in Active : Cardinality(members[f]) = 1
  /\ \A f, g \in Active : f # g => members[f] # members[g]
=============================================================================
