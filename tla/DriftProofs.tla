------------------------------ MODULE DriftProofs ------------------------------
(***************************************************************************)
(* Theorems about Drift, for every set of manifests with any number of     *)
(* tools, any policies, lint rules and risk profiles, and any overlap of   *)
(* saves, baselines and checks.                                            *)
(*                                                                         *)
(* DiskInv and CheckerInv say what the baseline on disk, and what a check  *)
(* has of it in hand, may be: nothing, a file cut short, or the baseline   *)
(* of a manifest that parsed.  What a report means then follows from what  *)
(* the comparison of one tool with one entry finds.                        *)
(***************************************************************************)
EXTENDS Drift, SequenceTheorems, TLAPS

(* Well-founded induction, under a name of its own.                        *)
WF == INSTANCE WellFoundedInduction

-----------------------------------------------------------------------------
(* Endpoints.                                                              *)

(* The texts of an endpoint are a sequence with something in it.           *)
LEMMA TextsFacts ==
    ASSUME NEW e, IsEndpoint(e)
    PROVE  /\ Len(e.texts) \in Nat \ {0}
           /\ e.texts[Len(e.texts)] \in STRING
           /\ Len(e.texts) > 1 =>
                 /\ Tail(e.texts) \in Seq(STRING)
                 /\ Len(Tail(e.texts)) = Len(e.texts) - 1
                 /\ \A i \in 1 .. Len(Tail(e.texts)) : Tail(e.texts)[i] = e.texts[i + 1]
  <1>1. PICK t : t = e.texts
    OBVIOUS
  <1>2. t \in Seq(STRING) /\ t # <<>>
    BY <1>1 DEF IsEndpoint
  <1>3. Len(t) \in Nat \ {0} /\ t[Len(t)] \in STRING
    BY <1>2, EmptySeq, LenProperties
  <1>4. /\ Tail(t) \in Seq(STRING)
        /\ Len(Tail(t)) = Len(t) - 1
        /\ \A i \in 1 .. Len(Tail(t)) : Tail(t)[i] = t[i + 1]
    BY <1>2, HeadTailProperties
  <1> QED
    BY <1>1, <1>3, <1>4

(* What sanitising leaves of the texts of an endpoint.                     *)
Sanitized(texts, place) == IF Len(texts) > 1 THEN Tail(texts) ELSE <<place>>

(* A sequence of one text.                                                 *)
LEMMA OneText ==
    ASSUME NEW text \in STRING
    PROVE  /\ <<text>> \in Seq(STRING) /\ <<text>> # <<>>
           /\ Len(<<text>>) = 1 /\ <<text>>[1] = text
  <1>1. \A S : \A x \in S : <<x>> \in Seq(S)
    OBVIOUS
  <1>2. <<text>> \in Seq(STRING)
    BY <1>1, Zenon
  <1>3. \A x : Len(<<x>>) = 1 /\ <<x>>[1] = x /\ <<x>> # <<>>
    OBVIOUS
  <1>4. Len(<<text>>) = 1 /\ <<text>>[1] = text /\ <<text>> # <<>>
    BY <1>3, Zenon
  <1> QED
    BY <1>2, <1>4, Zenon

(* Sanitising keeps where an endpoint leads.                               *)
LEMMA SanitizeKeeps ==
    ASSUME NEW e, IsEndpoint(e), e # Missing
    PROVE  LET s == sanitizeEndpoint(e)
           IN  /\ s.place = e.place /\ s.query = ""
               /\ s.texts = Sanitized(e.texts, e.place)
               /\ IsEndpoint(s)
  <1>1. PICK s : s = sanitizeEndpoint(e)
    OBVIOUS
  <1>2. e = [field \in EndpointField |-> e[field]] /\ DOMAIN e = EndpointField
    BY DEF IsEndpoint
  <1>3. s = [e EXCEPT !.query = "", !.texts = Sanitized(e.texts, e.place)]
    BY <1>1, <1>2 DEF sanitizeEndpoint, EndpointField, Sanitized
  <1>4. /\ s.place = e.place /\ s.query = ""
        /\ s.texts = Sanitized(e.texts, e.place)
    BY <1>2, <1>3 DEF EndpointField
  <1>5. s = [field \in EndpointField |-> s[field]]
    BY <1>2, <1>3
  <1>6. PICK t : t = s.texts
    OBVIOUS
  <1>7. e.place \in STRING
    BY DEF IsEndpoint
  <1>8. t \in Seq(STRING) /\ t # <<>> /\ (t[Len(t)] = "" => e.place = "")
    <2>1. CASE Len(e.texts) > 1
      <3>1. t = Tail(e.texts)
        BY <1>4, <1>6, <2>1 DEF Sanitized
      <3>2. Len(e.texts) \in Nat \ {0} /\ Len(t) = Len(e.texts) - 1
        BY <2>1, <3>1, TextsFacts
      <3>3. Len(t) \in 1 .. Len(t) /\ Len(t) + 1 = Len(e.texts)
        BY <2>1, <3>2
      <3>4. t[Len(t)] = e.texts[Len(e.texts)]
        BY <2>1, <3>1, <3>3, TextsFacts
      <3>5. t \in Seq(STRING)
        BY <2>1, <3>1, TextsFacts
      <3>6. t # <<>>
        <4>1. Len(t) # 0
          BY <3>3
        <4> QED
          BY <4>1, EmptySeq
      <3> QED
        BY <3>4, <3>5, <3>6 DEF IsEndpoint
    <2>2. CASE ~(Len(e.texts) > 1)
      <3>1. t = <<e.place>>
        BY <1>4, <1>6, <2>2 DEF Sanitized
      <3> QED
        BY <1>7, <3>1, OneText
    <2> QED
      BY <2>1, <2>2
  <1>9. IsEndpoint(s)
    BY <1>4, <1>5, <1>6, <1>7, <1>8 DEF IsEndpoint
  <1> QED
    BY <1>1, <1>4, <1>9

(* Sanitising a second time changes nothing, but for an endpoint that is   *)
(* cut at an "@" and leaves something that is sanitised to something else. *)
LEMMA SanitizeTwice ==
    ASSUME NEW e, IsEndpoint(e), e # Missing, sanitizeEndpoint(e) # Missing,
           Len(e.texts) <= 2, Len(e.texts) = 2 => e.texts[2] = e.place
    PROVE  sanitizeEndpoint(sanitizeEndpoint(e)) = sanitizeEndpoint(e)
  <1>1. PICK s : s = sanitizeEndpoint(e)
    OBVIOUS
  <1>2. /\ s # Missing
        /\ s.place = e.place /\ s.query = ""
        /\ s.texts = Sanitized(e.texts, e.place)
        /\ s = [field \in EndpointField |-> s[field]]
        /\ IsEndpoint(s)
    BY <1>1, SanitizeKeeps DEF IsEndpoint
  <1>3. Len(s.texts) = 1 /\ s.texts[1] = e.place
    <2>1. CASE Len(e.texts) > 1
      <3>1. Len(e.texts) = 2 /\ e.texts[2] = e.place
        <4>1. \A n \in Nat : n > 1 /\ n <= 2 => n = 2
          OBVIOUS
        <4> QED
          BY <2>1, <4>1, TextsFacts
      <3>2. s.texts = Tail(e.texts)
        BY <1>2, <2>1 DEF Sanitized
      <3>3. Len(s.texts) = 1
        BY <2>1, <3>1, <3>2, TextsFacts
      <3>4. 1 \in 1 .. Len(s.texts) /\ 1 + 1 = 2
        BY <3>3
      <3>5. s.texts[1] = e.texts[2]
        BY <2>1, <3>2, <3>4, TextsFacts
      <3> QED
        BY <3>1, <3>3, <3>5
    <2>2. CASE ~(Len(e.texts) > 1)
      <3>1. s.texts = <<e.place>> /\ e.place \in STRING
        BY <1>2, <2>2 DEF Sanitized, IsEndpoint
      <3> QED
        BY <3>1, OneText
    <2> QED
      BY <2>1, <2>2
  <1>4. s.texts = <<e.place>>
    <2>1. s.texts \in Seq(STRING) /\ <<e.place>> \in Seq(STRING) /\ e.place \in STRING
      BY <1>2, OneText DEF IsEndpoint
    <2> QED
      BY <1>3, <2>1, OneText, SeqEqual
  <1>5. Sanitized(s.texts, s.place) = s.texts
    <2>1. ~(1 > 1)
      OBVIOUS
    <2>2. Sanitized(s.texts, s.place) = <<s.place>>
      BY <1>3, <2>1, Zenon DEF Sanitized
    <2> QED
      BY <1>2, <1>4, <2>2, Zenon
  <1>6. DOMAIN s = EndpointField
    BY <1>2
  <1>7. sanitizeEndpoint(s) = [s EXCEPT !.query = "", !.texts = Sanitized(s.texts, s.place)]
    BY <1>2, <1>6 DEF sanitizeEndpoint, EndpointField, Sanitized
  <1>8. [s EXCEPT !.query = "", !.texts = s.texts] = s
    BY <1>2, <1>6 DEF EndpointField
  <1> QED
    BY <1>1, <1>5, <1>7, <1>8

(* What is known of the endpoint of a tool, if it has one.                 *)
Known(e) ==
    e # Missing => IsEndpoint(e) /\ sanitizeEndpoint(e) # Missing
                                 /\ sanitizeEndpoint(sanitizeEndpoint(e)) # Missing

(* What is compared of an endpoint that does not sanitise to nothing.      *)
LEMMA HashOf ==
    ASSUME NEW e, e # Missing, IsEndpoint(e), sanitizeEndpoint(e) # Missing
    PROVE  \/ EndpointHash(e) = NoHash /\ e.place = ""
           \/ EndpointHash(e) = <<sanitizeEndpoint(e)>>
  <1>1. PICK s : s = sanitizeEndpoint(e)
    OBVIOUS
  <1>2. s.place = e.place /\ IsEndpoint(s)
    BY <1>1, SanitizeKeeps
  <1>3. CASE s.texts = <<"">>
    <2>1. Len(<<"">>) = 1 /\ <<"">>[1] = ""
      OBVIOUS
    <2>2. s.texts[Len(s.texts)] = ""
      BY <1>3, <2>1, Zenon
    <2>3. e.place = ""
      BY <1>2, <2>2 DEF IsEndpoint
    <2> QED
      BY <1>1, <1>3, <2>3 DEF EndpointHash
  <1>4. CASE s.texts # <<"">>
    BY <1>1, <1>4 DEF EndpointHash, deterministicHash
  <1> QED
    BY <1>3, <1>4

(* Endpoints that are compared alike lead to the same place; the one of    *)
(* the entry was sanitised before.                                         *)
LEMMA SameHash ==
    ASSUME NEW d, NEW e, Known(d), Known(e),
           EndpointHash(d) = EndpointHash(sanitizeEndpoint(e))
    PROVE  Place(d) = Place(e)
  <1>1. EndpointHash(Missing) = NoHash /\ Place(Missing) = "" /\ sanitizeEndpoint(Missing) = Missing
    BY DEF EndpointHash, sanitizeEndpoint, deterministicHash, Place
  <1>2. \A value : NoHash # <<value>>
    BY DEF NoHash
  <1>3. PICK s : s = sanitizeEndpoint(e)
    OBVIOUS
  <1>4. e # Missing => s # Missing /\ IsEndpoint(s) /\ sanitizeEndpoint(s) # Missing /\ s.place = e.place
    BY <1>3, SanitizeKeeps DEF Known
  <1>5. CASE EndpointHash(d) = NoHash
    <2>1. Place(d) = ""
      BY <1>1, <1>2, <1>5, HashOf DEF Known, Place
    <2>2. Place(e) = ""
      BY <1>1, <1>2, <1>3, <1>4, <1>5, HashOf DEF Place
    <2> QED
      BY <2>1, <2>2
  <1>6. CASE EndpointHash(d) # NoHash
    <2>1. d # Missing /\ e # Missing
      BY <1>1, <1>3, <1>6
    <2>2. EndpointHash(d) = <<sanitizeEndpoint(d)>> /\ EndpointHash(s) = <<sanitizeEndpoint(s)>>
      BY <1>3, <1>4, <1>6, <2>1, HashOf DEF Known
    <2>3. sanitizeEndpoint(d) = sanitizeEndpoint(s)
      <3>1. \A a, b : <<a>> = <<b>> => a = b
        OBVIOUS
      <3>2. <<sanitizeEndpoint(d)>> = <<sanitizeEndpoint(s)>>
        BY <1>3, <2>2, Zenon
      <3> QED
        BY <3>1, <3>2, Zenon
    <2>4. sanitizeEndpoint(d).place = d.place
      BY <2>1, SanitizeKeeps DEF Known
    <2>5. sanitizeEndpoint(s).place = s.place
      BY <1>4, <2>1, SanitizeKeeps
    <2> QED
      BY <1>4, <2>1, <2>3, <2>4, <2>5 DEF Place
  <1> QED
    BY <1>5, <1>6

-----------------------------------------------------------------------------
(* The comparison of a tool with an entry.                                 *)

(* Values with the same hash are the same.                                 *)
LEMMA HashIsInjective ==
    ASSUME NEW v, NEW w, deterministicHash(v) = deterministicHash(w)
    PROVE  v = w
  <1>1. \A a, b : <<a>> = <<b>> => a = b
    OBVIOUS
  <1>2. \A a : NoHash # <<a>>
    BY DEF NoHash
  <1> QED
    BY <1>1, <1>2 DEF deterministicHash

(* What it means that nothing was found.                                   *)
LEMMA NothingFound ==
    ASSUME NEW c, NEW r, compareTool(c, r) = {}
    PROVE  /\ deterministicHash(c.inputSchema) = r.schemaFingerprint
           /\ deterministicHash(c.description) = r.descriptionFingerprint
           /\ c.permissions = r.permissions
           /\ c.capabilities = r.capabilities
           /\ c.riskTags = r.riskTags
           /\ EndpointHash(ServerEndpoint(c)) = r.endpointFingerprint
           /\ c.serverName = r.serverName
           /\ deterministicHash(c.metadata) = r.metadataFingerprint
  <1>1. deterministicHash(c.inputSchema) = r.schemaFingerprint
    <2>1. "schema_changed" \in DriftType /\ "schema_changed" \notin compareTool(c, r)
      BY DEF DriftType
    <2> QED
      BY <2>1 DEF compareTool
  <1>2. deterministicHash(c.description) = r.descriptionFingerprint
    <2>1. "description_changed" \in DriftType /\ "description_changed" \notin compareTool(c, r)
      BY DEF DriftType
    <2> QED
      BY <2>1 DEF compareTool
  <1>3. c.permissions \subseteq r.permissions
    <2>1. "permissions_expanded" \in DriftType /\ "permissions_expanded" \notin compareTool(c, r)
      BY DEF DriftType
    <2> QED
      BY <2>1 DEF compareTool
  <1>4. r.permissions \subseteq c.permissions
    <2>1. "permissions_reduced" \in DriftType /\ "permissions_reduced" \notin compareTool(c, r)
      BY DEF DriftType
    <2> QED
      BY <2>1 DEF compareTool
  <1>5. c.capabilities \subseteq r.capabilities
    <2>1. "capabilities_expanded" \in DriftType /\ "capabilities_expanded" \notin compareTool(c, r)
      BY DEF DriftType
    <2> QED
      BY <2>1 DEF compareTool
  <1>6. r.capabilities \subseteq c.capabilities
    <2>1. "capabilities_reduced" \in DriftType /\ "capabilities_reduced" \notin compareTool(c, r)
      BY DEF DriftType
    <2> QED
      BY <2>1 DEF compareTool
  <1>7. c.riskTags \subseteq r.riskTags
    <2>1. "risk_tags_added" \in DriftType /\ "risk_tags_added" \notin compareTool(c, r)
      BY DEF DriftType
    <2> QED
      BY <2>1 DEF compareTool
  <1>8. r.riskTags \subseteq c.riskTags
    <2>1. "risk_tags_removed" \in DriftType /\ "risk_tags_removed" \notin compareTool(c, r)
      BY DEF DriftType
    <2> QED
      BY <2>1 DEF compareTool
  <1>9. EndpointHash(ServerEndpoint(c)) = r.endpointFingerprint /\ c.serverName = r.serverName
    <2>1. "endpoint_changed" \in DriftType /\ "endpoint_changed" \notin compareTool(c, r)
      BY DEF DriftType
    <2> QED
      BY <2>1 DEF compareTool
  <1>10. deterministicHash(c.metadata) = r.metadataFingerprint
    <2>1. "metadata_changed" \in DriftType /\ "metadata_changed" \notin compareTool(c, r)
      BY DEF DriftType
    <2> QED
      BY <2>1 DEF compareTool
  <1> QED
    BY <1>1, <1>2, <1>3, <1>4, <1>5, <1>6, <1>7, <1>8, <1>9, <1>10

(* What an entry records of a tool.                                        *)
LEMMA EntryOf ==
    ASSUME NEW t, IsTool(t)
    PROVE  LET r == createBaselineTool(t)
           IN  /\ r.name = t.name
               /\ r.schemaFingerprint = deterministicHash(t.inputSchema)
               /\ r.descriptionFingerprint = deterministicHash(t.description)
               /\ r.permissions = t.permissions
               /\ r.capabilities = t.capabilities
               /\ r.riskTags = t.riskTags
               /\ r.requiredArgs = extractRequiredArgs(t.inputSchema)
               /\ r.sensitiveArgs = extractSensitiveArgs(t.inputSchema)
               /\ r.serverName = t.serverName
               /\ r.endpointFingerprint = EndpointHash(sanitizeEndpoint(ServerEndpoint(t)))
               /\ r.metadataFingerprint = deterministicHash(t.metadata)
  <1>1. PICK n : n = normalizeTool(t)
    OBVIOUS
  <1>2. DOMAIN t = ToolField
    BY DEF IsTool
  <1>3. /\ n.endpoint = sanitizeEndpoint(t.endpoint)
        /\ n.serverEndpoint = sanitizeEndpoint(t.serverEndpoint)
    BY <1>1, <1>2 DEF normalizeTool, ToolField
  <1>4. n.serverEndpoint = Missing <=> t.serverEndpoint = Missing
    <2>1. sanitizeEndpoint(Missing) = Missing
      BY DEF sanitizeEndpoint
    <2> QED
      BY <1>3, <2>1 DEF IsTool
  <1>5. ServerEndpoint(n) = sanitizeEndpoint(ServerEndpoint(t))
    BY <1>3, <1>4 DEF ServerEndpoint
  <1> QED
    BY <1>1, <1>5 DEF createBaselineTool

(* The endpoint of a tool is known.                                        *)
LEMMA EndpointKnown ==
    ASSUME NEW t, IsTool(t)
    PROVE  Known(ServerEndpoint(t))
  BY DEF IsTool, Known, ServerEndpoint

(* A tool in which nothing was found is the recorded one in all that is    *)
(* watched.                                                                *)
LEMMA CleanToolIsUnchanged ==
    ASSUME NEW t, NEW s, IsTool(t), IsTool(s), t.name = s.name,
           compareTool(t, createBaselineTool(s)) = {}
    PROVE  Watched(t) = Watched(s)
  <1>1. PICK r : r = createBaselineTool(s)
    OBVIOUS
  <1>2. /\ r.schemaFingerprint = deterministicHash(s.inputSchema)
        /\ r.descriptionFingerprint = deterministicHash(s.description)
        /\ r.permissions = s.permissions
        /\ r.capabilities = s.capabilities
        /\ r.riskTags = s.riskTags
        /\ r.serverName = s.serverName
        /\ r.endpointFingerprint = EndpointHash(sanitizeEndpoint(ServerEndpoint(s)))
        /\ r.metadataFingerprint = deterministicHash(s.metadata)
    BY <1>1, EntryOf
  <1>3. compareTool(t, r) = {}
    BY <1>1
  <1>4. /\ t.permissions = s.permissions
        /\ t.capabilities = s.capabilities
        /\ t.riskTags = s.riskTags
        /\ t.serverName = s.serverName
        /\ EndpointHash(ServerEndpoint(t)) = EndpointHash(sanitizeEndpoint(ServerEndpoint(s)))
    BY <1>2, <1>3, NothingFound
  <1>5. t.inputSchema = s.inputSchema
    <2>1. deterministicHash(t.inputSchema) = deterministicHash(s.inputSchema)
      BY <1>2, <1>3, NothingFound
    <2> QED
      BY <2>1, HashIsInjective
  <1>6. t.description = s.description
    <2>1. deterministicHash(t.description) = deterministicHash(s.description)
      BY <1>2, <1>3, NothingFound
    <2> QED
      BY <2>1, HashIsInjective
  <1>7. t.metadata = s.metadata
    <2>1. deterministicHash(t.metadata) = deterministicHash(s.metadata)
      BY <1>2, <1>3, NothingFound
    <2> QED
      BY <2>1, HashIsInjective
  <1>8. [t EXCEPT !.endpoint = Missing, !.serverEndpoint = Missing]
            = [s EXCEPT !.endpoint = Missing, !.serverEndpoint = Missing]
    <2>1. DOMAIN t = ToolField /\ DOMAIN s = ToolField
      BY DEF IsTool
    <2>2. ASSUME NEW field \in ToolField \ {"endpoint", "serverEndpoint"}
          PROVE  t[field] = s[field]
      BY <1>4, <1>5, <1>6, <1>7 DEF ToolField
    <2> QED
      BY <2>1, <2>2
  <1>9. Place(ServerEndpoint(t)) = Place(ServerEndpoint(s))
    BY <1>4, EndpointKnown, SameHash
  <1> QED
    BY <1>8, <1>9 DEF Watched

(* A tool shows no drift from its own entry but for an endpoint that the   *)
(* entry and the comparison read in two ways.                              *)
LEMMA OwnEntryIsClean ==
    ASSUME NEW t, IsTool(t), NEW type \in compareTool(t, createBaselineTool(t))
    PROVE  type = "endpoint_changed" /\ ReadTwoWays(t)
  <1>1. PICK r : r = createBaselineTool(t)
    OBVIOUS
  <1>2. /\ r.schemaFingerprint = deterministicHash(t.inputSchema)
        /\ r.descriptionFingerprint = deterministicHash(t.description)
        /\ r.permissions = t.permissions
        /\ r.capabilities = t.capabilities
        /\ r.riskTags = t.riskTags
        /\ r.requiredArgs = extractRequiredArgs(t.inputSchema)
        /\ r.sensitiveArgs = extractSensitiveArgs(t.inputSchema)
        /\ r.serverName = t.serverName
        /\ r.endpointFingerprint = EndpointHash(sanitizeEndpoint(ServerEndpoint(t)))
        /\ r.metadataFingerprint = deterministicHash(t.metadata)
    BY <1>1, EntryOf
  <1>3. type \in compareTool(t, r)
    BY <1>1
  <1>4. type = "endpoint_changed"
    BY <1>2, <1>3 DEF compareTool, DriftType
  <1>5. EndpointHash(ServerEndpoint(t)) # EndpointHash(sanitizeEndpoint(ServerEndpoint(t)))
    BY <1>2, <1>3, <1>4 DEF compareTool
  <1>6. PICK e : e = ServerEndpoint(t)
    OBVIOUS
  <1>7. e # Missing
    <2>1. sanitizeEndpoint(Missing) = Missing
      BY DEF sanitizeEndpoint
    <2> QED
      BY <1>5, <1>6, <2>1
  <1>8. IsEndpoint(e) /\ sanitizeEndpoint(e) # Missing
    BY <1>6, <1>7, EndpointKnown DEF Known
  <1>9. ASSUME Len(e.texts) <= 2, Len(e.texts) = 2 => e.texts[2] = e.place
        PROVE  FALSE
    <2>1. sanitizeEndpoint(sanitizeEndpoint(e)) = sanitizeEndpoint(e)
      BY <1>7, <1>8, <1>9, SanitizeTwice
    <2>2. EndpointHash(sanitizeEndpoint(e)) = EndpointHash(e)
      BY <2>1 DEF EndpointHash
    <2> QED
      BY <1>5, <1>6, <2>2
  <1>10. Len(e.texts) \in Nat
    BY <1>8, TextsFacts
  <1>11. \/ Len(e.texts) > 2
         \/ Len(e.texts) = 2 /\ e.texts[2] # e.place
    BY <1>9, <1>10
  <1> QED
    BY <1>4, <1>6, <1>7, <1>11 DEF ReadTwoWays

-----------------------------------------------------------------------------
(* What is on disk, and what a check has in hand.                          *)

(* A baseline file: none, one that was cut short, or the one of a manifest *)
(* that parsed.                                                            *)
Recorded(file, from) ==
    \/ file = Missing
    \/ file = Cut
    \/ from \in Manifests /\ ManifestParses(from) /\ file = createToolBaseline(from)

DiskInv ==
    /\ manifest \in Manifests \cup {Missing}
    /\ DOMAIN recorder = {"pc", "read"}
    /\ recorder.pc # "idle" => recorder.read \in Manifests /\ ManifestParses(recorder.read)
    /\ Recorded(baseline, source)

(* What a check that reports has compared, and with what outcome.          *)
FullReport(c) ==
    /\ c.tools \in Manifests /\ Recorded(c.baseline, c.source) /\ c.baseline # Missing
    /\ ManifestParses(c.tools) /\ BaselineParses(c.baseline)
    /\ Accepted(c.options)
    /\ c.options.policy \in PolicyOptions
    /\ c.drifts = AllDrifts(c.tools, c.baseline,
                            IF c.options.rules = Missing THEN {} ELSE c.options.rules, c.options.profile)
    /\ c.affected = IF c.options.policy = Missing THEN {} ELSE analyzePolicyImpact(c.drifts, c.options.policy)
    /\ c.exit = IF shouldFail(c.drifts, c.options.failOn) THEN 1 ELSE 0

CheckerInv ==
    /\ DOMAIN checker = DOMAIN NotChecked
    /\ checker.pc # "exited" => checker.options = Missing /\ checker.exit = -1
    /\ checker.pc \in {"tools", "baseline"} => checker.tools \in Manifests
    /\ checker.pc = "baseline" => Recorded(checker.baseline, checker.source) /\ checker.baseline # Missing
    /\ checker.pc = "exited" => \/ checker.options = Missing /\ checker.exit = 1
                                \/ FullReport(checker)

(* Nothing is recorded and nothing checked at first.                       *)
LEMMA DriftInit == Init => DiskInv /\ CheckerInv
  BY DEF Init, DiskInv, Recorded, CheckerInv, NotChecked

(* Every step leaves a baseline that is whole, or none.                    *)
LEMMA DiskStep == DiskInv /\ [Next]_vars => DiskInv'
  <1> SUFFICES ASSUME DiskInv, [Next]_vars PROVE DiskInv'
    OBVIOUS
  <1>1. ASSUME NEW m \in Manifests, UserSaves(m)
        PROVE  DiskInv'
    BY <1>1 DEF UserSaves, DiskInv
  <1>2. CASE BaselineReads
    BY <1>2 DEF BaselineReads, DiskInv
  <1>3. CASE BaselineOpens
    BY <1>3 DEF BaselineOpens, DiskInv, Recorded
  <1>4. CASE BaselineWrites
    BY <1>4 DEF BaselineWrites, DiskInv, Recorded
  <1>5. CASE BaselineDies
    BY <1>5 DEF BaselineDies, DiskInv
  <1>6. CASE UNCHANGED <<manifest, baseline, source, recorder>>
    BY <1>6 DEF DiskInv
  <1> QED
    BY <1>1, <1>2, <1>3, <1>4, <1>5, <1>6
       DEF Next, CheckReadsTools, CheckReadsBaseline, CheckFindsNoFile, CheckRejects, CheckReports, vars

(* Every step of a check keeps what it has in hand.                        *)
LEMMA CheckerStep == DiskInv /\ CheckerInv /\ [Next]_vars => CheckerInv'
  <1> SUFFICES ASSUME DiskInv, CheckerInv, [Next]_vars PROVE CheckerInv'
    OBVIOUS
  <1>1. CASE CheckReadsTools
    BY <1>1 DEF CheckReadsTools, CheckerInv, DiskInv, NotChecked
  <1>2. CASE CheckReadsBaseline
    BY <1>2 DEF CheckReadsBaseline, CheckerInv, DiskInv, NotChecked
  <1>3. CASE CheckFindsNoFile
    BY <1>3 DEF CheckFindsNoFile, Exit, CheckerInv, NotChecked
  <1>4. CASE CheckRejects
    BY <1>4 DEF CheckRejects, Exit, CheckerInv, NotChecked
  <1>5. ASSUME NEW failOn \in FailLevel, NEW policy \in PolicyOptions, NEW rules \in RuleOptions,
               NEW profile \in ProfileOptions, CheckReports(failOn, policy, rules, profile)
        PROVE  CheckerInv'
    <2>1. PICK options, drifts :
              /\ options = [failOn |-> failOn, policy |-> policy, rules |-> rules, profile |-> profile]
              /\ drifts = AllDrifts(checker.tools, checker.baseline, IF rules = Missing THEN {} ELSE rules, profile)
      OBVIOUS
    <2>2. /\ checker.pc = "baseline"
          /\ DocumentsParse
          /\ Accepted(options)
          /\ checker' = [Exit(IF shouldFail(drifts, failOn) THEN 1 ELSE 0) EXCEPT
                           !.options = options,
                           !.drifts = drifts,
                           !.affected = IF policy = Missing THEN {} ELSE analyzePolicyImpact(drifts, policy)]
      BY <1>5, <2>1 DEF CheckReports
    <2>3. /\ DOMAIN checker' = DOMAIN NotChecked
          /\ checker'.pc = "exited"
          /\ checker'.tools = checker.tools /\ checker'.baseline = checker.baseline
          /\ checker'.source = checker.source
          /\ checker'.options = options /\ checker'.drifts = drifts
          /\ checker'.affected = IF policy = Missing THEN {} ELSE analyzePolicyImpact(drifts, policy)
          /\ checker'.exit = IF shouldFail(drifts, failOn) THEN 1 ELSE 0
      BY <2>2 DEF Exit, CheckerInv, NotChecked
    <2>4. /\ options.failOn = failOn /\ options.policy = policy
          /\ options.rules = rules /\ options.profile = profile
      BY <2>1
    <2>5. FullReport(checker')
      BY <2>1, <2>2, <2>3, <2>4 DEF FullReport, CheckerInv, DocumentsParse
    <2>6. FullReport(checker)'
      BY <2>5 DEF FullReport, Accepted, RulesAccepted
    <2> QED
      BY <2>3, <2>6 DEF CheckerInv
  <1>6. CASE UNCHANGED checker
    BY <1>6 DEF CheckerInv, FullReport
  <1> QED
    BY <1>1, <1>2, <1>3, <1>4, <1>5, <1>6
       DEF Next, UserSaves, BaselineReads, BaselineOpens, BaselineWrites, BaselineDies, vars

(* Both hold at any time.                                                  *)
LEMMA DriftInvariant == Spec => [](DiskInv /\ CheckerInv)
  <1>1. DiskInv /\ CheckerInv /\ [Next]_vars => (DiskInv /\ CheckerInv)'
    BY DiskStep, CheckerStep
  <1> QED
    BY <1>1, DriftInit, PTL DEF Spec

(* A baseline that parses was made from a manifest.                        *)
LEMMA WholeBaseline ==
    ASSUME FullReport(checker)
    PROVE  /\ checker.source \in Manifests
           /\ ManifestParses(checker.source)
           /\ checker.baseline = createToolBaseline(checker.source)
  <1>1. PICK b : b = checker.baseline
    OBVIOUS
  <1>2. Recorded(b, checker.source) /\ b # Missing /\ b.json
    BY <1>1 DEF FullReport, BaselineParses
  <1>3. b # Cut
    BY <1>2 DEF Cut
  <1> QED
    BY <1>1, <1>2, <1>3 DEF Recorded

-----------------------------------------------------------------------------
(* What a clean check means.                                               *)

(* Under a risk profile every drift has a severity.                        *)
LEMMA DriftsHaveSeverities ==
    ASSUME NEW m, NEW b, NEW rules, NEW profile, profile # Missing, RiskProfileAccepted(profile),
           NEW drift \in AllDrifts(m, b, rules, profile)
    PROVE  drift.severity \in Severity
  <1>1. ASSUME NEW type, NEW default \in Severity
        PROVE  Given(profile, type, default) \in Severity
    BY <1>1 DEF Given, RiskProfileAccepted
  <1>2. \A type : driftSeverity(type, profile) \in Severity
    <2>1. "high" \in Severity /\ "medium" \in Severity /\ "low" \in Severity
      BY DEF Severity
    <2> QED
      BY <1>1, <2>1 DEF driftSeverity
  <1>3. \A tool : newToolSeverity(tool, profile, rules) \in Severity
    <2>1. "high" \in Severity /\ "low" \in Severity
      BY DEF Severity
    <2> QED
      BY <1>1, <2>1 DEF newToolSeverity
  <1>4. \A tool, type, severity : Finding(tool, type, severity).severity = severity
    BY DEF Finding
  <1>5. ASSUME NEW tool, drift \in ToolDrifts(tool, b, rules, profile)
        PROVE  drift.severity \in Severity
    BY <1>2, <1>3, <1>4, <1>5 DEF ToolDrifts
  <1>6. \/ \E i \in DOMAIN m.tools : drift \in ToolDrifts(m.tools[i], b, rules, profile)
        \/ \E name : drift = Finding(name, "removed_tool", driftSeverity("removed_tool", profile))
    BY DEF AllDrifts
  <1> QED
    BY <1>2, <1>4, <1>5, <1>6

(* A manifest without any drift from the baseline of another one has the   *)
(* same tools.                                                             *)
LEMMA NoDriftMeansUnchanged ==
    ASSUME NEW m \in Manifests, NEW from \in Manifests, ManifestParses(from),
           NEW rules, NEW profile, AllDrifts(m, createToolBaseline(from), rules, profile) = {}
    PROVE  WatchedTools(m) = WatchedTools(from)
  <1>1. PICK b : b = createToolBaseline(from)
    OBVIOUS
  <1>2. /\ DOMAIN b.tools = DOMAIN from.tools
        /\ \A j \in DOMAIN from.tools : b.tools[j] = createBaselineTool(from.tools[j])
    BY <1>1 DEF createToolBaseline
  <1>3. \A i \in DOMAIN m.tools : IsTool(m.tools[i])
    BY DriftAssumption
  <1>4. \A j \in DOMAIN from.tools : IsTool(from.tools[j]) /\ b.tools[j].name = from.tools[j].name
    BY <1>2, DriftAssumption, EntryOf
  <1>5. ASSUME NEW i \in DOMAIN m.tools
        PROVE  \E j \in DOMAIN from.tools : /\ from.tools[j].name = m.tools[i].name
                                            /\ Watched(from.tools[j]) = Watched(m.tools[i])
    <2>1. ToolDrifts(m.tools[i], b, rules, profile) = {}
      BY <1>1 DEF AllDrifts
    <2>2. PICK j \in DOMAIN b.tools : b.tools[j].name = m.tools[i].name
      BY <2>1 DEF ToolDrifts
    <2>3. compareTool(m.tools[i], b.tools[j]) = {}
      BY <2>1, <2>2 DEF ToolDrifts
    <2>4. compareTool(m.tools[i], createBaselineTool(from.tools[j])) = {}
      BY <1>2, <2>2, <2>3
    <2>5. from.tools[j].name = m.tools[i].name /\ j \in DOMAIN from.tools
      BY <1>2, <1>4, <2>2
    <2>6. Watched(m.tools[i]) = Watched(from.tools[j])
      BY <1>3, <1>4, <2>4, <2>5, CleanToolIsUnchanged
    <2> QED
      BY <2>5, <2>6
  <1>6. ASSUME NEW j \in DOMAIN from.tools
        PROVE  \E i \in DOMAIN m.tools : Watched(m.tools[i]) = Watched(from.tools[j])
    <2>1. PICK i \in DOMAIN m.tools : m.tools[i].name = b.tools[j].name
      <3>1. ASSUME \A i \in DOMAIN m.tools : m.tools[i].name # b.tools[j].name
            PROVE  FALSE
        <4>1. b.tools[j].name \in {b.tools[i].name : i \in DOMAIN b.tools}
          BY <1>2
        <4>2. b.tools[j].name \notin {m.tools[i].name : i \in DOMAIN m.tools}
          BY <3>1
        <4>3. Finding(b.tools[j].name, "removed_tool", driftSeverity("removed_tool", profile))
                  \in AllDrifts(m, b, rules, profile)
          BY <4>1, <4>2 DEF AllDrifts
        <4> QED
          BY <1>1, <4>3
      <3> QED
        BY <3>1
    <2>2. PICK k \in DOMAIN from.tools : /\ from.tools[k].name = m.tools[i].name
                                         /\ Watched(from.tools[k]) = Watched(m.tools[i])
      BY <1>5
    <2>3. k = j
      BY <1>4, <2>1, <2>2 DEF ManifestParses, UniqueNames
    <2> QED
      BY <2>2, <2>3
  <1> QED
    BY <1>5, <1>6 DEF WatchedTools

(* A check under a risk profile and --fail-on low that exits with 0 means  *)
(* that no tool has changed in anything that is watched since a whole      *)
(* baseline was made, whatever was saved, written or left half written     *)
(* while it ran.                                                           *)
THEOREM CleanChecksAreClean == Spec => []CleanCheckMeansUnchanged
  <1>1. ASSUME CheckerInv, checker.exit = 0, checker.options.failOn = "low", checker.options.profile # Missing
        PROVE  checker.source # Missing /\ WatchedTools(checker.tools) = WatchedTools(checker.source)
    <2>1. FullReport(checker)
      BY <1>1 DEF CheckerInv
    <2>2. PICK rules, profile :
              /\ rules = (IF checker.options.rules = Missing THEN {} ELSE checker.options.rules)
              /\ profile = checker.options.profile
      OBVIOUS
    <2>3. /\ checker.drifts = AllDrifts(checker.tools, checker.baseline, rules, profile)
          /\ ~shouldFail(checker.drifts, "low")
          /\ profile # Missing /\ RiskProfileAccepted(profile)
      BY <1>1, <2>1, <2>2 DEF FullReport, Accepted
    <2>4. checker.drifts = {}
      <3>1. ASSUME NEW drift \in checker.drifts
            PROVE  FALSE
        <4>1. drift.severity \in Severity
          BY <2>3, <3>1, DriftsHaveSeverities
        <4>2. drift.severity = Missing
          BY <2>3, <3>1, <4>1 DEF shouldFail, Rank, Severity
        <4> QED
          BY <4>1, <4>2, DriftAssumption
      <3> QED
        BY <3>1
    <2> QED
      BY <2>1, <2>3, <2>4, WholeBaseline, NoDriftMeansUnchanged, DriftAssumption DEF FullReport
  <1>2. DiskInv /\ CheckerInv => CleanCheckMeansUnchanged
    BY <1>1 DEF CleanCheckMeansUnchanged
  <1> QED
    BY <1>2, DriftInvariant, PTL

-----------------------------------------------------------------------------
(* What a check against the own baseline says.                             *)

(* A manifest that is compared with its own baseline shows no drift, but   *)
(* for what the lint rules say and for endpoints that are read in two ways *)
(* many tools it has and whatever they hold.                               *)
THEOREM OwnBaselinesAreClean == Spec => []OwnBaselineIsClean
  <1>1. ASSUME CheckerInv, Reported, checker.tools = checker.source,
               NEW drift \in checker.drifts, drift.type # "capability_metadata_mismatch"
        PROVE  /\ drift.type = "endpoint_changed"
               /\ \E i \in DOMAIN checker.tools.tools :
                     checker.tools.tools[i].name = drift.tool /\ ReadTwoWays(checker.tools.tools[i])
    <2>1. FullReport(checker)
      BY <1>1 DEF CheckerInv, Reported
    <2>2. PICK m, b, rules, profile :
              /\ m = checker.tools /\ b = checker.baseline
              /\ rules = (IF checker.options.rules = Missing THEN {} ELSE checker.options.rules)
              /\ profile = checker.options.profile
      OBVIOUS
    <2>3. drift \in AllDrifts(m, b, rules, profile)
      BY <2>1, <2>2 DEF FullReport
    <2>4. m \in Manifests /\ ManifestParses(m) /\ b = createToolBaseline(m)
      BY <1>1, <2>1, <2>2, WholeBaseline
    <2>5. /\ DOMAIN b.tools = DOMAIN m.tools
          /\ \A j \in DOMAIN m.tools : b.tools[j] = createBaselineTool(m.tools[j])
      BY <2>4 DEF createToolBaseline
    <2>6. \A j \in DOMAIN m.tools : IsTool(m.tools[j]) /\ b.tools[j].name = m.tools[j].name
      BY <2>4, <2>5, DriftAssumption, EntryOf
    <2>7. {b.tools[i].name : i \in DOMAIN b.tools} \ {m.tools[i].name : i \in DOMAIN m.tools} = {}
      BY <2>5, <2>6
    <2>8. PICK i \in DOMAIN m.tools : drift \in ToolDrifts(m.tools[i], b, rules, profile)
      BY <2>3, <2>7 DEF AllDrifts
    <2>9. {j \in DOMAIN b.tools : b.tools[j].name = m.tools[i].name} = {i}
      BY <2>4, <2>5, <2>6 DEF ManifestParses, UniqueNames
    <2>10. PICK type \in compareTool(m.tools[i], b.tools[i]) :
               drift = Finding(m.tools[i].name, type, driftSeverity(type, profile))
      BY <1>1, <2>8, <2>9 DEF ToolDrifts, Finding
    <2>11. type \in compareTool(m.tools[i], createBaselineTool(m.tools[i]))
      BY <2>5, <2>10
    <2>12. type = "endpoint_changed" /\ ReadTwoWays(m.tools[i])
      BY <2>6, <2>11, OwnEntryIsClean
    <2> QED
      BY <2>2, <2>10, <2>12 DEF Finding
  <1>2. DiskInv /\ CheckerInv => OwnBaselineIsClean
    BY <1>1 DEF OwnBaselineIsClean
  <1> QED
    BY <1>2, DriftInvariant, PTL

-----------------------------------------------------------------------------
(* What a check says of the rules that let a drifted tool run.             *)

(* A set of naturals with a member has a smallest one.                     *)
LEMMA SmallestNat ==
    ASSUME NEW T \in SUBSET Nat, T # {}
    PROVE  \E m \in T : \A n \in T : m <= n
  <1> DEFINE R == {ss \in Nat \X Nat : ss[1] < ss[2]}
  <1>1. WF!IsWellFoundedOn(R, Nat)
    BY WF!NatLessThanWellFounded DEF WF!OpToRel
  <1>2. \A n, m \in Nat : n < m => <<n, m>> \in R
    OBVIOUS
  <1> HIDE DEF R
  <1>3. PICK m \in T : \A n \in T : ~(<<n, m>> \in R)
    BY <1>1, WF!WFMin
  <1>4. ASSUME NEW n \in T
        PROVE  m <= n
    <2>1. n \in Nat /\ m \in Nat /\ ~(<<n, m>> \in R)
      BY <1>3
    <2>2. ~(n < m)
      BY <1>2, <2>1
    <2> QED
      BY <2>1, <2>2
  <1> QED
    BY <1>4

(* Of rules that match, one is tried first.                                *)
LEMMA FirstRuleExists ==
    ASSUME NEW policies, NEW T \in SUBSET DOMAIN policies, T # {}, DOMAIN policies \subseteq Nat \ {0},
           \A r \in DOMAIN policies : policies[r].priority \in Nat
    PROVE  \E r \in T : \A q \in T \ {r} : Before(policies, r, q)
  <1> DEFINE Prior == {r \in T : policies[r].priority # 0}
  <1>1. \A r \in T : r \in Nat /\ policies[r].priority \in Nat
    OBVIOUS
  <1>2. CASE Prior = {}
    <2>1. \A r \in T : policies[r].priority = 0
      BY <1>2
    <2>2. PICK r \in T : \A q \in T : r <= q
      BY <1>1, SmallestNat
    <2>3. ASSUME NEW q \in T \ {r}
          PROVE  Before(policies, r, q)
      <3>1. r \in Nat /\ q \in Nat /\ r < q
        BY <1>1, <2>2, <2>3
      <3> QED
        BY <2>1, <2>3, <3>1 DEF Before, CompareRules, NoPriority
    <2> QED
      BY <2>3
  <1>3. CASE Prior # {}
    <2> DEFINE priorities == {policies[r].priority : r \in Prior}
    <2>1. priorities \in SUBSET Nat /\ priorities # {}
      BY <1>1, <1>3
    <2>2. PICK p \in priorities : \A o \in priorities : p <= o
      BY <2>1, SmallestNat
    <2> DEFINE Best == {r \in Prior : policies[r].priority = p}
    <2>3. Best \in SUBSET Nat /\ Best # {}
      BY <1>1, <2>2
    <2>4. PICK r \in Best : \A q \in Best : r <= q
      BY <2>3, SmallestNat
    <2>5. r \in T /\ r \in Nat /\ policies[r].priority = p /\ p \in Nat \ {0}
      BY <1>1, <2>4
    <2>6. ASSUME NEW q \in T \ {r}
          PROVE  Before(policies, r, q)
      <3>1. q \in Nat /\ policies[q].priority \in Nat
        BY <1>1, <2>6
      <3>2. CASE policies[q].priority = 0
        BY <2>5, <3>1, <3>2 DEF Before, CompareRules, NoPriority
      <3>3. CASE policies[q].priority = p
        <4>1. r < q
          BY <2>4, <2>5, <2>6, <3>1, <3>3
        <4> QED
          BY <2>5, <3>1, <3>3, <4>1 DEF Before, CompareRules, NoPriority
      <3>4. CASE policies[q].priority \notin {0, p}
        <4>1. p <= policies[q].priority
          BY <2>2, <2>6, <3>4
        <4>2. p < policies[q].priority
          BY <2>5, <3>1, <3>4, <4>1
        <4> QED
          BY <2>5, <3>1, <3>4, <4>2 DEF Before, CompareRules, NoPriority
      <3> QED
        BY <3>2, <3>3, <3>4
    <2> QED
      BY <2>5, <2>6
  <1> QED
    BY <1>2, <1>3

(* evaluatePolicy finds a rule that matches, or there is none and the      *)
(* default decides.                                                        *)
LEMMA EvaluationFinds ==
    ASSUME NEW file \in PolicyOptions \ {Missing, Malformed}, NEW call
    PROVE  LET evaluation == EvaluatePolicy(file, call)
           IN  /\ evaluation.matched # 0 =>
                     /\ evaluation.matched \in Matching(file, call)
                     /\ evaluation.observed = file.policies[evaluation.matched].decision
               /\ evaluation.matched = 0 /\ evaluation.observed = "allow" => file.default = "allow"
  <1>1. /\ DOMAIN file.policies \subseteq Nat \ {0}
        /\ \A r \in DOMAIN file.policies : file.policies[r].priority \in Nat
    BY DriftAssumption
  <1> DEFINE First(r) == \A q \in Matching(file, call) \ {r} : Before(file.policies, r, q)
             r0 == IF Matching(file, call) = {} THEN 0 ELSE CHOOSE r \in Matching(file, call) : First(r)
  <1>2. Matching(file, call) \subseteq DOMAIN file.policies
    BY DEF Matching
  <1>3. r0 # 0 => r0 \in Matching(file, call)
    <2>1. CASE Matching(file, call) # {}
      <3>1. \E r \in Matching(file, call) : First(r)
        BY <1>1, <1>2, <2>1, FirstRuleExists
      <3> QED
        BY <2>1, <3>1
    <2> QED
      BY <2>1
  <1>4. EvaluatePolicy(file, call) = Evaluation(file, r0)
    BY DEF EvaluatePolicy
  <1> HIDE DEF r0
  <1>5. /\ EvaluatePolicy(file, call).matched = r0
        /\ EvaluatePolicy(file, call).observed = ObservedDecision(file, r0)
    BY <1>4 DEF Evaluation
  <1> QED
    BY <1>3, <1>5 DEF ObservedDecision

(* Wherever the policy would let a drifted tool run, the check names the   *)
(* rule that evaluation would choose, or says that a new tool of high risk *)
(* runs by default; for policies of any length and in any order.           *)
THEOREM AllowedDriftsAreReported == Spec => []AllowedDriftIsReported
  <1>1. ASSUME CheckerInv, Reported, checker.options.policy # Missing,
               NEW drift \in checker.drifts, NEW call \in Inputs,
               EvaluatePolicy(checker.options.policy, [call EXCEPT !.tool = drift.tool]).observed = "allow"
        PROVE  LET file == checker.options.policy
                   named == {a.policy : a \in {b \in checker.affected : b.tool = drift.tool}}
                   evaluation == EvaluatePolicy(file, [call EXCEPT !.tool = drift.tool])
               IN  IF evaluation.matched # 0
                   THEN file.policies[evaluation.matched].id \in named
                   ELSE \/ drift.type # "new_tool" \/ drift.severity # "high"
                        \/ named # {}
                        \/ \E r \in DOMAIN file.policies : file.policies[r].tool = drift.tool
    <2>1. FullReport(checker)
      BY <1>1 DEF CheckerInv, Reported
    <2>2. PICK file, asked, evaluation, named :
              /\ file = checker.options.policy
              /\ asked = [call EXCEPT !.tool = drift.tool]
              /\ evaluation = EvaluatePolicy(file, asked)
              /\ named = {a.policy : a \in {b \in checker.affected : b.tool = drift.tool}}
      OBVIOUS
    <2>3. /\ file \in PolicyOptions \ {Missing, Malformed}
          /\ checker.affected = analyzePolicyImpact(checker.drifts, file)
      BY <1>1, <2>1, <2>2 DEF FullReport, Accepted
    <2>4. asked.tool = drift.tool
      BY <2>2, DriftAssumption
    <2>5. ASSUME NEW a, a.tool = drift.tool,
                 a \in {Affected(rule.id, drift.tool, drift.severity) : rule \in AllowRules(file, drift.tool)}
                       \cup NewToolImpact(drift, file)
          PROVE  a.policy \in named
      <3>1. a \in checker.affected
        BY <2>3, <2>5 DEF analyzePolicyImpact
      <3> QED
        BY <2>2, <2>5, <3>1
    <2>6. ASSUME NEW rule \in AllowRules(file, drift.tool)
          PROVE  rule.id \in named
      <3>1. /\ Affected(rule.id, drift.tool, drift.severity).tool = drift.tool
            /\ Affected(rule.id, drift.tool, drift.severity).policy = rule.id
        BY DEF Affected
      <3> QED
        BY <2>5, <2>6, <3>1
    <2>7. CASE evaluation.matched # 0
      <3>1. PICK r : r = evaluation.matched
        OBVIOUS
      <3>2. r \in Matching(file, asked) /\ file.policies[r].decision = "allow"
        BY <1>1, <2>2, <2>3, <2>7, <3>1, EvaluationFinds
      <3>3. r \in DOMAIN file.policies /\ file.policies[r].tool \in {Unset, "*", drift.tool}
        BY <2>4, <3>2 DEF Matching, RuleMatches
      <3>4. file.policies[r] \in AllowRules(file, drift.tool)
        BY <3>2, <3>3 DEF AllowRules, AnyTool
      <3> QED
        BY <2>2, <2>6, <2>7, <3>1, <3>4
    <2>8. CASE evaluation.matched = 0
      <3>1. SUFFICES ASSUME drift.type = "new_tool", drift.severity = "high",
                            ~\E r \in DOMAIN file.policies : file.policies[r].tool = drift.tool
                     PROVE  named # {}
        BY <2>2, <2>8
      <3>2. file.default = "allow"
        BY <1>1, <2>2, <2>3, <2>8, EvaluationFinds
      <3>3. CASE AllowRules(file, drift.tool) # {}
        BY <2>6, <3>3
      <3>4. CASE AllowRules(file, drift.tool) = {}
        <4>1. NewToolImpact(drift, file) = {Affected("default", drift.tool, "high")}
          BY <3>1, <3>2, <3>4 DEF NewToolImpact
        <4>2. Affected("default", drift.tool, "high").tool = drift.tool
          BY DEF Affected
        <4>3. Affected("default", drift.tool, "high").policy \in named
          BY <2>5, <4>1, <4>2
        <4> QED
          BY <4>3
      <3> QED
        BY <3>3, <3>4
    <2> QED
      BY <2>7, <2>8
  <1>2. DiskInv /\ CheckerInv => AllowedDriftIsReported
    BY <1>1 DEF AllowedDriftIsReported
  <1> QED
    BY <1>2, DriftInvariant, PTL

=============================================================================
