--------------------------- MODULE CommandGuardProofs ---------------------------
(***************************************************************************)
(* Theorems about CommandGuard, for every command, every list of sensitive *)
(* paths, and options with any number of paths, infrastructure commands,   *)
(* mappings and detectors.                                                 *)
(*                                                                         *)
(* Merged says what a verdict holds of the findings asked so far; merging  *)
(* the next finding keeps it, in the loop and in classifyCommand without   *)
(* options, whose eight findings the options can only add to.              *)
(***************************************************************************)
EXTENDS CommandGuard, SequenceTheorems, TLAPS

-----------------------------------------------------------------------------
(* The findings.                                                           *)

Risk == {"none", "low", "medium", "high"}

(* The risk levels are ordered, and no two share a rank.                   *)
LEMMA RiskFacts ==
    /\ DOMAIN riskLevelOrder = Risk
    /\ \A risk \in Risk : riskLevelOrder[risk] \in 0 .. 3
    /\ \A r, s \in Risk : riskLevelOrder[r] = riskLevelOrder[s] => r = s
    /\ riskLevelOrder["none"] = 0 /\ riskLevelOrder["low"] = 1
    /\ riskLevelOrder["medium"] = 2 /\ riskLevelOrder["high"] = 3
  BY DEF riskLevelOrder, Risk

(* Every built-in detector suggests a risk, or none.                       *)
LEMMA DetectorRisks ==
    ASSUME NEW argv, NEW paths, NEW commands
    PROVE  /\ filesDetector(argv).risk \in Risk
           /\ secretsDetector(argv, paths).risk \in Risk
           /\ privilegeDetector(argv).risk \in Risk
           /\ infraDetector(argv, commands).risk \in Risk
           /\ gitDetector(argv).risk \in Risk
           /\ networkDetector(argv).risk \in Risk
           /\ shellDetector(argv).risk \in Risk
           /\ packageManagerDetector(argv).risk \in Risk
  <1>1. NoFinding.risk \in Risk
    BY DEF NoFinding, Finding, Risk
  <1>2. filesDetector(argv).risk \in Risk
    BY <1>1 DEF filesDetector, Finding, Risk
  <1>3. secretsDetector(argv, paths).risk \in Risk
    BY <1>1 DEF secretsDetector, Finding, Risk
  <1>4. privilegeDetector(argv).risk \in Risk
    BY <1>1 DEF privilegeDetector, Finding, Risk
  <1>5. infraDetector(argv, commands).risk \in Risk
    BY <1>1 DEF infraDetector, Finding, Risk
  <1>6. gitDetector(argv).risk \in Risk
    BY <1>1 DEF gitDetector, Finding, Risk
  <1>7. networkDetector(argv).risk \in Risk
    BY <1>1 DEF networkDetector, Finding, Risk
  <1>8. shellDetector(argv).risk \in Risk
    BY <1>1 DEF shellDetector, Finding, Risk
  <1>9. packageManagerDetector(argv).risk \in Risk
    BY <1>1 DEF packageManagerDetector, Finding, Risk
  <1> QED
    BY <1>2, <1>3, <1>4, <1>5, <1>6, <1>7, <1>8, <1>9

(* The findings of the built-in detectors.                                 *)
BuiltIn(argv, opts) ==
    <<filesDetector(argv),
      secretsDetector(argv, opts.extraSensitivePaths),
      privilegeDetector(argv),
      infraDetector(argv, opts.extraInfraCommands),
      gitDetector(argv),
      networkDetector(argv),
      shellDetector(argv),
      packageManagerDetector(argv)>>

(* A list of findings, each with a risk.                                   *)
Ranked(findings) ==
    /\ IsList(findings)
    /\ \A i \in DOMAIN findings : findings[i].risk \in Risk

(* The positions of a list are those up to its length.                     *)
LEMMA ListFacts ==
    ASSUME NEW list, IsList(list)
    PROVE  Len(list) \in Nat /\ DOMAIN list = 1 .. Len(list)
  BY LenProperties DEF IsList

(* Two lists after one another are a list of what is in them.              *)
LEMMA RankedConcat ==
    ASSUME NEW s, NEW t, Ranked(s), Ranked(t)
    PROVE  /\ Ranked(s \o t)
           /\ Len(s \o t) = Len(s) + Len(t)
           /\ \A i \in DOMAIN s : (s \o t)[i] = s[i]
  <1> DEFINE S == {s[i] : i \in DOMAIN s} \cup {t[i] : i \in DOMAIN t}
             u == s \o t
  <1>1. s \in Seq(S) /\ t \in Seq(S)
    BY SeqMonotonic DEF Ranked, IsList
  <1>2. \A f \in S : f.risk \in Risk
    BY DEF Ranked
  <1> HIDE DEF S
  <1>3. /\ Len(s) \in Nat /\ DOMAIN s = 1 .. Len(s)
        /\ Len(t) \in Nat /\ DOMAIN t = 1 .. Len(t)
    BY ListFacts DEF Ranked
  <1>4. /\ u \in Seq(S)
        /\ Len(u) = Len(s) + Len(t)
        /\ \A i \in 1 .. Len(s) + Len(t) : u[i] = IF i <= Len(s) THEN s[i] ELSE t[i - Len(s)]
    BY <1>1, ConcatProperties
  <1> HIDE DEF u
  <1>5. u \in [1 .. Len(u) -> S] /\ Len(u) \in Nat
    BY <1>4, LenProperties
  <1>6. u \in Seq({u[i] : i \in DOMAIN u})
    <2>1. u \in [1 .. Len(u) -> {u[i] : i \in DOMAIN u}]
      BY <1>5
    <2> QED
      BY <1>5, <2>1, SeqDef
  <1>7. \A i \in DOMAIN u : u[i].risk \in Risk
    BY <1>2, <1>5
  <1>8. \A i \in DOMAIN s : u[i] = s[i]
    BY <1>3, <1>4
  <1> QED
    BY <1>4, <1>6, <1>7, <1>8 DEF u, Ranked, IsList

(* The built-in detectors are asked first, and everybody suggests a risk   *)
(* or none.                                                                *)
LEMMA FindingsFacts ==
    ASSUME NEW argv, NEW opts \in Options \cup {NoOptions}
    PROVE  LET findings == Findings(argv, opts)
           IN  /\ Ranked(findings)
               /\ Len(findings) >= 8
               /\ opts = NoOptions => Len(findings) = 8
               /\ \A i \in 1 .. 8 : findings[i] = BuiltIn(argv, opts)[i]
  <1> DEFINE b == BuiltIn(argv, opts)
             x == opts.extraDetectors
             m == opts.commandMappings
             p == Mapped(argv, opts)
  <1>1. Ranked(b) /\ Len(b) = 8 /\ DOMAIN b = 1 .. 8
    <2>1. Len(b) = 8 /\ DOMAIN b = 1 .. 8
      BY DEF BuiltIn
    <2>2. b \in [1 .. 8 -> {b[i] : i \in DOMAIN b}]
      BY DEF BuiltIn
    <2>3. \A i \in 1 .. 8 : b[i].risk \in Risk
      BY DetectorRisks DEF BuiltIn
    <2> QED
      BY <2>1, <2>2, <2>3, SeqDef DEF Ranked, IsList
  <1>2. /\ Ranked(x) /\ Ranked(m)
        /\ opts = NoOptions => Len(x) = 0 /\ Len(m) = 0
    <2>1. CASE opts \in Options
      BY <2>1, OptionsAssumption, RiskFacts DEF Ranked, NoOptions
    <2>2. CASE opts = NoOptions
      BY <2>2, EmptySeq DEF Ranked, IsList, NoOptions
    <2> QED
      BY <2>1, <2>2 DEF NoOptions
  <1>3. Ranked(p) /\ Len(p) = Len(m)
    <2>1. Len(m) \in Nat /\ DOMAIN m = 1 .. Len(m)
      BY <1>2, ListFacts DEF Ranked
    <2>2. p \in [1 .. Len(m) -> {p[i] : i \in DOMAIN p}] /\ DOMAIN p = 1 .. Len(m)
      BY <2>1 DEF Mapped
    <2>3. p \in Seq({p[i] : i \in DOMAIN p})
      BY <2>1, <2>2, SeqDef
    <2>4. Len(p) = Len(m)
      BY <2>1, <2>2, <2>3, LenProperties
    <2>5. NoFinding.risk \in Risk
      BY DEF NoFinding, Finding, Risk
    <2>6. ASSUME NEW i \in DOMAIN p
          PROVE  p[i].risk \in Risk
      BY <1>2, <2>1, <2>2, <2>5, <2>6 DEF Mapped, Ranked, Finding
    <2> QED
      BY <2>3, <2>4, <2>6 DEF Ranked, IsList
  <1> HIDE DEF b, x, m, p
  <1>4. /\ Ranked(b \o x) /\ Len(b \o x) = 8 + Len(x)
        /\ \A i \in 1 .. 8 : (b \o x)[i] = b[i]
    <2>1. /\ Ranked(b \o x)
          /\ Len(b \o x) = Len(b) + Len(x)
          /\ \A i \in DOMAIN b : (b \o x)[i] = b[i]
      BY <1>1, <1>2, RankedConcat
    <2> QED
      BY <1>1, <2>1
  <1>5. Len(x) \in Nat /\ Len(m) \in Nat /\ DOMAIN (b \o x) = 1 .. Len(b \o x)
    BY <1>2, <1>4, ListFacts DEF Ranked
  <1>6. /\ Ranked((b \o x) \o p) /\ Len((b \o x) \o p) = 8 + Len(x) + Len(m)
        /\ \A i \in 1 .. 8 : ((b \o x) \o p)[i] = b[i]
    BY <1>3, <1>4, <1>5, RankedConcat
  <1>7. Findings(argv, opts) = (b \o x) \o p
    BY DEF Findings, Detected, BuiltIn, b, x, p
  <1>8. /\ Ranked(Findings(argv, opts))
        /\ Len(Findings(argv, opts)) >= 8
        /\ opts = NoOptions => Len(Findings(argv, opts)) = 8
        /\ \A i \in 1 .. 8 : Findings(argv, opts)[i] = b[i]
    <2> DEFINE all == (b \o x) \o p
    <2>1. Findings(argv, opts) = all
      BY <1>7
    <2>2. Ranked(all) /\ Len(all) = 8 + Len(x) + Len(m) /\ \A i \in 1 .. 8 : all[i] = b[i]
      BY <1>6
    <2> HIDE DEF all
    <2> QED
      BY <1>2, <1>5, <2>1, <2>2
  <1> QED
    BY <1>8 DEF b

-----------------------------------------------------------------------------
(* Merging.                                                                *)

(* What verdict v holds of the first n findings.                           *)
Merged(v, findings, n) ==
    /\ v.signals = UNION {findings[i].signals : i \in 1 .. n}
    /\ v.detectors = UNION {findings[i].detectors : i \in 1 .. n}
    /\ v.risk \in Risk /\ Rank(v) >= 1
    /\ \A i \in 1 .. n : Rank(findings[i]) <= Rank(v)
    /\ Rank(v) = 1 \/ \E i \in 1 .. n : Rank(findings[i]) = Rank(v)

(* The initial verdict holds of no finding.                                *)
LEMMA InitialMerged ==
    ASSUME NEW findings
    PROVE  Merged(Initial, findings, 0)
  BY RiskFacts DEF Merged, Initial, Finding, Rank, Risk

(* The verdict holds of one finding more.                                  *)
LEMMA MergeAdds ==
    ASSUME NEW findings, Ranked(findings), NEW v, NEW n \in 0 .. Len(findings),
           n < Len(findings), Merged(v, findings, n)
    PROVE  Merged(Merge(v, findings[n + 1]), findings, n + 1)
  <1> DEFINE f == findings[n + 1]
             w == Merge(v, f)
  <1>1. n + 1 \in DOMAIN findings /\ 1 .. n + 1 = (1 .. n) \cup {n + 1}
    BY ListFacts DEF Ranked
  <1>2. f.risk \in Risk /\ v.risk \in Risk
    BY <1>1 DEF Ranked, Merged
  <1>3. /\ w.signals = v.signals \cup f.signals
        /\ w.detectors = v.detectors \cup f.detectors
        /\ w.risk = IF riskLevelOrder[f.risk] > riskLevelOrder[v.risk] THEN f.risk ELSE v.risk
    BY DEF Merge, Finding
  <1>4. Rank(v) \in 0 .. 3 /\ Rank(f) \in 0 .. 3 /\ \A i \in 1 .. n : Rank(findings[i]) \in 0 .. 3
    BY <1>1, <1>2, RiskFacts, ListFacts DEF Rank, Ranked
  <1>5. /\ w.risk \in Risk
        /\ Rank(w) = IF Rank(f) > Rank(v) THEN Rank(f) ELSE Rank(v)
    BY <1>2, <1>3 DEF Rank
  <1> HIDE DEF w
  <1>6. w.signals = UNION {findings[i].signals : i \in 1 .. n + 1}
    BY <1>1, <1>3 DEF Merged
  <1>7. w.detectors = UNION {findings[i].detectors : i \in 1 .. n + 1}
    BY <1>1, <1>3 DEF Merged
  <1>8. Rank(w) >= 1 /\ \A i \in 1 .. n + 1 : Rank(findings[i]) <= Rank(w)
    BY <1>1, <1>4, <1>5 DEF Merged
  <1>9. Rank(w) = 1 \/ \E i \in 1 .. n + 1 : Rank(findings[i]) = Rank(w)
    BY <1>1, <1>4, <1>5 DEF Merged
  <1>10. Merged(w, findings, n + 1)
    BY <1>5, <1>6, <1>7, <1>8, <1>9 DEF Merged
  <1> QED
    BY <1>10 DEF w

(* What the verdict is after the fallback: what the findings say, or that  *)
(* the command is unknown, where none of them says anything.               *)
Concluded(v, findings, n) ==
    \/ /\ Merged(v, findings, n)
       /\ ~Anonymous(v)
    \/ /\ v.signals = {"unknown_command"} /\ v.detectors = {"unknown"} /\ v.risk = "medium"
       /\ \A i \in 1 .. n : Anonymous(findings[i])

(* The fallback turns what was merged into the verdict.                    *)
LEMMA FallbackConcludes ==
    ASSUME NEW findings, NEW v, NEW n, Merged(v, findings, n)
    PROVE  Concluded(Fallback(v), findings, n)
  <1>1. CASE Anonymous(v)
    <2>1. \A i \in 1 .. n : Anonymous(findings[i])
      BY <1>1 DEF Merged, Anonymous
    <2> QED
      BY <1>1, <2>1 DEF Fallback, Anonymous, Concluded, Finding
  <1>2. CASE ~Anonymous(v)
    BY <1>2 DEF Fallback, Anonymous, Concluded
  <1> QED
    BY <1>1, <1>2

-----------------------------------------------------------------------------
(* The loop of classifyCommand.                                            *)

(* The verdict holds of the findings that were asked for, and after the    *)
(* fallback of all of them.                                                *)
LoopInv ==
    LET findings == Findings(command, options)
    IN  /\ command \in Commands /\ options \in Options
        /\ step \in 0 .. Len(findings)
        /\ done \in BOOLEAN
        /\ ~done => Merged(verdict, findings, step)
        /\ done => step = Len(findings) /\ Concluded(verdict, findings, step)

(* The loop starts with the initial verdict and no finding asked for.      *)
LEMMA LoopInit == Init => LoopInv
  <1> SUFFICES ASSUME Init PROVE LoopInv
    OBVIOUS
  <1>1. PICK findings : findings = Findings(command, options)
    OBVIOUS
  <1>2. Len(findings) \in Nat
    BY <1>1, FindingsFacts, ListFacts DEF Init, Ranked
  <1>3. Merged(verdict, findings, 0)
    BY InitialMerged DEF Init
  <1>4. 0 \in 0 .. Len(findings)
    BY <1>2
  <1> QED
    BY <1>1, <1>3, <1>4 DEF Init, LoopInv

(* Every iteration, and the fallback, keep what the verdict says.          *)
LEMMA LoopStep == LoopInv /\ [Next]_vars => LoopInv'
  <1> SUFFICES ASSUME LoopInv, [Next]_vars PROVE LoopInv'
    OBVIOUS
  <1>1. PICK findings : findings = Findings(command, options)
    OBVIOUS
  <1>2. /\ Ranked(findings) /\ Len(findings) \in Nat
        /\ command \in Commands /\ options \in Options
        /\ step \in 0 .. Len(findings)
    BY <1>1, FindingsFacts, ListFacts DEF LoopInv, Ranked
  <1>3. CASE AskNext
    <2>1. /\ step < Len(findings) /\ step' = step + 1
          /\ verdict' = Merge(verdict, findings[step + 1])
          /\ UNCHANGED <<command, options, done>>
      BY <1>1, <1>3 DEF AskNext
    <2>2. ~done /\ Merged(verdict, findings, step)
      BY <1>1, <2>1, <1>2 DEF LoopInv
    <2>3. Merged(verdict', findings, step')
      BY <1>2, <2>1, <2>2, MergeAdds
    <2> QED
      BY <1>1, <1>2, <2>1, <2>2, <2>3 DEF LoopInv
  <1>4. CASE Conclude
    <2>1. /\ ~done /\ done' = TRUE /\ step = Len(findings)
          /\ verdict' = Fallback(verdict)
          /\ UNCHANGED <<command, options, step>>
      BY <1>1, <1>4 DEF Conclude
    <2>2. Concluded(verdict', findings, step)
      BY <1>1, <2>1, FallbackConcludes DEF LoopInv
    <2> QED
      BY <1>1, <1>2, <2>1, <2>2 DEF LoopInv
  <1>5. CASE UNCHANGED vars
    BY <1>5 DEF vars, LoopInv
  <1> QED
    BY <1>3, <1>4, <1>5 DEF Next

(* The verdict says of the findings asked for all they say, at any time.   *)
LEMMA LoopInvariant == Spec => []LoopInv
  BY LoopInit, LoopStep, PTL DEF Spec

(* No finding is lost on the way to the verdict and nothing is added to    *)
(* them: the signals are those of all findings, the risk is the highest    *)
(* suggested, and unknown is said only of a command nobody knows; for all  *)
(* options, with any number of mappings and detectors.                     *)
THEOREM FindingsAreKept == Spec => []VerdictKeepsEveryFinding
  <1>1. ASSUME LoopInv, done
        PROVE  VerdictKeepsEveryFinding
    <2>1. PICK findings : findings = Findings(command, options)
      OBVIOUS
    <2>2. /\ Concluded(verdict, findings, Len(findings))
          /\ DOMAIN findings = 1 .. Len(findings)
      BY <1>1, <2>1, FindingsFacts, ListFacts DEF LoopInv, Ranked
    <2>3. SaidBySomeone = UNION {findings[i].signals : i \in 1 .. Len(findings)}
      BY <2>1, <2>2 DEF SaidBySomeone
    <2>4. CASE Merged(verdict, findings, Len(findings))
      BY <2>1, <2>2, <2>3, <2>4 DEF Merged, VerdictKeepsEveryFinding
    <2>5. CASE ~Merged(verdict, findings, Len(findings))
      <3>1. /\ verdict.signals = {"unknown_command"} /\ verdict.risk = "medium"
            /\ \A i \in DOMAIN findings : Anonymous(findings[i])
        BY <2>2, <2>5 DEF Concluded
      <3>2. SaidBySomeone = {}
        BY <2>2, <2>3, <3>1 DEF Anonymous
      <3> QED
        BY <2>1, <3>1, <3>2 DEF VerdictKeepsEveryFinding
    <2> QED
      BY <2>4, <2>5
  <1>2. LoopInv => VerdictKeepsEveryFinding
    BY <1>1 DEF VerdictKeepsEveryFinding
  <1> QED
    BY <1>2, LoopInvariant, PTL

-----------------------------------------------------------------------------
(* What options may change.                                                *)

(* A finding that another one says all of.                                 *)
AtMost(f, g) ==
    /\ f.signals \subseteq g.signals
    /\ f.detectors \subseteq g.detectors
    /\ Rank(f) <= Rank(g)

(* A built-in detector that is given more paths or infrastructure commands *)
(* says all it says without them.                                          *)
LEMMA DetectorsOnlyAdd ==
    ASSUME NEW argv, NEW opts, NEW i \in 1 .. 8
    PROVE  AtMost(BuiltIn(argv, NoOptions)[i], BuiltIn(argv, opts)[i])
  <1> DEFINE p == BuiltIn(argv, NoOptions)
             q == BuiltIn(argv, opts)
             paths == opts.extraSensitivePaths
             commands == opts.extraInfraCommands
  <1>1. /\ NoOptions.extraSensitivePaths = {}
        /\ NoOptions.extraInfraCommands = {}
    BY DEF NoOptions
  <1>2. \A f : f.risk \in Risk => AtMost(f, f)
    BY RiskFacts DEF AtMost, Rank
  <1>3. AtMost(secretsDetector(argv, {}), secretsDetector(argv, paths))
    <2>1. Holds(Command(argv), SensitivePaths \cup {}) => Holds(Command(argv), SensitivePaths \cup paths)
      BY DEF Holds
    <2>2. NoFinding.signals = {} /\ NoFinding.detectors = {} /\ Rank(NoFinding) = 0
      BY RiskFacts DEF NoFinding, Finding, Rank
    <2>3. secretsDetector(argv, paths).risk \in Risk
      BY DetectorRisks
    <2>4. CASE secretsDetector(argv, {}) = NoFinding
      BY <2>2, <2>3, <2>4, RiskFacts DEF AtMost, Rank
    <2>5. CASE secretsDetector(argv, {}) # NoFinding
      BY <2>1, <2>5, RiskFacts DEF secretsDetector, Finding, AtMost, Rank
    <2> QED
      BY <2>4, <2>5
  <1>4. AtMost(infraDetector(argv, {}), infraDetector(argv, commands))
    <2>1. NoFinding.signals = {} /\ NoFinding.detectors = {} /\ Rank(NoFinding) = 0
      BY RiskFacts DEF NoFinding, Finding, Rank
    <2>2. infraDetector(argv, commands).risk \in Risk
      BY DetectorRisks
    <2>3. CASE infraDetector(argv, {}) = NoFinding
      BY <2>1, <2>2, <2>3, RiskFacts DEF AtMost, Rank
    <2>4. CASE infraDetector(argv, {}) # NoFinding
      <3>1. infraDetector(argv, {}) = infraDetector(argv, commands)
        BY <2>4 DEF infraDetector
      <3> QED
        BY <1>2, <2>2, <3>1
    <2> QED
      BY <2>3, <2>4
  <1>5. CASE i \notin {2, 4}
    <2>1. p[i] = q[i] /\ p[i].risk \in Risk
      BY <1>5, DetectorRisks DEF BuiltIn
    <2> QED
      BY <1>2, <2>1
  <1>6. CASE i = 2
    BY <1>1, <1>3, <1>6 DEF BuiltIn
  <1>7. CASE i = 4
    BY <1>1, <1>4, <1>7 DEF BuiltIn
  <1> QED
    BY <1>5, <1>6, <1>7

(* classifyCommand without options merges what eight detectors find.       *)
LEMMA PlainClassify ==
    ASSUME NEW argv
    PROVE  \E v : /\ Merged(v, Findings(argv, NoOptions), 8)
                  /\ Classify(argv, NoOptions) = Fallback(v)
  <1>1. PICK f : f = Findings(argv, NoOptions)
    OBVIOUS
  <1>2. Ranked(f) /\ Len(f) = 8
    BY <1>1, FindingsFacts
  <1> DEFINE m1 == Merge(Initial, f[1])
             m2 == Merge(m1, f[2])
             m3 == Merge(m2, f[3])
             m4 == Merge(m3, f[4])
             m5 == Merge(m4, f[5])
             m6 == Merge(m5, f[6])
             m7 == Merge(m6, f[7])
             m8 == Merge(m7, f[8])
             fold == [n \in 0 .. 8 |-> <<Initial, m1, m2, m3, m4, m5, m6, m7, m8>>[n + 1]]
             IsFold(g) == g = [n \in 0 .. 8 |-> IF n = 0 THEN Initial ELSE Merge(g[n - 1], f[n])]
  <1>3. IsFold(fold)
    OBVIOUS
  <1>4. Classify(argv, NoOptions) = Fallback((CHOOSE g : IsFold(g))[8])
    BY <1>1, <1>2 DEF Classify
  <1>5. PICK g : IsFold(g) /\ Classify(argv, NoOptions) = Fallback(g[8])
    BY <1>3, <1>4
  <1>6. /\ g[0] = Initial
        /\ \A n \in 0 .. 7 : g[n + 1] = Merge(g[n], f[n + 1])
    BY <1>5
  <1> HIDE DEF IsFold
  <1>7. ASSUME NEW n \in 0 .. 7, Merged(g[n], f, n)
        PROVE  Merged(g[n + 1], f, n + 1)
    <2>1. n \in 0 .. Len(f) /\ n < Len(f)
      BY <1>2
    <2>2. Merged(Merge(g[n], f[n + 1]), f, n + 1)
      BY <1>2, <1>7, <2>1, MergeAdds
    <2> QED
      BY <1>6, <2>2
  <1>8. Merged(g[0], f, 0)
    BY <1>6, InitialMerged
  <1>9. Merged(g[8], f, 8)
    BY <1>7, <1>8
  <1> QED
    BY <1>1, <1>5, <1>9

(* Options only add to the verdict, whatever they are: a command that is   *)
(* known without them keeps its signals, its detectors and its risk, or    *)
(* gets a higher one.                                                      *)
THEOREM OptionsAdd == Spec => []OptionsOnlyAdd
  <1>1. ASSUME LoopInv, done
        PROVE  OptionsOnlyAdd
    <2>1. PICK f, g : f = Findings(command, NoOptions) /\ g = Findings(command, options)
      OBVIOUS
    <2>2. PICK v : Merged(v, f, 8) /\ Classify(command, NoOptions) = Fallback(v)
      BY <2>1, PlainClassify
    <2>3. PICK plain : plain = Classify(command, NoOptions)
      OBVIOUS
    <2>4. Concluded(plain, f, 8)
      BY <2>2, <2>3, FallbackConcludes
    <2>5. /\ Len(g) >= 8 /\ Len(g) \in Nat
          /\ \A i \in 1 .. Len(g) : g[i].risk \in Risk
          /\ Concluded(verdict, g, Len(g))
      BY <1>1, <2>1, FindingsFacts, ListFacts DEF LoopInv, Ranked
    <2>6. \A i \in 1 .. 8 : AtMost(f[i], g[i])
      BY <1>1, <2>1, FindingsFacts, DetectorsOnlyAdd DEF LoopInv
    <2>7. CASE plain.signals = {"unknown_command"}
      BY <2>3, <2>7 DEF OptionsOnlyAdd
    <2>8. CASE plain.signals # {"unknown_command"}
      <3>1. Merged(plain, f, 8) /\ ~Anonymous(plain)
        BY <2>4, <2>8 DEF Concluded
      <3>2. PICK i \in 1 .. 8 : ~Anonymous(f[i])
        BY <3>1 DEF Merged, Anonymous
      <3>3. ~Anonymous(g[i]) /\ 1 .. 8 \subseteq 1 .. Len(g)
        <4>1. AtMost(f[i], g[i])
          BY <2>6
        <4>2. ~Anonymous(g[i])
          BY <3>2, <4>1 DEF AtMost, Anonymous
        <4>3. \A j \in 1 .. 8 : j \in 1 .. Len(g)
          BY <2>5
        <4> QED
          BY <4>2, <4>3
      <3>4. Merged(verdict, g, Len(g))
        BY <2>5, <3>3 DEF Concluded
      <3>5. plain.signals \subseteq verdict.signals /\ plain.detectors \subseteq verdict.detectors
        <4>1. \A j \in 1 .. 8 : /\ f[j].signals \subseteq g[j].signals
                                /\ f[j].detectors \subseteq g[j].detectors
          BY <2>6 DEF AtMost
        <4>2. /\ plain.signals = UNION {f[j].signals : j \in 1 .. 8}
              /\ plain.detectors = UNION {f[j].detectors : j \in 1 .. 8}
              /\ verdict.signals = UNION {g[j].signals : j \in 1 .. Len(g)}
              /\ verdict.detectors = UNION {g[j].detectors : j \in 1 .. Len(g)}
          BY <3>1, <3>4 DEF Merged
        <4>3. \A j \in 1 .. 8 : j \in 1 .. Len(g)
          BY <3>3
        <4>4. plain.signals \subseteq verdict.signals
          BY <4>1, <4>2, <4>3
        <4>5. plain.detectors \subseteq verdict.detectors
          BY <4>1, <4>2, <4>3
        <4> QED
          BY <4>4, <4>5
      <3>6. Rank(plain) <= Rank(verdict)
        <4>1. Rank(verdict) \in 0 .. 3 /\ Rank(verdict) >= 1 /\ \A j \in 1 .. Len(g) : Rank(g[j]) <= Rank(verdict)
          BY <3>4, RiskFacts DEF Merged, Rank
        <4>2. CASE Rank(plain) = 1
          BY <4>1, <4>2
        <4>3. ASSUME NEW j \in 1 .. 8, Rank(f[j]) = Rank(plain)
              PROVE  Rank(plain) <= Rank(verdict)
          <5>1. Rank(f[j]) <= Rank(g[j]) /\ Rank(g[j]) <= Rank(verdict) /\ g[j].risk \in Risk
            BY <2>5, <2>6, <4>1 DEF AtMost
          <5>2. Rank(g[j]) \in 0 .. 3 /\ Rank(plain) \in 0 .. 3
            BY <3>1, <5>1, RiskFacts DEF Merged, Rank
          <5> QED
            BY <4>1, <4>3, <5>1, <5>2
        <4> QED
          BY <3>1, <4>2, <4>3 DEF Merged
      <3> QED
        BY <2>3, <3>5, <3>6 DEF OptionsOnlyAdd
    <2> QED
      BY <2>7, <2>8
  <1>2. LoopInv => OptionsOnlyAdd
    BY <1>1 DEF OptionsOnlyAdd
  <1> QED
    BY <1>2, LoopInvariant, PTL

=============================================================================
