----------------------- MODULE AnalysisEngine_proofs -----------------------
(***************************************************************************)
(* When the model's answer replaces the rules', what a published result    *)
(* says, and which systems it lists, for all features, labels, confidences *)
(* and thresholds: the best three, and whom a system that fits gives way   *)
(* to.                                                                     *)
(***************************************************************************)
EXTENDS AnalysisEngine, TLAPS

\* No answer of a model is used before the rules have spoken; then it was used
\* only below the threshold or for an unknown signal, and always for the latter.
RulesFirst ==
    /\ pc \in {"idle", "snapshot", "collect"} => f = NoFeatures
    /\ pc \in {"idle", "snapshot", "collect", "extracted"} =>
         r = NoResult /\ path = NoPath /\ onnx = NoAnswer
    /\ pc = "ruled" =>
         /\ r = Classify(f)
         /\ path = [NoPath EXCEPT !.rule = RuleConfidence(Classify(f))]
         /\ onnx = NoAnswer
    /\ pc \in {"inferred", "publish"} /\ ~path.fast =>
         /\ path.onnxUsed =>
              RuleConfidence(Classify(f)) = 0 \/ RuleConfidence(Classify(f)) < Threshold
         /\ onnx.valid /\ OnUnknown /\ RuleConfidence(Classify(f)) = 0 =>
              path.onnxUsed /\ r.digital = onnx.label

\* TypeOK in parts.
SignalOK ==
    /\ loaded \in BOOLEAN /\ lowLoaded \in BOOLEAN
    /\ pc \in {"idle", "snapshot", "collect", "extracted", "ruled", "inferred", "publish"}
    /\ freq \in Frequencies \cup {0}
    /\ f \in Features \cup {NoFeatures, MinimalFeatures}

ResultOK ==
    /\ r.classified \in BOOLEAN /\ {r.analog, r.digital} \subseteq Modulations
    /\ r.reject \in {"", "SNR too low"}

PathOK ==
    /\ path.rule \in {0, 60, 65, 70, 80, 85, 90, 95}
    /\ path.onnxUsed \in BOOLEAN /\ path.fast \in BOOLEAN
    /\ path.onnxConf \in Confidences \cup {0}
    /\ onnx \in Answers

IInv == SignalOK /\ ResultOK /\ PathOK /\ RulesFirst

-----------------------------------------------------------------------------
(* The rules *)

\* ruleConfidence() takes one of eight values.
LEMMA ConfidenceValues ==
    ASSUME NEW res
    PROVE  RuleConfidence(res) \in {0, 60, 65, 70, 80, 85, 90, 95}
BY DEF RuleConfidence

\* A modulation made from structure, frequency or envelope has confidence 0.8.
LEMMA RobustIsConfident ==
    ASSUME NEW res, res.classified, Modulation(res) \in NeverReplaced
    PROVE  RuleConfidence(res) >= 80
<1>1. RuleConfidence(res) \in {80, 85, 90, 95}
  BY Zenon DEF RuleConfidence, NeverReplaced
<1> QED
  BY <1>1

\* A signal left unknown has confidence 0.
LEMMA UnknownIsUnconfident ==
    ASSUME NEW res, Unknown(res)
    PROVE  RuleConfidence(res) = 0
BY DEF RuleConfidence, Unknown

\* The decision trees of the classifier name known modulations.
LEMMA AnalogNames ==
    ASSUME NEW g
    PROVE  ClassifyAnalog(g) \in Modulations
BY DEF ClassifyAnalog, Modulations

LEMMA DigitalNames ==
    ASSUME NEW g
    PROVE  ClassifyDigital(g).digital \in Modulations
BY DEF ClassifyDigital, ClassifyConstantEnvelope, ClassifyVariableAmplitude, Dig, Modulations

\* What classify() says of a signal: a known modulation, or a reason and none.
LEMMA ClassifyFields ==
    ASSUME NEW g
    PROVE  /\ Classify(g).classified \in BOOLEAN
           /\ {Classify(g).analog, Classify(g).digital} \subseteq Modulations
           /\ Classify(g).reject \in {"", "SNR too low"}
           /\ ~Classify(g).classified => Modulation(Classify(g)) = ""
<1>1. "" \in Modulations /\ {"CSS", "OFDM", "FHSS", "DSSS"} \subseteq Modulations
  BY DEF Modulations
<1>2. CASE g.snr < 5
  BY <1>1, <1>2 DEF Classify, Blank, Modulation
<1>3. CASE ~(g.snr < 5) /\ (g.chirp \/ g.ofdm \/ g.fhss \/ g.dsss)
  BY <1>1, <1>3 DEF Classify, Blank
<1>4. CASE ~(g.snr < 5) /\ ~(g.chirp \/ g.ofdm \/ g.fhss \/ g.dsss) /\ IsAnalog(g)
  BY <1>1, <1>4, AnalogNames DEF Classify, Blank
<1>5. CASE ~(g.snr < 5) /\ ~(g.chirp \/ g.ofdm \/ g.fhss \/ g.dsss) /\ ~IsAnalog(g)
  <2>1. Classify(g) = Digital(g)
    BY <1>5 DEF Classify
  <2>2. /\ Digital(g).classified = TRUE /\ Digital(g).reject = "" /\ Digital(g).analog = ""
        /\ Digital(g).digital = ClassifyDigital(g).digital
    BY DEF Digital, Blank
  <2> QED
    BY <1>1, <2>1, <2>2, DigitalNames
<1> QED
  BY <1>2, <1>3, <1>4, <1>5

\* What an override makes of a result of the rules.
Overridden(g, label) == [Classify(g) EXCEPT !.digital = label, !.analog = "", !.classified = TRUE]

LEMMA OverrideFields ==
    ASSUME NEW g, NEW label
    PROVE  /\ Overridden(g, label).digital = label /\ Overridden(g, label).analog = ""
           /\ Overridden(g, label).classified = TRUE
           /\ Overridden(g, label).reject = Classify(g).reject
           /\ Overridden(g, label).symRate = Classify(g).symRate
<1>1. CASE g.snr < 5
  BY <1>1 DEF Overridden, Classify, Blank
<1>2. CASE ~(g.snr < 5) /\ (g.chirp \/ g.ofdm \/ g.fhss \/ g.dsss)
  BY <1>2 DEF Overridden, Classify, Blank
<1>3. CASE ~(g.snr < 5) /\ ~(g.chirp \/ g.ofdm \/ g.fhss \/ g.dsss) /\ IsAnalog(g)
  BY <1>3 DEF Overridden, Classify, Blank
<1>4. CASE ~(g.snr < 5) /\ ~(g.chirp \/ g.ofdm \/ g.fhss \/ g.dsss) /\ ~IsAnalog(g)
  <2>1. Classify(g) = Digital(g)
    BY <1>4 DEF Classify
  <2> QED
    BY <2>1 DEF Overridden, Digital, Blank
<1> QED
  BY <1>1, <1>2, <1>3, <1>4

\* The empty values.
LEMMA EmptyFields ==
    /\ NoResult.classified = FALSE /\ NoResult.reject = ""
    /\ NoResult.analog = "" /\ NoResult.digital = ""
    /\ NoPath.rule = 0 /\ NoPath.onnxUsed = FALSE /\ NoPath.fast = FALSE /\ NoPath.onnxConf = 0
    /\ NoAnswer.valid = FALSE /\ NoAnswer \in Answers
    /\ "" \in Modulations
BY DEF NoResult, Blank, NoPath, NoAnswer, Answers, Modulations

\* A model that answers names one of its classes.
LEMMA AnswerFields ==
    ASSUME NEW answer \in Answers, answer.valid
    PROVE  answer.label \in Modulations /\ answer.conf \in Confidences
<1>1. NoAnswer.valid = FALSE
  BY DEF NoAnswer
<1>2. answer \in [valid : {TRUE}, label : Labels, conf : Confidences]
  BY <1>1 DEF Answers
<1>3. Labels \subseteq Modulations
  BY DEF Modulations
<1> QED
  BY <1>2, <1>3

-----------------------------------------------------------------------------
(* The steps *)

\* What a step leaves alone keeps its type.
LEMMA ResultStays == ResultOK /\ UNCHANGED r => ResultOK'
BY Zenon DEF ResultOK

LEMMA PathStays == PathOK /\ UNCHANGED <<path, onnx>> => PathOK'
<1> SUFFICES ASSUME PathOK, UNCHANGED <<path, onnx>> PROVE PathOK'
  OBVIOUS
<1>1. path' = path /\ onnx' = onnx
  OBVIOUS
<1> QED
  BY <1>1, Zenon DEF PathOK, Answers, NoAnswer

LEMMA EmptyOK ==
    /\ r' = NoResult => ResultOK'
    /\ path' = NoPath /\ onnx' = NoAnswer => PathOK'
<1>1. ASSUME r' = NoResult PROVE ResultOK'
  <2>1. r'.classified = FALSE /\ r'.reject = "" /\ r'.analog = "" /\ r'.digital = ""
    BY <1>1, EmptyFields
  <2> QED
    BY <2>1, EmptyFields DEF ResultOK
<1>2. ASSUME path' = NoPath, onnx' = NoAnswer PROVE PathOK'
  <2>1. path'.rule = 0 /\ path'.onnxUsed = FALSE /\ path'.fast = FALSE /\ path'.onnxConf = 0
    BY <1>2, EmptyFields
  <2> QED
    BY <1>2, <2>1, EmptyFields DEF PathOK
<1> QED
  BY <1>1, <1>2

LEMMA InitIInv == Init => IInv
<1> SUFFICES ASSUME Init PROVE IInv
  OBVIOUS
<1>1. SignalOK /\ RulesFirst
  BY DEF Init, SignalOK, RulesFirst
<1>2. r.classified = FALSE /\ r.reject = "" /\ r.analog = "" /\ r.digital = ""
  BY EmptyFields DEF Init
<1>3. path.rule = 0 /\ path.onnxUsed = FALSE /\ path.fast = FALSE /\ path.onnxConf = 0
  BY EmptyFields DEF Init
<1>4. ResultOK
  BY <1>2, EmptyFields DEF ResultOK
<1>5. PathOK
  BY <1>3, EmptyFields DEF Init, PathOK
<1> QED
  BY <1>1, <1>4, <1>5 DEF IInv

LEMMA FastPathIInv == IInv /\ FastPath => IInv'
<1> SUFFICES ASSUME IInv, FastPath PROVE IInv'
  OBVIOUS
<1> USE DEF IInv
<1>1. PICK answer \in Answers :
        /\ answer.valid
        /\ onnx' = answer
        /\ r' = SnapshotResult(answer)
        /\ path' = [NoPath EXCEPT !.onnxUsed = TRUE, !.onnxConf = answer.conf, !.fast = TRUE]
  BY DEF FastPath
<1>2. /\ r'.classified = TRUE /\ r'.analog = "" /\ r'.reject = "" /\ r'.digital = answer.label
  BY <1>1 DEF SnapshotResult, NoResult, Blank
<1>3. path'.rule = 0 /\ path'.onnxUsed = TRUE /\ path'.fast = TRUE /\ path'.onnxConf = answer.conf
  BY <1>1 DEF NoPath
<1>4. /\ pc' = "publish" /\ freq' = freq /\ f' = MinimalFeatures /\ UNCHANGED <<loaded, lowLoaded>>
  BY DEF FastPath
<1>5. SignalOK'
  BY <1>4 DEF SignalOK, MinimalFeatures
<1>6. ResultOK'
  BY <1>1, <1>2, AnswerFields, EmptyFields DEF ResultOK
<1>7. PathOK'
  BY <1>1, <1>3, AnswerFields DEF PathOK
<1>8. RulesFirst'
  BY <1>3, <1>4 DEF RulesFirst
<1> QED
  BY <1>5, <1>6, <1>7, <1>8

LEMMA ApplyRulesIInv == IInv /\ ApplyRules => IInv'
<1> SUFFICES ASSUME IInv, ApplyRules PROVE IInv'
  OBVIOUS
<1> USE DEF IInv
<1>1. /\ pc = "extracted" /\ pc' = "ruled" /\ r' = Classify(f)
      /\ UNCHANGED <<loaded, lowLoaded, freq, f, onnx, hyps>>
  BY DEF ApplyRules
<1>2. path = NoPath /\ onnx = NoAnswer
  BY <1>1 DEF RulesFirst
<1>3. path' = [NoPath EXCEPT !.rule = RuleConfidence(Classify(f))]
  BY <1>1, <1>2 DEF ApplyRules
<1>4. /\ path'.rule = RuleConfidence(Classify(f)) /\ path'.onnxUsed = FALSE
      /\ path'.fast = FALSE /\ path'.onnxConf = 0
  BY <1>3 DEF NoPath
<1>5. SignalOK'
  BY <1>1 DEF SignalOK, MinimalFeatures
<1>6. ResultOK'
  BY <1>1, ClassifyFields DEF ResultOK
<1>7. PathOK'
  BY <1>1, <1>2, <1>4, ConfidenceValues, EmptyFields DEF PathOK
<1>8. RulesFirst'
  BY <1>1, <1>2, <1>3 DEF RulesFirst
<1> QED
  BY <1>5, <1>6, <1>7, <1>8

LEMMA InferIInv == IInv /\ Infer => IInv'
<1> SUFFICES ASSUME IInv, Infer PROVE IInv'
  OBVIOUS
<1> USE DEF IInv
<1>1. /\ pc = "ruled" /\ pc' = "inferred"
      /\ UNCHANGED <<loaded, lowLoaded, freq, f, hyps>>
  BY DEF Infer
<1>2. /\ r = Classify(f) /\ path = [NoPath EXCEPT !.rule = RuleConfidence(Classify(f))]
  BY <1>1 DEF RulesFirst
<1>3. /\ path.rule = RuleConfidence(Classify(f)) /\ path.onnxUsed = FALSE
      /\ path.fast = FALSE /\ path.onnxConf = 0
  BY <1>2 DEF NoPath
<1>4. Threshold' = Threshold /\ OnUnknown' = OnUnknown /\ f' = f
  BY <1>1 DEF Threshold, OnUnknown, UseLow
<1>5. SignalOK'
  BY <1>1 DEF SignalOK, MinimalFeatures
<1>6. PICK answer \in Answers :
        /\ onnx' = answer
        /\ \/ UseOnnx(answer) /\ Override(answer)
           \/ ~UseOnnx(answer) /\ UNCHANGED <<r, path>>
  BY DEF Infer
<1>7. CASE UseOnnx(answer) /\ Override(answer)
  <2>1. r' = Overridden(f, answer.label)
    BY <1>2, <1>7 DEF Override, Overridden
  <2>2. /\ r'.digital = answer.label /\ r'.analog = "" /\ r'.classified = TRUE
        /\ r'.reject = Classify(f).reject
    BY <2>1, OverrideFields
  <2>3. /\ path'.rule = RuleConfidence(Classify(f)) /\ path'.onnxUsed = TRUE
        /\ path'.fast = FALSE /\ path'.onnxConf = answer.conf
    BY <1>2, <1>7 DEF Override, NoPath
  <2>4. answer.valid /\ (RuleConfidence(Classify(f)) = 0 \/ RuleConfidence(Classify(f)) < Threshold)
    BY <1>3, <1>7 DEF UseOnnx
  <2>5. ResultOK'
    BY <2>2, <2>4, AnswerFields, EmptyFields, ClassifyFields DEF ResultOK
  <2>6. PathOK'
    BY <1>6, <2>3, <2>4, AnswerFields, ConfidenceValues DEF PathOK
  <2>7. RulesFirst'
    BY <1>1, <1>4, <1>6, <2>2, <2>3, <2>4 DEF RulesFirst
  <2> QED
    BY <1>5, <2>5, <2>6, <2>7
<1>8. CASE ~UseOnnx(answer) /\ UNCHANGED <<r, path>>
  <2>1. PathOK'
    <3>1. path' = path /\ onnx' \in Answers
      BY <1>6, <1>8
    <3> QED
      BY <3>1, Zenon DEF PathOK
  <2>2. ~(answer.valid /\ OnUnknown /\ RuleConfidence(Classify(f)) = 0)
    BY <1>3, <1>8 DEF UseOnnx
  <2>3. RulesFirst'
    BY <1>1, <1>3, <1>4, <1>6, <1>8, <2>2 DEF RulesFirst
  <2> QED
    BY <1>5, <1>8, <2>1, <2>3, ResultStays
<1> QED
  BY <1>6, <1>7, <1>8

LEMMA NextIInv == IInv /\ [Next]_vars => IInv'
<1> SUFFICES ASSUME IInv, [Next]_vars PROVE IInv'
  OBVIOUS
<1> USE DEF IInv
<1>1. CASE Detect
  <2>1. SignalOK' /\ RulesFirst'
    BY <1>1 DEF Detect, SignalOK, RulesFirst
  <2> QED
    BY <1>1, <2>1, ResultStays, PathStays DEF Detect
<1>2. CASE FastPath
  BY <1>2, FastPathIInv
<1>3. CASE FallBack
  <2>1. SignalOK' /\ RulesFirst'
    BY <1>3 DEF FallBack, SignalOK, RulesFirst, MinimalFeatures
  <2> QED
    BY <1>3, <2>1, ResultStays, PathStays DEF FallBack
<1>4. CASE NoSamples
  <2>1. SignalOK' /\ RulesFirst'
    BY <1>4 DEF NoSamples, SignalOK, RulesFirst
  <2> QED
    BY <1>4, <2>1, ResultStays, PathStays DEF NoSamples
<1>5. CASE Extract
  <2>1. SignalOK' /\ RulesFirst'
    BY <1>5 DEF Extract, SignalOK, RulesFirst
  <2> QED
    BY <1>5, <2>1, ResultStays, PathStays DEF Extract
<1>6. CASE ApplyRules
  BY <1>6, ApplyRulesIInv
<1>7. CASE Infer
  BY <1>7, InferIInv
<1>8. CASE SkipInference
  <2>1. /\ pc = "ruled" /\ pc' = "inferred"
        /\ UNCHANGED <<loaded, lowLoaded, freq, f, r, path, onnx, hyps>>
    BY <1>8 DEF SkipInference
  <2>2. path.onnxUsed = FALSE /\ onnx.valid = FALSE
    BY <2>1, EmptyFields DEF RulesFirst, NoPath
  <2>3. RulesFirst'
    BY <2>1, <2>2 DEF RulesFirst
  <2>4. SignalOK'
    BY <2>1 DEF SignalOK, MinimalFeatures
  <2> QED
    BY <2>1, <2>3, <2>4, ResultStays, PathStays
<1>9. CASE MapProtocols
  <2>1. /\ pc = "inferred" /\ pc' = "publish"
        /\ UNCHANGED <<loaded, lowLoaded, freq, f, r, path, onnx>>
    BY <1>9 DEF MapProtocols
  <2>2. Threshold' = Threshold /\ OnUnknown' = OnUnknown
    BY <2>1 DEF Threshold, OnUnknown, UseLow
  <2>3. RulesFirst'
    BY <2>1, <2>2 DEF RulesFirst
  <2>4. SignalOK'
    BY <2>1 DEF SignalOK, MinimalFeatures
  <2> QED
    BY <2>1, <2>3, <2>4, ResultStays, PathStays
<1>10. CASE Publish
  <2>1. SignalOK' /\ RulesFirst'
    BY <1>10 DEF Publish, SignalOK, RulesFirst
  <2> QED
    BY <1>10, <2>1, EmptyOK DEF Publish
<1>11. CASE UNCHANGED vars
  <2>1. Threshold' = Threshold /\ OnUnknown' = OnUnknown
    BY <1>11 DEF vars, Threshold, OnUnknown, UseLow
  <2>2. SignalOK' /\ RulesFirst'
    BY <1>11, <2>1 DEF vars, SignalOK, RulesFirst, MinimalFeatures
  <2> QED
    BY <1>11, <2>2, ResultStays, PathStays DEF vars
<1> QED
  BY <1>1, <1>2, <1>3, <1>4, <1>5, <1>6, <1>7, <1>8, <1>9, <1>10, <1>11 DEF Next

LEMMA SpecIInv == Spec => []IInv
<1>1. Init => IInv
  BY InitIInv
<1>2. IInv /\ [Next]_vars => IInv'
  BY NextIInv
<1> QED
  BY <1>1, <1>2, PTL DEF Spec

-----------------------------------------------------------------------------
(* Theorems *)

\* Every field of a result has a value of its type, in particular a modulation
\* that the rules or a model know, and a confidence that ruleConfidence() gives.
THEOREM EngineTypeOK == Spec => []TypeOK
<1>1. IInv => TypeOK
  BY Zenon DEF IInv, TypeOK, SignalOK, ResultOK, PathOK
<1> QED
  BY <1>1, SpecIInv, PTL

\* With thresholds of at most 0.8, as shipped, a model never replaces what the
\* rules found from structure, frequency or envelope.
THEOREM RulesStand ==
    ASSUME FallbackConfidence <= 80, LowConfidence <= 80
    PROVE  Spec => []RobustRulesStand
<1>1. IInv => RobustRulesStand
  <2> SUFFICES ASSUME IInv, pc = "publish", ~path.fast, path.onnxUsed,
                      Modulation(Classify(f)) \in NeverReplaced
               PROVE  FALSE
    BY DEF RobustRulesStand
  <2>1. RuleConfidence(Classify(f)) = 0 \/ RuleConfidence(Classify(f)) < Threshold
    BY DEF IInv, RulesFirst
  <2>2. Threshold \in 0..80
    BY ConfidenceAssumption DEF Threshold
  <2>3. Classify(f).classified
    BY ClassifyFields DEF NeverReplaced
  <2>4. RuleConfidence(Classify(f)) >= 80
    BY <2>3, RobustIsConfident
  <2>5. RuleConfidence(Classify(f)) \in Int
    BY ConfidenceValues
  <2> QED
    BY <2>1, <2>2, <2>4, <2>5
<1> QED
  BY <1>1, SpecIInv, PTL

\* With fallback_on_unknown set for both models, an answer the model is sure
\* enough of is what is published for a signal that passed the SNR gate and that
\* the rules leave unknown.
THEOREM ModelDecidesUnknown ==
    ASSUME FallbackOnUnknown, LowOnUnknown
    PROVE  Spec => []UnknownIsAsked
<1>1. IInv => UnknownIsAsked
  <2> SUFFICES ASSUME IInv, pc = "publish", ~path.fast, Unknown(Classify(f)), onnx.valid
               PROVE  path.onnxUsed /\ r.digital = onnx.label
    BY DEF UnknownIsAsked
  <2>1. OnUnknown
    BY DEF OnUnknown
  <2>2. RuleConfidence(Classify(f)) = 0
    BY UnknownIsUnconfident
  <2> QED
    BY <2>1, <2>2 DEF IInv, RulesFirst
<1> QED
  BY <1>1, SpecIInv, PTL

-----------------------------------------------------------------------------
(* The hypotheses *)

\* The scored signatures a list of names leaves, and the lists one more makes.
Left(S, h) == {p \in S : \A i \in DOMAIN h : p[2] # h[i]}
Extended(S, H) ==
    UNION {IF Left(S, h) = {} THEN {h} ELSE {Append(h, p[2]) : p \in Best(Left(S, h))} : h \in H}
Names(S) == {p[2] : p \in S}

\* The names of a list are different ones, and each has a score that none of
\* the signatures left exceeds.
Ranked(S, h) ==
    /\ h \in Seq(Names(S))
    /\ \A i, j \in DOMAIN h : i # j => h[i] # h[j]
    /\ \A i \in DOMAIN h : \E q \in S : q[2] = h[i] /\ \A p \in Left(S, h) : q[1] >= p[1]

LEMMA TopThreeExtends ==
    ASSUME NEW S
    PROVE  TopThree(S) = Extended(S, Extended(S, Extended(S, {<<>>})))
BY DEF TopThree, Extended, Left

\* Lists of n of the best, or of all there are.
BestOf(S, n, H) == \A h \in H : Ranked(S, h) /\ (Len(h) = n \/ Left(S, h) = {})

LEMMA ExtendRanked ==
    ASSUME NEW S, NEW H, NEW n \in Nat, BestOf(S, n, H)
    PROVE  BestOf(S, n + 1, Extended(S, H))
<1> SUFFICES ASSUME NEW h \in Extended(S, H)
             PROVE  Ranked(S, h) /\ (Len(h) = n + 1 \/ Left(S, h) = {})
  BY DEF BestOf
<1> USE DEF BestOf
<1>1. PICK g \in H : h \in IF Left(S, g) = {} THEN {g}
                           ELSE {Append(g, p[2]) : p \in Best(Left(S, g))}
  BY DEF Extended
<1>2. CASE Left(S, g) = {}
  BY <1>1, <1>2
<1>3. CASE Left(S, g) # {}
  <2>1. PICK q \in Best(Left(S, g)) : h = Append(g, q[2])
    BY <1>1, <1>3
  <2>2. q \in Left(S, g) /\ \A p \in Left(S, g) : q[1] >= p[1]
    BY DEF Best
  <2>3. /\ q \in S /\ q[2] \in Names(S) /\ g \in Seq(Names(S)) /\ Len(g) = n
        /\ \A i \in DOMAIN g : q[2] # g[i]
    BY <1>3, <2>2 DEF Left, Names, Ranked
  <2>4. /\ h \in Seq(Names(S)) /\ Len(h) = n + 1 /\ DOMAIN h = 1..(n + 1)
        /\ DOMAIN g = 1..n
        /\ h[n + 1] = q[2] /\ \A i \in 1..n : h[i] = g[i]
    BY <2>1, <2>3
  <2>5. Left(S, h) \subseteq Left(S, g)
    BY <2>4 DEF Left
  <2>6. \A i, j \in DOMAIN h : i # j => h[i] # h[j]
    BY <2>3, <2>4 DEF Ranked
  <2>7. ASSUME NEW i \in DOMAIN h
        PROVE  \E c \in S : c[2] = h[i] /\ \A p \in Left(S, h) : c[1] >= p[1]
    <3>1. CASE i = n + 1
      BY <2>2, <2>3, <2>4, <2>5, <3>1
    <3>2. CASE i \in 1..n
      <4>1. PICK c \in S : c[2] = g[i] /\ \A p \in Left(S, g) : c[1] >= p[1]
        BY <2>4, <3>2 DEF Ranked
      <4> QED
        BY <2>4, <2>5, <3>2, <4>1
    <3> QED
      BY <2>4, <2>7, <3>1, <3>2
  <2>8. Ranked(S, h)
    BY <2>4, <2>6, <2>7 DEF Ranked
  <2> QED
    BY <2>4, <2>8
<1> QED
  BY <1>2, <1>3

\* The list the mapper keeps has the best three, or all there are.
LEMMA TopThreeRanked ==
    ASSUME NEW S, NEW h \in TopThree(S)
    PROVE  Ranked(S, h) /\ (Len(h) = 3 \/ Left(S, h) = {})
<1>1. BestOf(S, 0, {<<>>})
  BY DEF BestOf, Ranked
<1>2. BestOf(S, 0 + 1, Extended(S, {<<>>}))
  BY <1>1, ExtendRanked
<1>3. BestOf(S, 1 + 1, Extended(S, Extended(S, {<<>>})))
  BY <1>2, ExtendRanked
<1>4. BestOf(S, 2 + 1, TopThree(S))
  BY <1>3, ExtendRanked, TopThreeExtends
<1> QED
  BY <1>4 DEF BestOf

\* The signature of the 24 GHz radar asks for no bandwidth, rate or structure,
\* so every signal scores at least 0.3 with it and the mapper lists something.
LEMMA SomethingScores ==
    ASSUME NEW g, NEW res
    PROVE  Scored(g, res) # {}
<1> DEFINE s == Sig("FMCW_Radar_24G", {<<2400000, 2425000>>}, {"CSS"}, <<0, 0>>, <<0, 0>>, {})
<1>1. s \in Signatures
  BY DEF Signatures, Radar
<1>2. /\ s.bw = <<0, 0>> /\ s.sr = <<0, 0>> /\ s.needs = {} /\ s.mods = {"CSS"}
      /\ s.name = "FMCW_Radar_24G"
  BY DEF Sig
<1> HIDE DEF s
<1>3. FreqMatch(s, g) \in {0, 1000}
  BY DEF FreqMatch
<1>4. ModMatch(s, g, res) \in {0, 600, 1000}
  <2>1. s.mods # {}
    BY <1>2
  <2>2. ModMatch(s, g, res) = 1000 \/ ModMatch(s, g, res) \in {0, 600}
    BY <2>1 DEF ModMatch
  <2> QED
    BY <2>2
<1>5. BandwidthMatch(s, g) = 1000 /\ RateMatch(s, res) = 1000
  BY <1>2 DEF BandwidthMatch, RateMatch, DontCare
<1>6. StructMatch(s, g) = 1000
  <2>1. {"burst", "continuous", "ofdm", "fhss"} \cap s.needs = {}
    BY <1>2
  <2>2. /\ "burst" \notin s.needs /\ "continuous" \notin s.needs
        /\ "ofdm" \notin s.needs /\ "fhss" \notin s.needs
    BY <2>1
  <2>3. StructMatch(s, g) = 10 * 10 * 10
    BY <2>2, Zenon DEF StructMatch
  <2> QED
    BY <2>3
<1>7. Score(s, g, res) > ScoreOne \div 20
  BY <1>3, <1>4, <1>5, <1>6 DEF Score, ScoreOne
<1>8. <<Score(s, g, res), s.name>> \in Scored(g, res)
  BY <1>1, <1>7 DEF Scored, MinScore
<1> QED
  BY <1>8

\* map() always lists at least one system.
LEMMA HypothesesListed ==
    ASSUME NEW g, NEW res, NEW h \in Hypotheses(g, res)
    PROVE  h # <<>>
<1>1. Ranked(Scored(g, res), h) /\ (Len(h) = 3 \/ Left(Scored(g, res), h) = {})
  BY TopThreeRanked DEF Hypotheses
<1>2. CASE h = <<>>
  <2>1. Len(h) = 0 /\ Left(Scored(g, res), h) = Scored(g, res)
    BY <1>2 DEF Left
  <2> QED
    BY <1>1, <2>1, SomethingScores
<1> QED
  BY <1>2

\* A result is classified, with one modulation, or rejected, with a reason.
OneVerdict(res) ==
    IF res.classified
    THEN (res.digital = "") # (res.analog = "")
    ELSE res.digital = "" /\ res.analog = "" /\ res.reject # ""

LEMMA VerdictOfRules ==
    ASSUME NEW g
    PROVE  OneVerdict(Classify(g))
<1>1. CASE g.snr < 5
  BY <1>1 DEF Classify, Blank, OneVerdict
<1>2. CASE ~(g.snr < 5) /\ (g.chirp \/ g.ofdm \/ g.fhss \/ g.dsss)
  BY <1>2 DEF Classify, Blank, OneVerdict
<1>3. CASE ~(g.snr < 5) /\ ~(g.chirp \/ g.ofdm \/ g.fhss \/ g.dsss) /\ IsAnalog(g)
  <2>1. ClassifyAnalog(g) # ""
    BY DEF ClassifyAnalog
  <2> QED
    BY <1>3, <2>1 DEF Classify, Blank, OneVerdict
<1>4. CASE ~(g.snr < 5) /\ ~(g.chirp \/ g.ofdm \/ g.fhss \/ g.dsss) /\ ~IsAnalog(g)
  <2>1. Classify(g) = Digital(g)
    BY <1>4 DEF Classify
  <2>2. ClassifyDigital(g).digital # ""
    BY DEF ClassifyDigital, ClassifyConstantEnvelope, ClassifyVariableAmplitude, Dig
  <2>3. /\ Digital(g).classified = TRUE /\ Digital(g).analog = ""
        /\ Digital(g).digital = ClassifyDigital(g).digital
    BY DEF Digital, Blank
  <2> QED
    BY <2>1, <2>2, <2>3 DEF OneVerdict
<1> QED
  BY <1>1, <1>2, <1>3, <1>4

\* The answer that replaces the rules' names a modulation, and no analog one.
LEMMA AnswerNamed ==
    ASSUME NEW answer \in Answers, answer.valid
    PROVE  answer.label # ""
<1>1. NoAnswer.valid = FALSE
  BY DEF NoAnswer
<1>2. answer.label \in Labels
  BY <1>1 DEF Answers
<1> QED
  BY <1>2, LabelsAssumption

\* Once the rules have spoken there is one verdict; the mapper adds hypotheses to
\* a classified result only.
VerdictInv ==
    /\ pc # "publish" => hyps = <<>>
    /\ pc \in {"ruled", "inferred", "publish"} => OneVerdict(r)
    /\ pc = "publish" => (r.classified <=> hyps # <<>>)

LEMMA NextVerdictInv == IInv /\ VerdictInv /\ [Next]_vars => VerdictInv'
<1> SUFFICES ASSUME IInv, VerdictInv, [Next]_vars PROVE VerdictInv'
  OBVIOUS
<1>1. ASSUME Detect \/ FallBack \/ NoSamples \/ Extract PROVE VerdictInv'
  <2>1. pc # "publish" /\ pc' \notin {"ruled", "inferred", "publish"} /\ hyps' = hyps
    BY <1>1 DEF Detect, FallBack, NoSamples, Extract
  <2> QED
    BY <2>1 DEF VerdictInv
<1>2. ASSUME FastPath PROVE VerdictInv'
  <2>1. PICK answer \in Answers : answer.valid /\ r' = SnapshotResult(answer)
    BY <1>2 DEF FastPath
  <2>2. r'.classified = TRUE /\ r'.analog = "" /\ r'.digital = answer.label
    BY <2>1 DEF SnapshotResult, NoResult, Blank
  <2>3. r'.digital # ""
    BY <2>1, <2>2, AnswerNamed
  <2>4. hyps' # <<>>
    BY <1>2, HypothesesListed DEF FastPath
  <2>5. pc' = "publish"
    BY <1>2 DEF FastPath
  <2> QED
    BY <2>2, <2>3, <2>4, <2>5 DEF VerdictInv, OneVerdict
<1>3. ASSUME ApplyRules PROVE VerdictInv'
  <2>1. pc = "extracted" /\ pc' = "ruled" /\ r' = Classify(f) /\ hyps' = hyps
    BY <1>3 DEF ApplyRules
  <2>2. OneVerdict(r')
    BY <2>1, VerdictOfRules
  <2> QED
    BY <2>1, <2>2 DEF VerdictInv, OneVerdict
<1>4. ASSUME Infer PROVE VerdictInv'
  <2>1. pc = "ruled" /\ pc' = "inferred" /\ hyps' = hyps /\ r = Classify(f)
    BY <1>4 DEF Infer, IInv, RulesFirst
  <2>2. PICK answer \in Answers :
          /\ onnx' = answer
          /\ \/ UseOnnx(answer) /\ Override(answer)
             \/ ~UseOnnx(answer) /\ UNCHANGED <<r, path>>
    BY <1>4 DEF Infer
  <2>3. ASSUME UseOnnx(answer), Override(answer) PROVE OneVerdict(r')
    <3>1. r' = Overridden(f, answer.label) /\ answer.valid
      BY <2>1, <2>3 DEF Override, Overridden, UseOnnx
    <3>2. r'.classified = TRUE /\ r'.analog = "" /\ r'.digital = answer.label
      BY <3>1, OverrideFields
    <3> QED
      BY <3>1, <3>2, AnswerNamed DEF OneVerdict
  <2>4. OneVerdict(r')
    BY <2>1, <2>2, <2>3 DEF VerdictInv
  <2> QED
    BY <2>1, <2>4 DEF VerdictInv, OneVerdict
<1>5. ASSUME SkipInference PROVE VerdictInv'
  <2>1. pc = "ruled" /\ pc' = "inferred" /\ hyps' = hyps /\ r' = r
    BY <1>5 DEF SkipInference
  <2> QED
    BY <2>1 DEF VerdictInv, OneVerdict
<1>6. ASSUME MapProtocols PROVE VerdictInv'
  <2>1. pc = "inferred" /\ pc' = "publish" /\ r' = r
    BY <1>6 DEF MapProtocols
  <2>2. r.classified <=> hyps' # <<>>
    BY <1>6, <2>1, HypothesesListed DEF MapProtocols, VerdictInv
  <2> QED
    BY <2>1, <2>2 DEF VerdictInv, OneVerdict
<1>7. ASSUME Publish PROVE VerdictInv'
  BY <1>7 DEF Publish, VerdictInv
<1>8. ASSUME UNCHANGED vars PROVE VerdictInv'
  BY <1>8 DEF vars, VerdictInv, OneVerdict
<1> QED
  BY <1>1, <1>2, <1>3, <1>4, <1>5, <1>6, <1>7, <1>8 DEF Next

\* Whichever of rules and model speaks last, a published result is classified
\* with exactly one modulation and at least one hypothesis, or rejected with a
\* reason, no modulation and none.
THEOREM ResultsAreCoherent == Spec => []Coherent
<1>1. Init => VerdictInv
  BY DEF Init, VerdictInv
<1>2. IInv /\ VerdictInv /\ [Next]_vars => VerdictInv'
  BY NextVerdictInv
<1>3. VerdictInv => Coherent
  BY DEF VerdictInv, OneVerdict, Coherent
<1> QED
  BY <1>1, <1>2, <1>3, SpecIInv, PTL DEF Spec

\* The hypotheses of a published signal are the best three of the signatures
\* that score above 0.05, each named once: none that is left out has a higher
\* score than one that is listed.
HypothesesAreBest ==
    pc = "publish" /\ r.classified =>
        Ranked(Scored(f, r), hyps) /\ (Len(hyps) = 3 \/ Left(Scored(f, r), hyps) = {})

THEOREM BestSystemsListed == Spec => []HypothesesAreBest
<1>1. Init => HypothesesAreBest
  BY DEF Init, HypothesesAreBest
<1>2. HypothesesAreBest /\ [Next]_vars => HypothesesAreBest'
  <2> SUFFICES ASSUME HypothesesAreBest, [Next]_vars, pc' = "publish", r'.classified
               PROVE  /\ Ranked(Scored(f', r'), hyps')
                      /\ Len(hyps') = 3 \/ Left(Scored(f', r'), hyps') = {}
    BY DEF HypothesesAreBest
  <2>1. ASSUME FastPath \/ MapProtocols PROVE hyps' \in Hypotheses(f', r')
    BY <2>1 DEF FastPath, MapProtocols
  <2>2. FastPath \/ MapProtocols \/ UNCHANGED vars
    BY DEF Next, Detect, FallBack, NoSamples, Extract, ApplyRules, Infer, SkipInference, Publish
  <2>3. CASE FastPath \/ MapProtocols
    BY <2>1, <2>3, TopThreeRanked DEF Hypotheses
  <2>4. CASE UNCHANGED vars
    BY <2>4 DEF vars, HypothesesAreBest
  <2> QED
    BY <2>2, <2>3, <2>4
<1> QED
  BY <1>1, <1>2, PTL DEF Spec

-----------------------------------------------------------------------------
(* The signatures *)

\* The ranges of a signature are ranges, and only the empty one starts at 0.
Ordered(range) ==
    /\ range[1] \in Nat /\ range[2] \in Nat /\ range[1] <= range[2]
    /\ range # <<0, 0>> => range[1] > 0

\* Two signatures ask for no modulation.
Unmodulated(s) ==
    s.mods = {} => \/ s.name = "ADS-B" /\ s.bands = {<<108900, 109100>>}
                   \/ s.name = "Weather_Radar" /\ s.bands = {<<270000, 290000>>}

\* Those two have their bands to themselves, but for the cellular signature
\* whose band ends where the radar's begins.
Covers(s, x) == \E b \in s.bands : b[1] <= x /\ x <= b[2]
Undisturbed(s, x) ==
    Covers(s, x) =>
        /\ 108900 <= x /\ x <= 109100 => s.name = "ADS-B"
        /\ 270000 <= x /\ x <= 290000 => s.name = "Weather_Radar" \/ s.name = "5G_NR_Sub-6"

\* An entry of the database as buildDatabase() writes them.
WellFormed(s) ==
    /\ s.bands # {} /\ Ordered(s.bw) /\ Ordered(s.sr) /\ Unmodulated(s)
    /\ \A x \in Nat : Undisturbed(s, x)

LEMMA BroadcastEntries == \A s \in Broadcast : WellFormed(s)
<1> SUFFICES ASSUME NEW s \in Broadcast PROVE WellFormed(s)
  OBVIOUS
<1>1. \E b \in {<<52, 171>>, <<8750, 10800>>, <<17400, 24000>>, <<300, 3000>>} : b \in s.bands
  BY SMT DEF Broadcast, Sig
<1>2. Ordered(s.bw) /\ Ordered(s.sr)
  BY SMT DEF Broadcast, Sig, Ordered
<1>3. Unmodulated(s)
  BY SMT DEF Broadcast, Sig, Unmodulated
<1>4. ASSUME NEW x \in Nat PROVE Undisturbed(s, x)
  BY SMT DEF Broadcast, Sig, Undisturbed, Covers
<1>5. s.bands # {}
  BY ONLY <1>1, SMT
<1> QED
  BY ONLY <1>2, <1>3, <1>4, <1>5 DEF WellFormed

LEMMA AviationEntries == \A s \in Aviation : WellFormed(s)
<1> SUFFICES ASSUME NEW s \in Aviation PROVE WellFormed(s)
  OBVIOUS
<1>1. \E b \in {<<11800, 13700>>, <<108900, 109100>>, <<12900, 13000>>, <<10800, 11800>>} : b \in s.bands
  BY SMT DEF Aviation, Sig
<1>2. Ordered(s.bw) /\ Ordered(s.sr)
  BY SMT DEF Aviation, Sig, Ordered
<1>3. Unmodulated(s)
  BY SMT DEF Aviation, Sig, Unmodulated
<1>4. ASSUME NEW x \in Nat PROVE Undisturbed(s, x)
  BY SMT DEF Aviation, Sig, Undisturbed, Covers
<1>5. s.bands # {}
  BY ONLY <1>1, SMT
<1> QED
  BY ONLY <1>2, <1>3, <1>4, <1>5 DEF WellFormed

LEMMA MarineEntries == \A s \in Marine : WellFormed(s)
<1> SUFFICES ASSUME NEW s \in Marine PROVE WellFormed(s)
  OBVIOUS
<1>1. \E b \in {<<16190, 16210>>, <<15600, 17400>>, <<15650, 15660>>} : b \in s.bands
  BY SMT DEF Marine, Sig
<1>2. Ordered(s.bw) /\ Ordered(s.sr)
  BY SMT DEF Marine, Sig, Ordered
<1>3. Unmodulated(s)
  BY SMT DEF Marine, Sig, Unmodulated
<1>4. ASSUME NEW x \in Nat PROVE Undisturbed(s, x)
  BY SMT DEF Marine, Sig, Undisturbed, Covers
<1>5. s.bands # {}
  BY ONLY <1>1, SMT
<1> QED
  BY ONLY <1>2, <1>3, <1>4, <1>5 DEF WellFormed

LEMMA AmateurEntries == \A s \in Amateur : WellFormed(s)
<1> SUFFICES ASSUME NEW s \in Amateur PROVE WellFormed(s)
  OBVIOUS
<1>1. \E b \in {<<14430, 14450>>, <<357, 358>>, <<1409, 1410>>, <<1406, 1408>>, <<300, 3000>>,
                 <<14400, 14800>>, <<13600, 17400>>} : b \in s.bands
  BY SMT DEF Amateur, Sig
<1>2. Ordered(s.bw) /\ Ordered(s.sr)
  BY SMT DEF Amateur, Sig, Ordered
<1>3. Unmodulated(s)
  BY SMT DEF Amateur, Sig, Unmodulated
<1>4. ASSUME NEW x \in Nat PROVE Undisturbed(s, x)
  BY SMT DEF Amateur, Sig, Undisturbed, Covers
<1>5. s.bands # {}
  BY ONLY <1>1, SMT
<1> QED
  BY ONLY <1>2, <1>3, <1>4, <1>5 DEF WellFormed

LEMMA PublicSafetyEntries == \A s \in PublicSafety : WellFormed(s)
<1> SUFFICES ASSUME NEW s \in PublicSafety PROVE WellFormed(s)
  OBVIOUS
<1>1. \E b \in {<<38000, 40000>>, <<13600, 17400>>, <<13800, 17400>>} : b \in s.bands
  BY SMT DEF PublicSafety, Sig
<1>2. Ordered(s.bw) /\ Ordered(s.sr)
  BY SMT DEF PublicSafety, Sig, Ordered
<1>3. Unmodulated(s)
  BY SMT DEF PublicSafety, Sig, Unmodulated
<1>4. ASSUME NEW x \in Nat PROVE Undisturbed(s, x)
  BY SMT DEF PublicSafety, Sig, Undisturbed, Covers
<1>5. s.bands # {}
  BY ONLY <1>1, SMT
<1> QED
  BY ONLY <1>2, <1>3, <1>4, <1>5 DEF WellFormed

LEMMA CellularEntries == \A s \in Cellular : WellFormed(s)
<1> SUFFICES ASSUME NEW s \in Cellular PROVE WellFormed(s)
  OBVIOUS
<1>1. \E b \in {<<82400, 89400>>, <<88000, 96000>>, <<171000, 188000>>, <<185000, 199000>>,
                 <<85000, 90000>>, <<69800, 79800>>, <<79000, 86200>>,
                 <<190000, 220000>>, <<250000, 269000>>, <<60000, 70000>>,
                 <<2425000, 5260000>>} : b \in s.bands
  BY SMT DEF Cellular, Sig
<1>2. Ordered(s.bw) /\ Ordered(s.sr)
  BY SMT DEF Cellular, Sig, Ordered
<1>3. Unmodulated(s)
  BY SMT DEF Cellular, Sig, Unmodulated
<1>4. ASSUME NEW x \in Nat PROVE Undisturbed(s, x)
  BY SMT DEF Cellular, Sig, Undisturbed, Covers
<1>5. s.bands # {}
  BY ONLY <1>1, SMT
<1> QED
  BY ONLY <1>2, <1>3, <1>4, <1>5 DEF WellFormed

LEMMA ISMEntries == \A s \in ISM : WellFormed(s)
<1> SUFFICES ASSUME NEW s \in ISM PROVE WellFormed(s)
  OBVIOUS
<1>1. \E b \in {<<240000, 248400>>, <<515000, 585000>>, <<43300, 43500>>, <<86300, 87000>>,
                 <<90200, 92800>>, <<86830, 86860>>, <<90830, 90860>>} : b \in s.bands
  BY SMT DEF ISM, Sig
<1>2. Ordered(s.bw) /\ Ordered(s.sr)
  BY SMT DEF ISM, Sig, Ordered
<1>3. Unmodulated(s)
  BY SMT DEF ISM, Sig, Unmodulated
<1>4. ASSUME NEW x \in Nat PROVE Undisturbed(s, x)
  BY SMT DEF ISM, Sig, Undisturbed, Covers
<1>5. s.bands # {}
  BY ONLY <1>1, SMT
<1> QED
  BY ONLY <1>2, <1>3, <1>4, <1>5 DEF WellFormed

LEMMA AutomotiveEntries == \A s \in Automotive : WellFormed(s)
<1> SUFFICES ASSUME NEW s \in Automotive PROVE WellFormed(s)
  OBVIOUS
<1>1. \E b \in {<<31450, 31550>>, <<43300, 43400>>, <<86800, 86900>>} : b \in s.bands
  BY SMT DEF Automotive, Sig
<1>2. Ordered(s.bw) /\ Ordered(s.sr)
  BY SMT DEF Automotive, Sig, Ordered
<1>3. Unmodulated(s)
  BY SMT DEF Automotive, Sig, Unmodulated
<1>4. ASSUME NEW x \in Nat PROVE Undisturbed(s, x)
  BY SMT DEF Automotive, Sig, Undisturbed, Covers
<1>5. s.bands # {}
  BY ONLY <1>1, SMT
<1> QED
  BY ONLY <1>2, <1>3, <1>4, <1>5 DEF WellFormed

LEMMA SatelliteEntries == \A s \in Satellite : WellFormed(s)
<1> SUFFICES ASSUME NEW s \in Satellite PROVE WellFormed(s)
  OBVIOUS
<1>1. \E b \in {<<157500, 157600>>, <<13700, 13800>>, <<161600, 162650>>, <<152500, 155900>>} : b \in s.bands
  BY SMT DEF Satellite, Sig
<1>2. Ordered(s.bw) /\ Ordered(s.sr)
  BY SMT DEF Satellite, Sig, Ordered
<1>3. Unmodulated(s)
  BY SMT DEF Satellite, Sig, Unmodulated
<1>4. ASSUME NEW x \in Nat PROVE Undisturbed(s, x)
  BY SMT DEF Satellite, Sig, Undisturbed, Covers
<1>5. s.bands # {}
  BY ONLY <1>1, SMT
<1> QED
  BY ONLY <1>2, <1>3, <1>4, <1>5 DEF WellFormed

LEMMA RadarEntries == \A s \in Radar : WellFormed(s)
<1> SUFFICES ASSUME NEW s \in Radar PROVE WellFormed(s)
  OBVIOUS
<1>1. \E b \in {<<2400000, 2425000>>, <<7600000, 7700000>>, <<270000, 290000>>} : b \in s.bands
  BY SMT DEF Radar, Sig
<1>2. Ordered(s.bw) /\ Ordered(s.sr)
  BY SMT DEF Radar, Sig, Ordered
<1>3. Unmodulated(s)
  BY SMT DEF Radar, Sig, Unmodulated
<1>4. ASSUME NEW x \in Nat PROVE Undisturbed(s, x)
  BY SMT DEF Radar, Sig, Undisturbed, Covers
<1>5. s.bands # {}
  BY ONLY <1>1, SMT
<1> QED
  BY ONLY <1>2, <1>3, <1>4, <1>5 DEF WellFormed

LEMMA SignaturesWellFormed == \A s \in Signatures : WellFormed(s)
BY BroadcastEntries, AviationEntries, MarineEntries, AmateurEntries, PublicSafetyEntries,
   CellularEntries, ISMEntries, AutomotiveEntries, SatelliteEntries, RadarEntries DEF Signatures

-----------------------------------------------------------------------------
(* The matches *)

\* A bell within a sigma's half is above 0.88, within three quarters above 0.75.
LEMMA BellAbove ==
    ASSUME NEW q \in Nat
    PROVE  /\ Bell(q) \in 0..1000
           /\ q <= 2 => Bell(q) >= 883
           /\ Bell(q) >= 766 => q <= 2
<1>1. CASE q >= 15
  BY <1>1 DEF Bell
<1>2. CASE q <= 14
  <2>1. Bell(q) = <<1000, 970, 883, 755, 607, 458, 325, 217, 136, 80, 44, 23, 12, 6, 3>>[q + 1]
    BY <1>2 DEF Bell
  <2>2. q \in {0, 1, 2, 3, 4, 5, 6, 7, 8, 9, 10, 11, 12, 13, 14}
    BY <1>2
  <2> QED
    BY <2>1, <2>2
<1> QED
  BY <1>1, <1>2

\* Of a quotient by a positive number.
LEMMA QuotientBelow ==
    ASSUME NEW n \in Nat, NEW d \in Nat, d > 0
    PROVE  /\ n \div d \in Nat
           /\ n \div d <= 2 => n < 3 * d
           /\ n <= 2 * d => n \div d <= 2
OBVIOUS

\* The distance from the middle of a range, twice.
Twice(range, x) ==
    LET off == 2 * x - (range[1] + range[2]) IN IF off < 0 THEN -off ELSE off

LEMMA RangeMatchIs ==
    ASSUME NEW range, Ordered(range), ~DontCare(range), NEW x \in Nat
    PROVE  LET lo == range[1]
               hi == range[2]
           IN  \/ RangeMatch(range, x) = 0 /\ (2 * x < lo \/ x > 2 * hi)
               \/ hi > lo /\ RangeMatch(range, x) = Bell((2 * Twice(range, x)) \div (hi - lo))
               \/ hi = lo /\ RangeMatch(range, x) = Bell((40 * Twice(range, x)) \div (3 * (lo + hi)))
BY DEF RangeMatch, Twice, Ordered

\* A match of a value in the range is above 0.88; a value with a match above
\* 0.76 is in the range or close to it.
Graded(range, x, match) ==
    /\ match \in 0..1000
    /\ InRange(range, x) => match >= 883
    /\ match >= 766 => CloseTo(range, x)

LEMMA RangeMatchBounds ==
    ASSUME NEW range, Ordered(range), ~DontCare(range), NEW x \in Nat
    PROVE  Graded(range, x, RangeMatch(range, x))
<1> DEFINE lo == range[1]
           hi == range[2]
           t == Twice(range, x)
<1>1. lo \in Nat /\ hi \in Nat /\ lo <= hi /\ lo > 0
  BY DEF Ordered, DontCare
<1>2. t \in Nat /\ (t = 2 * x - (lo + hi) \/ t = (lo + hi) - 2 * x)
  BY <1>1 DEF Twice
<1>3. InRange(range, x) => lo <= x /\ x <= hi
  BY DEF InRange
<1>4. InRange(range, x) => t <= hi - lo
  BY <1>1, <1>2, <1>3
<1>5. CASE RangeMatch(range, x) = 0 /\ (2 * x < lo \/ x > 2 * hi)
  BY <1>1, <1>3, <1>5 DEF Graded
<1>6. CASE hi > lo /\ RangeMatch(range, x) = Bell((2 * t) \div (hi - lo))
  <2> DEFINE q == (2 * t) \div (hi - lo)
  <2>1. /\ q \in Nat
        /\ q <= 2 => 2 * t < 3 * (hi - lo)
        /\ 2 * t <= 2 * (hi - lo) => q <= 2
    <3>1. 2 * t \in Nat /\ hi - lo \in Nat /\ hi - lo > 0
      BY <1>1, <1>2, <1>6
    <3> QED
      BY <3>1, QuotientBelow
  <2> HIDE DEF q
  <2>2. RangeMatch(range, x) = Bell(q)
    BY <1>6 DEF q
  <2>3. /\ Bell(q) \in 0..1000
        /\ q <= 2 => Bell(q) >= 883
        /\ Bell(q) >= 766 => q <= 2
    BY <2>1, BellAbove
  <2>4. InRange(range, x) => 2 * t <= 2 * (hi - lo)
    BY <1>1, <1>2, <1>4, <1>6
  <2>5. RangeMatch(range, x) \in 0..1000 /\ (InRange(range, x) => RangeMatch(range, x) >= 883)
    BY <2>1, <2>2, <2>3, <2>4
  <2>6. ASSUME RangeMatch(range, x) >= 766 PROVE CloseTo(range, x)
    <3>1. 2 * t < 3 * (hi - lo)
      BY <2>1, <2>2, <2>3, <2>6
    <3>2. 40 * lo - 10 * (hi - lo) < 40 * x /\ 40 * x < 40 * hi + 10 * (hi - lo)
      BY <1>1, <1>2, <3>1
    <3> QED
      BY <1>1, <1>6, <3>2 DEF CloseTo
  <2> QED
    BY <2>5, <2>6 DEF Graded
<1>7. CASE hi = lo /\ RangeMatch(range, x) = Bell((40 * t) \div (3 * (lo + hi)))
  <2> DEFINE q == (40 * t) \div (3 * (lo + hi))
  <2>1. /\ q \in Nat
        /\ q <= 2 => 40 * t < 3 * (3 * (lo + hi))
        /\ 40 * t <= 2 * (3 * (lo + hi)) => q <= 2
    <3>1. 40 * t \in Nat /\ 3 * (lo + hi) \in Nat /\ 3 * (lo + hi) > 0
      BY <1>1, <1>2
    <3> QED
      BY <3>1, QuotientBelow
  <2> HIDE DEF q
  <2>2. RangeMatch(range, x) = Bell(q)
    BY <1>7 DEF q
  <2>3. /\ Bell(q) \in 0..1000
        /\ q <= 2 => Bell(q) >= 883
        /\ Bell(q) >= 766 => q <= 2
    BY <2>1, BellAbove
  <2>4. InRange(range, x) => 40 * t <= 2 * (3 * (lo + hi))
    BY <1>1, <1>2, <1>4, <1>7
  <2>5. RangeMatch(range, x) \in 0..1000 /\ (InRange(range, x) => RangeMatch(range, x) >= 883)
    BY <2>1, <2>2, <2>3, <2>4
  <2>6. ASSUME RangeMatch(range, x) >= 766 PROVE CloseTo(range, x)
    <3>1. 40 * t < 3 * (3 * (lo + hi))
      BY <2>1, <2>2, <2>3, <2>6
    <3>2. 40 * lo - 9 * lo < 40 * x /\ 40 * x < 40 * hi + 9 * lo
      BY <1>1, <1>2, <1>7, <3>1
    <3> QED
      BY <1>7, <3>2 DEF CloseTo
  <2> QED
    BY <2>5, <2>6 DEF Graded
<1> QED
  BY <1>5, <1>6, <1>7, RangeMatchIs

\* The fields of a signal and of a result the matches compute with.
Measured(g, res) == g.cf \in Nat /\ g.bw \in Nat /\ res.symRate \in Nat

\* Where nothing is asked for, the match is full.
LEMMA DontCareGraded ==
    ASSUME NEW range, DontCare(range), NEW x
    PROVE  Graded(range, x, 1000)
BY DEF Graded, CloseTo

LEMMA BandwidthGraded ==
    ASSUME NEW s, WellFormed(s), NEW g, NEW res, Measured(g, res)
    PROVE  Graded(s.bw, g.bw, BandwidthMatch(s, g))
<1>1. CASE DontCare(s.bw)
  BY <1>1, DontCareGraded DEF BandwidthMatch
<1>2. CASE ~DontCare(s.bw)
  <2>1. BandwidthMatch(s, g) = RangeMatch(s.bw, g.bw)
    BY <1>2 DEF BandwidthMatch
  <2>2. Ordered(s.bw) /\ g.bw \in Nat
    BY DEF WellFormed, Measured
  <2>3. Graded(s.bw, g.bw, RangeMatch(s.bw, g.bw))
    BY <1>2, <2>2, RangeMatchBounds, Zenon
  <2> QED
    BY <2>1, <2>3
<1> QED
  BY <1>1, <1>2

\* A rate that was not measured is out of every range that is asked for.
LEMMA RateGraded ==
    ASSUME NEW s, WellFormed(s), NEW g, NEW res, Measured(g, res)
    PROVE  Graded(s.sr, res.symRate, RateMatch(s, res))
<1>1. CASE DontCare(s.sr)
  <2>1. RateMatch(s, res) = 1000
    BY <1>1 DEF RateMatch
  <2> QED
    BY <1>1, <2>1, DontCareGraded
<1>2. CASE ~DontCare(s.sr) /\ res.symRate = 0
  <2>1. RateMatch(s, res) = 300
    BY <1>2 DEF RateMatch
  <2>2. ~InRange(s.sr, res.symRate)
    BY <1>2 DEF InRange, WellFormed, Ordered, DontCare
  <2> QED
    BY <2>1, <2>2 DEF Graded
<1>3. CASE ~DontCare(s.sr) /\ res.symRate # 0
  <2>1. RateMatch(s, res) = RangeMatch(s.sr, res.symRate)
    BY <1>3 DEF RateMatch
  <2>2. Ordered(s.sr) /\ res.symRate \in Nat
    BY DEF WellFormed, Measured
  <2>3. Graded(s.sr, res.symRate, RangeMatch(s.sr, res.symRate))
    BY <1>3, <2>2, RangeMatchBounds, Zenon
  <2> QED
    BY <2>1, <2>3
<1> QED
  BY <1>1, <1>2, <1>3

LEMMA OtherMatches ==
    ASSUME NEW s, NEW g, NEW res
    PROVE  /\ FreqMatch(s, g) \in {0, 1000}
           /\ ModMatch(s, g, res) \in {0, 500, 600, 1000}
           /\ s.mods = {} => ModMatch(s, g, res) = 500
           /\ s.mods # {} => (ModMatch(s, g, res) = 1000 <=> \E m \in s.mods : Has(m, g, res))
           /\ StructMatch(s, g) \in {1000, 300, 200, 60, 40, 12}
<1>1. FreqMatch(s, g) \in {0, 1000}
  BY DEF FreqMatch
<1>2. s.mods = {} => ModMatch(s, g, res) = 500
  BY Zenon DEF ModMatch
<1>3. ASSUME s.mods # {}, \E m \in s.mods : Has(m, g, res)
      PROVE  ModMatch(s, g, res) = 1000
  BY <1>3 DEF ModMatch
<1>4. ASSUME s.mods # {}, ~\E m \in s.mods : Has(m, g, res)
      PROVE  ModMatch(s, g, res) \in {0, 600}
  BY <1>4 DEF ModMatch
<1>5. StructMatch(s, g) \in {1000, 300, 200, 60, 40, 12}
  <2>1. \E a \in {3, 10}, b \in {2, 10}, c \in {2, 10} : StructMatch(s, g) = a * b * c
    BY Zenon DEF StructMatch
  <2> QED
    BY <2>1
<1> QED
  BY <1>1, <1>2, <1>3, <1>4, <1>5

\* What a signal scores at least with a signature it fits, in all it asks for,
\* or in the rest where it asks for no modulation.
FitsAll == 96490000
FitsRest == 81490000

\* Score() of its five matches.
Weighted(F, M, B, R, T) == (40 * F + 30 * M + 15 * B + 15 * R) * T

\* The values the matches take, and what they are at least when the score is
\* that high.
AreMatches(F, M, B, R, T) ==
    /\ F \in {0, 1000} /\ M \in {0, 500, 600, 1000} /\ B \in 0..1000 /\ R \in 0..1000
    /\ T \in {1000, 300, 200, 60, 40, 12}
AreHigh(F, M, B, R, T) ==
    /\ Weighted(F, M, B, R, T) \in Nat
    /\ Weighted(F, M, B, R, T) >= FitsRest => F = 1000
    /\ Weighted(F, M, B, R, T) >= FitsAll =>
         F = 1000 /\ M = 1000 /\ B >= 766 /\ R >= 766 /\ T = 1000

LEMMA HighSum ==
    ASSUME NEW F, NEW M, NEW B, NEW R, NEW T, AreMatches(F, M, B, R, T)
    PROVE  AreHigh(F, M, B, R, T)
BY SMTT(30) DEF AreMatches, AreHigh, Weighted, FitsRest, FitsAll

\* The score of a signal that has all a signature asks for.
LEMMA FitScore ==
    ASSUME NEW s, WellFormed(s), NEW g, NEW res, Measured(g, res), Fits(s, g, res)
    PROVE  /\ s.mods # {} => Score(s, g, res) >= FitsAll
           /\ s.mods = {} => Score(s, g, res) >= FitsRest
<1> DEFINE M == ModMatch(s, g, res)
           B == BandwidthMatch(s, g)
           R == RateMatch(s, res)
<1>1. FreqMatch(s, g) = 1000 /\ StructMatch(s, g) = 1000
  BY DEF Fits
<1>2. B \in 0..1000 /\ R \in 0..1000 /\ B >= 883 /\ R >= 883
  BY BandwidthGraded, RateGraded DEF Fits, Graded
<1>3. M \in {500, 1000} /\ (s.mods # {} => M = 1000)
  BY OtherMatches DEF Fits
<1>4. Score(s, g, res) = Weighted(1000, M, B, R, 1000)
  BY <1>1 DEF Score, Weighted
<1> HIDE DEF M, B, R
<1>5. /\ Weighted(1000, M, B, R, 1000) >= FitsRest
      /\ M = 1000 => Weighted(1000, M, B, R, 1000) >= FitsAll
  BY <1>2, <1>3, SMTT(30) DEF Weighted, FitsRest, FitsAll
<1> QED
  BY <1>3, <1>4, <1>5

\* What a signature has that scores as high.
LEMMA HighScore ==
    ASSUME NEW s, WellFormed(s), NEW g, NEW res, Measured(g, res)
    PROVE  /\ Score(s, g, res) \in Nat
           /\ Score(s, g, res) >= FitsAll => NearlyFits(s, g, res)
           /\ Score(s, g, res) >= FitsRest => FreqMatch(s, g) = 1000
<1> DEFINE F == FreqMatch(s, g)
           M == ModMatch(s, g, res)
           B == BandwidthMatch(s, g)
           R == RateMatch(s, res)
           T == StructMatch(s, g)
<1>1. AreMatches(F, M, B, R, T)
  BY BandwidthGraded, RateGraded, OtherMatches DEF AreMatches, Graded
<1>2. Score(s, g, res) = Weighted(F, M, B, R, T)
  BY DEF Score, Weighted
<1> HIDE DEF F, M, B, R, T
<1>3. AreHigh(F, M, B, R, T)
  BY <1>1, HighSum, Zenon
<1>4. /\ Score(s, g, res) \in Nat
      /\ Score(s, g, res) >= FitsRest => F = 1000
      /\ Score(s, g, res) >= FitsAll =>
           F = 1000 /\ M = 1000 /\ B >= 766 /\ R >= 766 /\ T = 1000
  BY <1>2, <1>3 DEF AreHigh
<1>5. ASSUME Score(s, g, res) >= FitsAll PROVE NearlyFits(s, g, res)
  <2>1. F = 1000 /\ M = 1000 /\ B >= 766 /\ R >= 766 /\ T = 1000
    BY <1>4, <1>5
  <2>2. \E m \in s.mods : Has(m, g, res)
    BY <2>1, OtherMatches DEF M
  <2>3. CloseTo(s.bw, g.bw) /\ CloseTo(s.sr, res.symRate)
    BY <2>1, BandwidthGraded, RateGraded DEF B, R, Graded
  <2> QED
    BY <2>1, <2>2, <2>3 DEF NearlyFits, F, T
<1> QED
  BY <1>4, <1>5, Zenon DEF F

-----------------------------------------------------------------------------
(* Whom a fitting system gives way to *)

Listed(h) == {h[i] : i \in DOMAIN h}
Fitting(g, res) == {s.name : s \in {t \in Signatures : Fits(t, g, res)}}
Nearly(g, res) == {s.name : s \in {t \in Signatures : NearlyFits(t, g, res)}}

LEMMA FrequencyCovered ==
    ASSUME NEW s, WellFormed(s), NEW g, FreqMatch(s, g) = 1000
    PROVE  Covers(s, g.cf)
BY DEF FreqMatch, Covers, WellFormed

\* Whatever scores high enough for the rest is a candidate.
LEMMA CandidateScores ==
    ASSUME NEW s \in Signatures, NEW g, NEW res, Score(s, g, res) \in Nat,
           Score(s, g, res) >= FitsAll \/ Score(s, g, res) >= FitsRest
    PROVE  <<Score(s, g, res), s.name>> \in Scored(g, res)
<1>1. Score(s, g, res) > ScoreOne \div 20
  BY SMT DEF FitsAll, FitsRest, ScoreOne
<1> QED
  BY <1>1, Zenon DEF Scored, MinScore

\* No three systems share the band of a signature that asks for no modulation.
LEMMA UnmodulatedIsListed ==
    ASSUME NEW s \in Signatures, s.mods = {}, NEW g, NEW res, Measured(g, res), Fits(s, g, res),
           NEW h, DOMAIN h = 1..3, \A i, j \in DOMAIN h : i # j => h[i] # h[j],
           \A i \in DOMAIN h : \E t \in Signatures : t.name = h[i] /\ FreqMatch(t, g) = 1000
    PROVE  s.name \in Listed(h)
<1>1. WellFormed(s) /\ Covers(s, g.cf) /\ g.cf \in Nat
  BY SignaturesWellFormed, FrequencyCovered DEF Fits, Measured
<1>2. ASSUME NEW i \in DOMAIN h
      PROVE  /\ 108900 <= g.cf /\ g.cf <= 109100 => h[i] = "ADS-B"
             /\ 270000 <= g.cf /\ g.cf <= 290000 => h[i] = "Weather_Radar" \/ h[i] = "5G_NR_Sub-6"
  <2>1. PICK t \in Signatures : t.name = h[i] /\ FreqMatch(t, g) = 1000
    BY <1>2, SMT
  <2>2. WellFormed(t) /\ Covers(t, g.cf)
    BY <2>1, SignaturesWellFormed, FrequencyCovered, SMT
  <2>3. Undisturbed(t, g.cf)
    BY <1>1, <2>2, SMT DEF WellFormed
  <2> QED
    BY <2>1, <2>2, <2>3, SMT DEF Undisturbed
<1>3. 1 \in DOMAIN h /\ 2 \in DOMAIN h /\ h[1] # h[2]
  BY SMT
<1>4. CASE s.name = "ADS-B" /\ s.bands = {<<108900, 109100>>}
  <2>1. 108900 <= g.cf /\ g.cf <= 109100
    BY <1>1, <1>4, SMT DEF Covers
  <2>2. h[1] = s.name
    BY <1>2, <1>3, <1>4, <2>1, SMT
  <2> QED
    BY <1>3, <2>2, SMT DEF Listed
<1>5. CASE s.name = "Weather_Radar" /\ s.bands = {<<270000, 290000>>}
  <2>1. 270000 <= g.cf /\ g.cf <= 290000
    BY <1>1, <1>5, SMT DEF Covers
  <2>2. h[1] = s.name \/ h[2] = s.name
    BY <1>2, <1>3, <1>5, <2>1, SMT
  <2> QED
    BY <1>3, <2>2, SMT DEF Listed
<1> QED
  BY <1>1, <1>4, <1>5, SMT DEF WellFormed, Unmodulated

\* A system the signal fits is listed, or gives way to three others that the
\* signal fits or nearly fits.
LEMMA FittingGivesWay ==
    ASSUME NEW g, NEW res, Measured(g, res), NEW h, Ranked(Scored(g, res), h),
           Len(h) = 3 \/ Left(Scored(g, res), h) = {}
    PROVE  Fitting(g, res) \subseteq Listed(h) \/ (Len(h) = 3 /\ Listed(h) \subseteq Nearly(g, res))
<1> SUFFICES ASSUME NEW s \in Signatures, Fits(s, g, res), s.name \notin Listed(h)
             PROVE  Len(h) = 3 /\ Listed(h) \subseteq Nearly(g, res)
  BY DEF Fitting
<1> DEFINE S == Scored(g, res)
           p == <<Score(s, g, res), s.name>>
<1>1. WellFormed(s)
  BY SignaturesWellFormed
<1>2. /\ s.mods # {} => Score(s, g, res) >= FitsAll
      /\ s.mods = {} => Score(s, g, res) >= FitsRest
      /\ Score(s, g, res) \in Nat
  BY <1>1, FitScore, HighScore
<1>3. p \in S
  BY <1>2, CandidateScores, Zenon
<1>4. p \in Left(S, h)
  BY <1>3 DEF Left, Listed
<1>5. Len(h) = 3 /\ DOMAIN h = 1..3
  BY <1>4 DEF Ranked
<1>6. ASSUME NEW i \in DOMAIN h
      PROVE  \E t \in Signatures : t.name = h[i] /\ Score(t, g, res) >= Score(s, g, res)
  <2>1. PICK q \in S : q[2] = h[i] /\ q[1] >= p[1]
    BY <1>4, <1>6 DEF Ranked
  <2>2. PICK t \in Signatures : q = <<Score(t, g, res), t.name>>
    BY <2>1 DEF Scored
  <2> QED
    BY <2>1, <2>2
<1>7. ASSUME NEW i \in DOMAIN h
      PROVE  \E t \in Signatures :
               /\ t.name = h[i]
               /\ s.mods # {} => NearlyFits(t, g, res)
               /\ s.mods = {} => FreqMatch(t, g) = 1000
  <2>1. PICK t \in Signatures : t.name = h[i] /\ Score(t, g, res) >= Score(s, g, res)
    BY <1>6, <1>7
  <2>2. WellFormed(t)
    BY SignaturesWellFormed
  <2>3. Score(t, g, res) \in Nat
    BY <2>2, HighScore
  <2>4. FitsAll \in Nat /\ FitsRest \in Nat
    BY SMT DEF FitsAll, FitsRest
  <2>5. /\ s.mods # {} => Score(t, g, res) >= FitsAll
        /\ s.mods = {} => Score(t, g, res) >= FitsRest
    BY <1>2, <2>1, <2>3, <2>4
  <2> QED
    BY <2>1, <2>2, <2>5, HighScore
<1>8. CASE s.mods # {}
  BY <1>5, <1>7, <1>8 DEF Nearly, Listed
<1>9. CASE s.mods = {}
  <2>1. \A i \in DOMAIN h : \E t \in Signatures : t.name = h[i] /\ FreqMatch(t, g) = 1000
    BY <1>7, <1>9
  <2>2. \A i, j \in DOMAIN h : i # j => h[i] # h[j]
    BY DEF Ranked
  <2> QED
    BY <1>5, <1>9, <2>1, <2>2, UnmodulatedIsListed
<1> QED
  BY <1>8, <1>9

-----------------------------------------------------------------------------
(* Features are measured in naturals, and so are the rates made from them. *)

RateOK == r.symRate \in Nat

LEMMA NaturalFeatures ==
    ASSUME SignalOK
    PROVE  {f.cf, f.bw, f.sr, f.fft, f.rate} \subseteq Nat
<1>1. CASE f \in Features
  BY <1>1, FeaturesAssumption
<1>2. CASE f \in {NoFeatures, MinimalFeatures}
  <2>1. freq \in Nat
    BY FeaturesAssumption DEF SignalOK, Frequencies
  <2> QED
    BY <1>2, <2>1 DEF NoFeatures, MinimalFeatures
<1> QED
  BY <1>1, <1>2 DEF SignalOK

LEMMA ClassifiedRate ==
    ASSUME NEW g, g.sr \in Nat, g.fft \in Nat, g.rate \in Nat
    PROVE  Classify(g).symRate \in Nat
<1>1. OfdmRate(g) \in Nat
  <2>1. CASE g.fft > 0
    <3>1. 4 * g.rate \in Nat
      OBVIOUS
    <3>2. (4 * g.rate) \div g.fft \in Nat
      BY <2>1, <3>1, QuotientBelow
    <3> QED
      BY <2>1, <3>2 DEF OfdmRate
  <2>2. CASE ~(g.fft > 0)
    BY <2>2 DEF OfdmRate
  <2> QED
    BY <2>1, <2>2
<1>2. Blank(g).symRate = g.sr
  BY DEF Blank
<1>3. Digital(g).symRate = g.sr
  BY DEF Digital, Blank
<1>4. CASE g.snr < 5
  BY <1>4 DEF Classify, Blank
<1>5. CASE ~(g.snr < 5) /\ (g.chirp \/ g.ofdm \/ g.fhss \/ g.dsss)
  BY <1>1, <1>5 DEF Classify, Blank
<1>6. CASE ~(g.snr < 5) /\ ~(g.chirp \/ g.ofdm \/ g.fhss \/ g.dsss) /\ IsAnalog(g)
  BY <1>6 DEF Classify, Blank
<1>7. CASE ~(g.snr < 5) /\ ~(g.chirp \/ g.ofdm \/ g.fhss \/ g.dsss) /\ ~IsAnalog(g)
  <2>1. Classify(g) = Digital(g)
    BY <1>7 DEF Classify
  <2> QED
    BY <1>3, <2>1
<1> QED
  BY <1>4, <1>5, <1>6, <1>7

LEMMA EmptyRate == NoResult.symRate = 0
BY DEF NoResult, NoFeatures, Blank

LEMMA NextRateOK == IInv /\ RateOK /\ [Next]_vars => RateOK'
<1> SUFFICES ASSUME IInv, RateOK, [Next]_vars PROVE RateOK'
  OBVIOUS
<1>1. {f.cf, f.bw, f.sr, f.fft, f.rate} \subseteq Nat
  BY NaturalFeatures DEF IInv
<1>2. Classify(f).symRate \in Nat
  BY <1>1, ClassifiedRate
<1>3. NoResult.symRate = 0
  BY EmptyRate
<1>4. CASE r' = r
  BY <1>4 DEF RateOK
<1>5. ASSUME FastPath PROVE RateOK'
  <2>1. PICK answer \in Answers : r' = SnapshotResult(answer)
    BY <1>5 DEF FastPath
  <2>2. r'.symRate = 0
    BY <2>1 DEF SnapshotResult, NoResult, NoFeatures, Blank
  <2> QED
    BY <2>2 DEF RateOK
<1>6. ASSUME ApplyRules PROVE RateOK'
  BY <1>2, <1>6 DEF ApplyRules, RateOK
<1>7. ASSUME Infer PROVE RateOK'
  <2>1. r = Classify(f)
    BY <1>7 DEF Infer, IInv, RulesFirst
  <2>2. PICK answer \in Answers : Override(answer) \/ r' = r
    BY <1>7 DEF Infer
  <2>3. CASE Override(answer)
    <3>1. r' = Overridden(f, answer.label)
      BY <2>1, <2>3 DEF Override, Overridden
    <3>2. r'.symRate = Classify(f).symRate
      BY <3>1, OverrideFields
    <3> QED
      BY <1>2, <3>2 DEF RateOK
  <2> QED
    BY <1>4, <2>2, <2>3
<1>8. ASSUME Publish PROVE RateOK'
  BY <1>3, <1>8 DEF Publish, RateOK
<1>9. FastPath \/ ApplyRules \/ Infer \/ Publish \/ r' = r
  BY DEF Next, Detect, FallBack, NoSamples, Extract, SkipInference, MapProtocols, vars
<1> QED
  BY <1>4, <1>5, <1>6, <1>7, <1>8, <1>9

\* A signal that has all a signature of the database asks for is published with
\* that system among the hypotheses, or with three that it fits or nearly fits:
\* the sort of map() and its three places drop it for nothing less.
THEOREM FittingSystemsListed == Spec => []FitsListed
<1>1. Init => RateOK
  BY EmptyRate DEF Init, RateOK
<1>2. IInv /\ RateOK /\ [Next]_vars => RateOK'
  BY NextRateOK
<1>3. IInv /\ RateOK /\ HypothesesAreBest => FitsListed
  <2> SUFFICES ASSUME IInv, RateOK, HypothesesAreBest, pc = "publish", r.classified
               PROVE  \/ Fitting(f, r) \subseteq Listed(hyps)
                      \/ Len(hyps) = 3 /\ Listed(hyps) \subseteq Nearly(f, r)
    BY DEF FitsListed, Fitting, Listed, Nearly
  <2>1. Measured(f, r)
    BY NaturalFeatures DEF IInv, RateOK, Measured
  <2> QED
    BY <2>1, FittingGivesWay DEF HypothesesAreBest
<1> QED
  BY <1>1, <1>2, <1>3, SpecIInv, BestSystemsListed, PTL DEF Spec

=============================================================================
