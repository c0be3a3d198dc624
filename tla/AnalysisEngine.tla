--------------------------- MODULE AnalysisEngine ---------------------------
(***************************************************************************)
(* How one detection becomes a result: AnalysisService::processDetection() *)
(* and the two entry points of AnalysisEngine it uses.  A detection with a *)
(* snapshot of samples is first given to the ONNX model; if the model is   *)
(* not sure enough, samples are collected and features extracted, the      *)
(* rules classify them, a model chosen by the measured SNR may override    *)
(* the rules, and the protocol mapper lists the systems it could be.       *)
(*                                                                         *)
(* The signal processing and the models are abstract: the extractor        *)
(* returns any of Features, a model any label and confidence, or fails.    *)
(* Confidences and thresholds are in hundredths.                           *)
(***************************************************************************)
EXTENDS ModulationClassifier, ProtocolMapper

CONSTANTS
    Features,            \* feature records the extractor may return
    Labels,              \* classes of the ONNX models
    Confidences,         \* confidences they may report
    FallbackConfidence,  \* <onnx> fallback_confidence_threshold
    FallbackOnUnknown,   \* <onnx> fallback_on_unknown
    LowConfidence,       \* <onnx_low_snr> fallback_confidence_threshold
    LowOnUnknown,        \* <onnx_low_snr> fallback_on_unknown
    SnrModelSplit        \* <engine> snr_model_split_db

\* The extractor sets the FM deviation to the standard deviation of the
\* instantaneous frequency, and never sets the DSSS flag.  Frequencies, widths
\* and rates are not negative.
ASSUME FeaturesAssumption ==
    \A f \in Features : /\ f.fmDev = f.freqStd /\ f.dsss = FALSE
                        /\ {f.cf, f.bw, f.sr, f.fft, f.rate} \subseteq Nat

\* Class names are not empty.
ASSUME LabelsAssumption == Labels \subseteq STRING \ {"", "PSK", "UNKNOWN"}

ASSUME ConfidenceAssumption ==
    /\ Confidences \subseteq 0..100
    /\ {FallbackConfidence, LowConfidence} \subseteq 0..100
    /\ {FallbackOnUnknown, LowOnUnknown} \subseteq BOOLEAN

VARIABLES
    loaded,     \* onnx_.loaded(): the high-SNR model was loaded
    lowLoaded,  \* onnx_low_snr_.loaded()
    pc,         \* where processDetection() is
    freq,       \* centre frequency of the detection, 0 if none
    f,          \* SignalFeatures
    r,          \* AnalysisResult, layers 1 to 4
    path,       \* AnalysisResult, path metadata
    onnx,       \* the answer of the model last asked
    hyps        \* AnalysisResult, layer 5: names of the systems, best first

vars == <<loaded, lowLoaded, pc, freq, f, r, path, onnx, hyps>>

-----------------------------------------------------------------------------
(* Values *)

\* SignalFeatures{}
NoFeatures ==
    [ cf |-> 0, bw |-> 0, snr |-> 0, flat |-> 0, sym |-> 0, env |-> 0, freqMean |-> 0,
      freqStd |-> 0, phase |-> 0, am |-> 0, fmDev |-> 0, c40 |-> 0, c42 |-> 0, sr |-> 0,
      burst |-> FALSE, duty |-> 100, ofdm |-> FALSE, fft |-> 0, fhss |-> FALSE,
      dsss |-> FALSE, chirp |-> FALSE, rate |-> 0 ]

\* AnalysisResult{}
NoResult == [Blank(NoFeatures) EXCEPT !.classified = FALSE]
NoPath == [rule |-> 0, onnxUsed |-> FALSE, onnxConf |-> 0, fast |-> FALSE]

Frequencies == {g.cf : g \in Features}

\* What OnnxClassifier::classify() may return.
NoAnswer == [valid |-> FALSE, label |-> "", conf |-> 0]
Answers == [valid : {TRUE}, label : Labels, conf : Confidences] \cup {NoAnswer}

\* FAST_PATH_THRESHOLD
FastPathThreshold == 75

\* Mutants of ruleConfidence(): 1.0 for structural detections, no case for
\* the generic PSK, and analog results overlooked.
RuleConfidenceOne(res) ==
    IF res.classified /\ (res.isOfdm \/ res.digital \in {"OFDM", "CSS"}) THEN 100 ELSE 0
RuleConfidenceOfPsk(res) == IF res.classified THEN 70 ELSE 0
RuleConfidenceDigital(res) == IF res.classified /\ res.digital \notin {"", "PSK"} THEN 70 ELSE 0

\* AnalysisEngine::ruleConfidence(), in hundredths
RuleConfidence(res) ==
    LET mod == Modulation(res)
    IN IF ~res.classified \/ mod \in {"", "UNKNOWN", "PSK"} THEN 0
       ELSE IF res.isOfdm \/ mod \in {"OFDM", "CSS"}        THEN 95
       ELSE IF res.isFhss \/ mod \in {"FHSS", "FM_WB", "FM_NB"} THEN 90
       ELSE IF mod \in {"AM_DSB_LC", "AM_DSB_SC", "SSB_USB", "SSB_LSB", "CW"} THEN 85
       ELSE IF mod \in {"FSK", "MSK/GMSK"}                  THEN 80
       ELSE IF mod \in {"BPSK", "QPSK", "8PSK"}             THEN 65
       ELSE IF mod \in {"QAM16", "QAM32", "QAM64"}          THEN 60
       ELSE 70

\* The model for the measured SNR, and its configuration.
UseLow == f.snr < SnrModelSplit /\ lowLoaded
ActiveLoaded == IF UseLow THEN lowLoaded ELSE loaded
Threshold == IF UseLow THEN LowConfidence ELSE FallbackConfidence
OnUnknown == IF UseLow THEN LowOnUnknown ELSE FallbackOnUnknown

\* Whether the model's answer replaces the rules' one.
UseOnnx(answer) ==
    /\ answer.valid
    /\ (OnUnknown /\ path.rule = 0) \/ path.rule < Threshold

-----------------------------------------------------------------------------
Init ==
    /\ loaded \in BOOLEAN
    /\ lowLoaded \in BOOLEAN
    /\ pc = "idle"
    /\ freq = 0
    /\ f = NoFeatures
    /\ r = NoResult
    /\ path = NoPath
    /\ onnx = NoAnswer
    /\ hyps = <<>>

\* processDetection() starts with a detection.
Detect ==
    /\ pc = "idle"
    /\ freq' \in Frequencies
    /\ pc' = "snapshot"
    /\ UNCHANGED <<loaded, lowLoaded, f, r, path, onnx, hyps>>

\* analyzeSnapshot() with a valid answer of the model: the label is the
\* modulation, and the mapper sees features with only the frequency set.
SnapshotResult(answer) == [NoResult EXCEPT !.classified = TRUE, !.digital = answer.label]
MinimalFeatures == [NoFeatures EXCEPT !.cf = freq]

\* The fast path: the detection has a snapshot, the model is sure of it, and
\* its result is published.
FastPath ==
    /\ pc = "snapshot"
    /\ loaded
    /\ \E answer \in Answers :
         /\ answer.valid
         /\ answer.conf >= FastPathThreshold
         /\ onnx' = answer
         /\ r' = SnapshotResult(answer)
         /\ path' = [NoPath EXCEPT !.onnxUsed = TRUE, !.onnxConf = answer.conf, !.fast = TRUE]
    /\ f' = MinimalFeatures
    /\ hyps' \in Hypotheses(f', r')
    /\ pc' = "publish"
    /\ UNCHANGED <<loaded, lowLoaded, freq>>

\* The detection has no snapshot, the model is not loaded, its answer is
\* invalid or below the threshold: a result made from the snapshot is dropped
\* and the detection is collected.
FallBack ==
    /\ pc = "snapshot"
    /\ pc' = "collect"
    /\ UNCHANGED <<loaded, lowLoaded, freq, f, r, path, onnx, hyps>>

\* collect() returned no samples: there is no result.
NoSamples ==
    /\ pc = "collect"
    /\ pc' = "idle"
    /\ freq' = 0
    /\ UNCHANGED <<loaded, lowLoaded, f, r, path, onnx, hyps>>

\* analyze(): features are extracted at the detection's frequency.
Extract ==
    /\ pc = "collect"
    /\ f' \in {g \in Features : g.cf = freq}
    /\ pc' = "extracted"
    /\ UNCHANGED <<loaded, lowLoaded, freq, r, path, onnx, hyps>>

\* analyze(): the rules classify them.
ApplyRules ==
    /\ pc = "extracted"
    /\ r' = Classify(f)
    /\ path' = [path EXCEPT !.rule = RuleConfidence(r')]
    /\ pc' = "ruled"
    /\ UNCHANGED <<loaded, lowLoaded, freq, f, onnx, hyps>>

\* The fields of the result an override assigns; the others keep what the
\* rules put there.
Override(answer) ==
    /\ r' = [r EXCEPT !.digital = answer.label, !.analog = "", !.classified = TRUE]
    /\ path' = [path EXCEPT !.onnxUsed = TRUE, !.onnxConf = answer.conf]

\* analyze(): the model for this SNR, if loaded, is asked and may override.
Infer ==
    /\ pc = "ruled"
    /\ ActiveLoaded
    /\ \E answer \in Answers :
         /\ onnx' = answer
         /\ \/ UseOnnx(answer) /\ Override(answer)
            \/ ~UseOnnx(answer) /\ UNCHANGED <<r, path>>
    /\ pc' = "inferred"
    /\ UNCHANGED <<loaded, lowLoaded, freq, f, hyps>>

SkipInference ==
    /\ pc = "ruled"
    /\ ~ActiveLoaded
    /\ pc' = "inferred"
    /\ UNCHANGED <<loaded, lowLoaded, freq, f, r, path, onnx, hyps>>

\* Mutant of MapProtocols: rejected signals are mapped too.
MapAll ==
    /\ pc = "inferred"
    /\ hyps' \in Hypotheses(f, r)
    /\ pc' = "publish"
    /\ UNCHANGED <<loaded, lowLoaded, freq, f, r, path, onnx>>

\* analyze(): a classified result is mapped to protocols.
MapProtocols ==
    /\ pc = "inferred"
    /\ IF r.classified THEN hyps' \in Hypotheses(f, r) ELSE hyps' = hyps
    /\ pc' = "publish"
    /\ UNCHANGED <<loaded, lowLoaded, freq, f, r, path, onnx>>

\* publishResult(), after which the worker takes another detection.
Publish ==
    /\ pc = "publish"
    /\ pc' = "idle"
    /\ freq' = 0
    /\ f' = NoFeatures
    /\ r' = NoResult
    /\ path' = NoPath
    /\ onnx' = NoAnswer
    /\ hyps' = <<>>
    /\ UNCHANGED <<loaded, lowLoaded>>

Next ==
    \/ Detect \/ FastPath \/ FallBack \/ NoSamples \/ Extract
    \/ ApplyRules \/ Infer \/ SkipInference \/ MapProtocols \/ Publish

Spec == Init /\ [][Next]_vars

-----------------------------------------------------------------------------
(* Properties *)

Modulations ==
    Labels \cup
    { "", "FM_WB", "FM_NB", "PM", "SSB_USB", "SSB_LSB", "AM_DSB_SC", "CW", "AM_DSB_LC",
      "GMSK", "FSK", "BPSK", "QPSK", "8PSK", "PSK", "QAM16", "QAM64", "QAM32",
      "CSS", "OFDM", "FHSS", "DSSS" }

\* Every variable has a value of its type.
TypeOK ==
    /\ loaded \in BOOLEAN /\ lowLoaded \in BOOLEAN
    /\ pc \in {"idle", "snapshot", "collect", "extracted", "ruled", "inferred", "publish"}
    /\ freq \in Frequencies \cup {0}
    /\ f \in Features \cup {NoFeatures, MinimalFeatures}
    /\ r.classified \in BOOLEAN /\ {r.analog, r.digital} \subseteq Modulations
    /\ r.reject \in {"", "SNR too low"}
    /\ path.rule \in {0, 60, 65, 70, 80, 85, 90, 95}
    /\ path.onnxUsed \in BOOLEAN /\ path.fast \in BOOLEAN
    /\ path.onnxConf \in Confidences \cup {0}
    /\ onnx \in Answers

\* A published result is either classified, then with one modulation, digital
\* or analog and never both, and at least one hypothesis, or it is not, then
\* with a reason and with neither: whichever of rules and model spoke last.
Coherent ==
    pc = "publish" =>
        IF r.classified
        THEN (r.digital = "") # (r.analog = "") /\ hyps # <<>>
        ELSE r.digital = "" /\ r.analog = "" /\ r.reject # "" /\ hyps = <<>>

\* Detections the rules make from structure, frequency or envelope are never
\* replaced by the model's answer at the thresholds of the configuration.
NeverReplaced ==
    {"OFDM", "CSS", "FHSS", "FM_WB", "FM_NB", "AM_DSB_LC", "AM_DSB_SC", "SSB_USB", "SSB_LSB", "CW", "FSK"}
RobustRulesStand ==
    pc = "publish" /\ ~path.fast /\ path.onnxUsed => Modulation(Classify(f)) \notin NeverReplaced

\* A signal strong enough for the rules that they leave unknown is published
\* with the model's answer, if the model was sure enough of it: "Always run ONNX
\* when rule result is UNKNOWN" (config/analysis.xml 119) and an answer at or
\* above the fallback_confidence threshold overrides (AnalysisEngine.hpp 61-63).
\* Of signals below the SNR threshold it says nothing: the configuration keeps
\* them from the model (74-75), and the code does not.
Unknown(res) == res.classified /\ Modulation(res) \in {"", "UNKNOWN", "PSK"}
UnknownIsAsked ==
    pc = "publish" /\ ~path.fast /\ Unknown(Classify(f)) /\ onnx.valid /\ onnx.conf >= Threshold =>
        path.onnxUsed /\ r.digital = onnx.label

\* The signal has everything a signature asks for: a frequency in its bands,
\* one of its modulations, bandwidth and rate in its ranges, its structure.
InRange(range, x) == DontCare(range) \/ (range[1] <= x /\ x <= range[2])
Fits(s, g, res) ==
    /\ FreqMatch(s, g) = 1000
    /\ s.mods = {} \/ \E m \in s.mods : Has(m, g, res)
    /\ InRange(s.bw, g.bw) /\ InRange(s.sr, res.symRate)
    /\ StructMatch(s, g) = 1000

\* All of it but for a bandwidth or a rate outside its range by less than a
\* quarter of the range, or nine fortieths of a range that is a single value.
CloseTo(range, x) ==
    LET slack == IF range[1] = range[2] THEN 9 * range[1] ELSE 10 * (range[2] - range[1])
    IN  DontCare(range) \/ (40 * range[1] - slack < 40 * x /\ 40 * x < 40 * range[2] + slack)
NearlyFits(s, g, res) ==
    /\ FreqMatch(s, g) = 1000
    /\ \E m \in s.mods : Has(m, g, res)
    /\ CloseTo(s.bw, g.bw) /\ CloseTo(s.sr, res.symRate)
    /\ StructMatch(s, g) = 1000

\* The database does not crowd out its own entries: a signal that has all a
\* signature asks for is published with that system among the hypotheses,
\* unless all three hypotheses are systems the signal fits, or misses by no
\* more than a little bandwidth or rate.  A system of another band, another
\* modulation or another structure never takes the place of one that fits.
FitsListed ==
    pc = "publish" /\ r.classified =>
        LET fitting == {s.name : s \in {t \in Signatures : Fits(t, f, r)}}
            nearly  == {s.name : s \in {t \in Signatures : NearlyFits(t, f, r)}}
            listed  == {hyps[i] : i \in DOMAIN hyps}
        IN fitting \subseteq listed \/ (Len(hyps) = 3 /\ listed \subseteq nearly)

=============================================================================
