----------------------------- MODULE PromptPolicy -----------------------------
(* What the gateway does with one prompt before a provider may see it: the     *)
(* PII detector, the classifier, the risk scorer, the masker and the policy    *)
(* evaluator of backend/src/features/pii and .../policy, and the bounded       *)
(* history of chat-context.ts.  Pure operators, no state.                      *)
(*                                                                             *)
(* A prompt is abstracted to its length and to the set of matches its text     *)
(* gives the six regular expressions: a match is [start, end, detector] with   *)
(* 0 <= start < end <= length, as in the code (half-open, zero-based).  The    *)
(* expressions and their validators (Luhn, phone length) are not modelled:     *)
(* any set of matches is an input, as long as the matches of ONE expression    *)
(* do not overlap, which String.matchAll guarantees.                           *)
EXTENDS Folding, FiniteSetsExt, Functions

CONSTANTS
    PlaceholderLength,  \* [detector or "generic" -> length of its placeholder]
    Thresholds          \* [mask, block] pairs an administrator may store

ASSUME ThresholdAssumption ==
    \A t \in Thresholds : t.mask \in 0..100 /\ t.block \in 0..100 /\ t.mask < t.block

ASSUME PlaceholderAssumption ==
    PlaceholderLength \in [{"connection_string", "api_key", "payment_card_luhn",
                            "government_id", "email", "phone", "generic"} -> Nat]

Detectors == {"connection_string", "api_key", "payment_card_luhn",
              "government_id", "email", "phone"}

\* DETECTOR_RULES: the priority of each rule.
Priority == [connection_string |-> 100, api_key |-> 90, payment_card_luhn |-> 80,
             government_id |-> 70, email |-> 60, phone |-> 50]

\* CATEGORY_BY_DETECTOR of the classifier.
Category == [connection_string |-> "INTERNAL_SECRET", api_key |-> "CREDENTIAL",
             payment_card_luhn |-> "FINANCIAL", government_id |-> "GOVERNMENT_ID",
             email |-> "CONTACT_INFO", phone |-> "CONTACT_INFO"]

\* PII_CATEGORY_WEIGHTS of the risk scorer.
CategoryWeight == [CONTACT_INFO |-> 10, FINANCIAL |-> 25, GOVERNMENT_ID |-> 30,
                   CREDENTIAL |-> 40, INTERNAL_SECRET |-> 40]

Span == [start : Nat, end : Nat, detector : Detectors]
MaskRange == [start : Nat, end : Nat, width : Nat]

-------------------------------------------------------------------------------
(* pii-detector.ts *)

SpansOverlap(a, b) == a.start < b.end /\ b.start < a.end

\* compareByPrecedence: higher priority, then earlier, then longer.
TakesPrecedence(a, b) ==
    \/ Priority[a.detector] > Priority[b.detector]
    \/ /\ Priority[a.detector] = Priority[b.detector]
       /\ \/ a.start < b.start
          \/ a.start = b.start /\ a.end > b.end

\* removeOverlaps: greedy, in order of precedence.
RemoveOverlaps(candidates) ==
    LET select == [selected \in SUBSET candidates |-> [c \in candidates |->
                      IF \E s \in selected : SpansOverlap(c, s) THEN selected
                      ELSE selected \cup {c}]]
        precedence == {p \in candidates \X candidates : TakesPrecedence(p[1], p[2])}
    IN  Fold(select, {}, Sorted(candidates, precedence))

\* compareByPosition; the selected spans never share a start.
DetectPii(candidates) ==
    LET kept == RemoveOverlaps(candidates)
    IN  Sorted(kept, {p \in kept \X kept : p[1].start < p[2].start})

-------------------------------------------------------------------------------
(* pii-masker.ts.  A text is a sequence of source positions; the characters of  *)
(* a placeholder are -1.                                                        *)

\* normalizeMaskRanges / finalizeRange: overlapping spans are merged into one
\* range with the generic placeholder, a lone span keeps its detector's.
NormalizeMaskRanges(spans) ==
    LET merge == [ranges \in Seq(MaskRange) |-> [s \in Span |->
            IF ranges = <<>> \/ Last(ranges).end <= s.start
            THEN Append(ranges, [start |-> s.start, end |-> s.end,
                                 width |-> PlaceholderLength[s.detector]])
            ELSE [ranges EXCEPT ![Len(ranges)] =
                    [start |-> @.start, end |-> Max({@.end, s.end}),
                     width |-> PlaceholderLength["generic"]]]]]
    IN  Fold(merge, <<>>, spans)

Placeholder(width) == [i \in 1..width |-> -1]

\* maskedText.slice(0, sourceStart) + placeholder + maskedText.slice(sourceEnd)
ReplaceRange(text, r) ==
    SubSeq(text, 1, r.start) \o Placeholder(r.width) \o SubSeq(text, r.end + 1, Len(text))

Replacing == [text \in Seq(Int) |-> [r \in MaskRange |-> ReplaceRange(text, r)]]

\* Mutant: replacements run from the first range to the last.
MaskText_FromTheStart(length, ranges) ==
    Fold(Replacing, [i \in 1..length |-> i - 1], ranges)

\* Replacements run from the last range to the first, so that the offsets of
\* the ranges still to be replaced stay valid.
MaskText(length, ranges) == FoldBack(Replacing, [i \in 1..length |-> i - 1], ranges)

\* The offsets of the placeholders in the masked text, as reported in the masks.
MaskOffsets(ranges) ==
    LET report == [acc \in [delta : Int, masks : Seq([from : Int, to : Int])] |-> [r \in MaskRange |->
            [delta |-> acc.delta + r.width - (r.end - r.start),
             masks |-> Append(acc.masks, [from |-> r.start + acc.delta,
                                          to |-> r.start + acc.delta + r.width])]]]
    IN  Fold(report, [delta |-> 0, masks |-> <<>>], ranges).masks

-------------------------------------------------------------------------------
(* pii-risk-scorer.ts and policy-evaluator.ts *)

RiskScore(spans) ==
    LET add == [total \in Nat |-> [s \in Span |-> total + CategoryWeight[Category[s.detector]]]]
    IN  Min({100, Fold(add, 0, spans)})

EvaluateBlock(score, budgetExceeded, t) == budgetExceeded \/ score >= t.block

EvaluateAllowWithMask(score, budgetExceeded, t) ==
    ~budgetExceeded /\ score >= t.mask /\ score < t.block

EvaluateAllow(score, budgetExceeded, t) == ~budgetExceeded /\ score < t.mask

\* evaluatePolicy of chat.service.ts: block, then mask, then allow; "none" is
\* the internal error the code throws when no evaluator answers.
EvaluatePolicy(score, budgetExceeded, t) ==
    IF EvaluateBlock(score, budgetExceeded, t) THEN "BLOCK"
    ELSE IF EvaluateAllowWithMask(score, budgetExceeded, t) THEN "ALLOW_WITH_MASK"
    ELSE IF EvaluateAllow(score, budgetExceeded, t) THEN "ALLOW"
    ELSE "none"

\* processPiiPromptImmutably followed by the decision: what may be sent.
ProcessPrompt(prompt, budgetExceeded, t) ==
    LET spans  == DetectPii(prompt.candidates)
        ranges == NormalizeMaskRanges(spans)
        action == EvaluatePolicy(RiskScore(spans), budgetExceeded, t)
    IN  [action |-> action,
         spans  |-> spans,
         masks  |-> MaskOffsets(ranges),
         masked |-> MaskText(prompt.length, ranges),
         text   |-> CASE action = "ALLOW_WITH_MASK" -> MaskText(prompt.length, ranges)
                      [] action = "ALLOW" -> [i \in 1..prompt.length |-> i - 1]
                      [] OTHER -> <<>>]
===============================================================================
