--------------------------- MODULE MessageScreen ---------------------------
(***************************************************************************)
(* What a message passes before the agent acts on it: the threshold of     *)
(* trust of the server (server/input_trust.go, input_trust_llm.go) and the *)
(* filter of words with its optional second layer (sensitive/).            *)
(*                                                                         *)
(* The words of the file are put into a prefix tree, category by category  *)
(* in any order; a text in small letters is walked from each position.     *)
(* When no word is found a model may be asked, whose errors let the text   *)
(* pass.  Each outcome is counted.  Texts are short sequences of letters;  *)
(* for the threshold a text is the set of its traits.                      *)
(***************************************************************************)
EXTENDS Integers, Sequences, FiniteSets, SequencesExt, FiniteSetsExt

CONSTANTS
    Letters, small(_),    \* the letters, and the small letter of each
    Cats,                 \* the categories of the file
    Counted,              \* the categories that have a counter
    Rank(_),              \* the priority of a category, 0 the highest
    Files,                \* contents of the file: the words of each category
    MaxText,              \* bound: the length of a text
    LLMMinLength,
    Threshold,            \* USER_INPUT_TRUST_THRESHOLD
    Checks,               \* messages being checked
    MaxChecks             \* bound: messages altogether

\* Assumed by the modules that instantiate this one.
MessageScreenAssumption ==
    /\ IsFiniteSet(Cats) /\ IsFiniteSet(Checks) /\ \A l \in Letters : small(l) \in Letters
    /\ Files \subseteq [Cats -> SUBSET (Seq(Letters) \ {<<>>})]
    /\ (\A c \in Cats : Rank(c) \in Nat) /\ {"none", "unlisted"} \cap (Cats \cup Counted) = {}
    /\ {"KeywordHits", "LLMHits", "Passes", "SkippedShort", "LLMErrored", "LLMLowConf"} \cap (Cats \cup Counted) = {}
    /\ {MaxText, LLMMinLength, MaxChecks} \subseteq Nat /\ Threshold \in Int

None == "none"
Unlisted == "unlisted"    \* any other word a model may call a category

\* The tool refuses an empty text.
Strings == UNION {[1..n -> Letters] : n \in 1..MaxText}

VARIABLES
    words,      \* the words registered, by category
    trie,       \* the tree: its nodes, as prefixes, with the category of the word that ends there
    hasModel,   \* whether the second layer is there
    check,      \* the messages
    metrics,
    asked,      \* messages so far
    gate        \* a message at the threshold and the decision

vars == <<words, trie, hasModel, check, metrics, asked, gate>>

Counters == {"KeywordHits", "LLMHits", "Passes", "SkippedShort", "LLMErrored", "LLMLowConf"}

Traits == {"booking", "greeting", "risky", "garbage", "contact", "question", "long"}

Untried == [traits |-> {}, model |-> None, allowed |-> TRUE]

NoCheck == [phase |-> "none", text |-> <<>>, blocked |-> FALSE, cat |-> None, source |-> None]

TypeOK ==
    /\ DOMAIN words = Cats /\ DOMAIN trie \subseteq Seq(Letters) /\ hasModel \in BOOLEAN
    /\ check \in [Checks -> [phase : {"none", "asking", "done"}, text : {<<>>} \cup Strings, blocked : BOOLEAN,
                             cat : Cats \cup Counted \cup {None, Unlisted}, source : {None, "keyword", "llm"}]]
    /\ metrics \in [Counters \cup Counted -> 0..MaxChecks] /\ asked \in 0..MaxChecks
    /\ gate \in [traits : SUBSET Traits, model : {None, "allowed", "denied"}, allowed : BOOLEAN]

------------------------------------------------------------------------------
(* The tree *)

\* The words of a category, whose order makes no difference.
Insert(t, ws, cat) ==
    [p \in DOMAIN t \cup UNION {Prefixes(w) : w \in ws} |->
        IF p \in ws THEN cat ELSE IF p \in DOMAIN t THEN t[p] ELSE None]

newTrie == [p \in {<<>>} |-> None]

\* The categories are gone through in the order the map gives them.
rebuildTrie(ws, order) ==
    LET t[n \in 0..Len(order)] == IF n = 0 THEN newTrie ELSE Insert(t[n - 1], ws[order[n]], order[n])
    IN  t[Len(order)]

NoHit == [start |-> 0, cat |-> None, word |-> <<>>]

\* Mutant: a word further on wins by its category.
Better_Anywhere(best, hit) == best = NoHit \/ Rank(hit.cat) < Rank(best.cat)

Better(best, hit) ==
    \/ best = NoHit \/ hit.start < best.start
    \/ hit.start = best.start /\ Rank(hit.cat) < Rank(best.cat)

\* The walk from i reaches j unless a letter is missing in the tree before.
Reaches(t, text, i, j) == \A k \in i..j : SubSeq(text, i, k) \in DOMAIN t

\* The walk from i, and what it has found.
Walk(t, text, best, i) ==
    LET found[j \in i-1..Len(text)] ==
            IF j = i - 1 THEN best
            ELSE LET p == SubSeq(text, i, j)
                     hit == [start |-> i, cat |-> t[p], word |-> p]
                 IN  IF Reaches(t, text, i, j) /\ t[p] # None /\ Better(found[j - 1], hit) THEN hit ELSE found[j - 1]
    IN  found[Len(text)]

Match(t, text) ==
    LET best[i \in 0..Len(text)] == IF i = 0 THEN NoHit ELSE Walk(t, text, best[i - 1], i)
    IN  best[Len(text)]

ToLower(text) == [i \in DOMAIN text |-> small(text[i])]

------------------------------------------------------------------------------
(* The two layers *)

\* LoadProductionWords, once before the server starts.  A file that is missing or broken leaves no words.
Init ==
    /\ words \in Files \cup {[c \in Cats |-> {}]}
    /\ \E order \in SetToSeqs(Cats) : trie = rebuildTrie(words, order)
    /\ hasModel \in BOOLEAN /\ check = [c \in Checks |-> NoCheck]
    /\ metrics = [m \in Counters \cup Counted |-> 0] /\ asked = 0 /\ gate = Untried

\* Only the categories known from the start have a counter.
observe(source, cat) ==
    [m \in DOMAIN metrics |->
        metrics[m] + IF m = (IF source = "keyword" THEN "KeywordHits" ELSE "LLMHits") \/ m = cat THEN 1 ELSE 0]

Plus(counter) == [metrics EXCEPT ![counter] = @ + 1]

Blocked(c, source, cat) ==
    /\ check' = [check EXCEPT ![c].phase = "done", ![c].blocked = TRUE, ![c].cat = cat, ![c].source = source]
    /\ metrics' = observe(source, cat)

Pass(c, counter) ==
    /\ check' = [check EXCEPT ![c].phase = "done"] /\ metrics' = Plus(counter)

\* Mutant: the model is asked about every text that is long enough.
AsksModel_Always(hit, text) == hasModel /\ Len(text) >= LLMMinLength

AsksModel(hit, text) == hit = NoHit /\ hasModel /\ Len(text) >= LLMMinLength

Receive(c, text) ==
    /\ check[c].phase \in {"none", "done"} /\ asked < MaxChecks /\ asked' = asked + 1
    /\ LET hit == Match(trie, ToLower(text))
           seen == [check EXCEPT ![c] = [NoCheck EXCEPT !.phase = "asking", !.text = text]]
           Ended(blocked, cat, source) ==
               check' = [seen EXCEPT ![c].phase = "done", ![c].blocked = blocked, ![c].cat = cat, ![c].source = source]
       IN  CASE AsksModel(hit, text) -> check' = seen /\ UNCHANGED metrics
             [] ~AsksModel(hit, text) /\ hit # NoHit -> Ended(TRUE, hit.cat, "keyword") /\ metrics' = observe("keyword", hit.cat)
             [] OTHER -> Ended(FALSE, None, None) /\ metrics' = Plus(IF hasModel THEN "SkippedShort" ELSE "Passes")
    /\ UNCHANGED <<words, trie, hasModel, gate>>

\* Mutant: an answer below the threshold is not counted.
LowConfidence_Silent(c) == check' = [check EXCEPT ![c].phase = "done"] /\ UNCHANGED metrics

LowConfidence(c) == Pass(c, "LLMLowConf")

\* The model's answer: an error, a text it lets pass, or a category with its confidence.
Answer(c, answer, cat) ==
    /\ check[c].phase = "asking"
    /\ CASE answer = "error" -> Pass(c, "LLMErrored")
         [] answer = "clean" -> Pass(c, "Passes")
         [] answer = "unsure" -> LowConfidence(c)
         [] answer = "sure" -> Blocked(c, "llm", cat)
    /\ UNCHANGED <<words, trie, hasModel, asked, gate>>

------------------------------------------------------------------------------
(* The threshold of trust *)

Usual(traits) == traits \cap {"booking", "greeting"} # {}

Score(traits) ==
    (IF "booking" \in traits THEN 2 ELSE 0) + (IF "greeting" \in traits THEN 1 ELSE 0)
    + (IF "question" \in traits THEN 1 ELSE 0) - (IF "long" \in traits /\ ~Usual(traits) THEN 2 ELSE 0)

\* Mutant: a long text is held against a customer who gives a number.
assessUserInputTrust_ScoreFirst(traits, model, threshold) ==
    IF traits \cap {"risky", "garbage"} # {} /\ ~Usual(traits) THEN FALSE
    ELSE IF model # None THEN model = "allowed" ELSE Score(traits) > threshold

\* The answer of the small model is "allowed", "denied", or None when there is none or it fails.
assessUserInputTrust(traits, model, threshold) ==
    IF traits \cap {"risky", "garbage"} # {} /\ ~Usual(traits) THEN FALSE
    ELSE IF "contact" \in traits THEN TRUE
    ELSE IF model # None THEN model = "allowed"
    ELSE Score(traits) > threshold

\* Nothing is kept from one message to the next, so one message is looked at, before any is checked.
Assess(traits, model) ==
    /\ asked = 0 /\ gate = Untried
    /\ gate' = [traits |-> traits, model |-> model, allowed |-> assessUserInputTrust(traits, model, Threshold)]
    /\ UNCHANGED <<words, trie, hasModel, check, metrics, asked>>

Next ==
    \/ \E traits \in SUBSET Traits, model \in {None, "allowed", "denied"} : Assess(traits, model)
    \/ \E c \in Checks :
        \/ \E text \in Strings : Receive(c, text)
        \/ \E cat \in Counted \cup {Unlisted} : Answer(c, "sure", cat)
        \/ \E answer \in {"error", "clean", "unsure"} : Answer(c, answer, None)

Spec == Init /\ [][Next]_vars

------------------------------------------------------------------------------
(* Properties *)

At(text, i) == {w \in UNION {words[c] : c \in Cats} : i + Len(w) - 1 <= Len(text) /\ SubSeq(text, i, i + Len(w) - 1) = w}

\* The walk finds a word exactly when one registered in small letters occurs in the text, the first
\* one by position and there the one whose category comes first.
MatchIsExact ==
    \A c \in Checks : check[c].phase # "none" =>
        LET text == ToLower(check[c].text)
            places == {i \in DOMAIN text : At(text, i) # {}}
            hit == Match(trie, text)
        IN  IF places = {} THEN hit = NoHit
            ELSE /\ hit.start = Min(places) /\ hit.word \in At(text, hit.start) /\ trie[hit.word] = hit.cat
                 /\ \A w \in At(text, hit.start) : Rank(hit.cat) <= Rank(trie[w])

\* The second layer only adds: whatever it says, a text with a word is blocked as the words' layer blocks it.
ModelOnlyAdds ==
    \A c \in Checks : check[c].phase = "done" /\ (\E i \in DOMAIN check[c].text : At(ToLower(check[c].text), i) # {})
        => check[c].blocked /\ check[c].source = "keyword"

\* Each message that is done is counted in one of the six counters.
EveryCheckCounted ==
    metrics["KeywordHits"] + metrics["LLMHits"] + metrics["Passes"] + metrics["SkippedShort"]
        + metrics["LLMErrored"] + metrics["LLMLowConf"]
    = asked - Cardinality({c \in Checks : check[c].phase = "asking"})

\* The counters of the categories add up to the messages blocked.  (Not so: the file's only category has none.)
CategoriesAddUp == MapThenSumSet(LAMBDA m : metrics[m], Counted) = metrics["KeywordHits"] + metrics["LLMHits"]

\* A text that contains a registered word is blocked.  (Not so: the text is put into small letters, the words are not.)
EveryWordBlocks ==
    \A c \in Checks : check[c].phase = "done" /\ (\E i \in DOMAIN check[c].text : At(check[c].text, i) # {})
        => check[c].blocked

\* A word in two categories counts for the one that comes first.  (Not so: for the one the map gave last.)
FirstCategoryWins ==
    \A w \in DOMAIN trie : trie[w] # None => \A cat \in Cats : w \in words[cat] => Rank(trie[w]) <= Rank(cat)

\* Where no model answers, a message that is usual or gives a contact, or is short, passes unless it is risky and not usual.
UsualPasses ==
    /\ gate.model = None /\ (Usual(gate.traits) \/ gate.traits \cap {"risky", "garbage"} = {})
    /\ (Usual(gate.traits) \/ "contact" \in gate.traits \/ "long" \notin gate.traits)
    => gate.allowed

=============================================================================
