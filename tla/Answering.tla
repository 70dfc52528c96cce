------------------------------ MODULE Answering ------------------------------
(***************************************************************************)
(* POST /query (app/api/query.py, app/rag): one question is embedded, the   *)
(* nearest chunks are filtered, put to the model, its reply checked, and    *)
(* the citations looked up.  Several questions share nothing but the        *)
(* chunks, which none of them writes, so one question is modelled, beside   *)
(* the uploads that rewrite a chunk meanwhile.                              *)
(*                                                                         *)
(* A text is the set of its salient words.  A question is at most 2,000     *)
(* characters (schemas.py:29) and get_embedding refuses more than 24,000,   *)
(* so that refusal is not a step here.                                      *)
(***************************************************************************)
EXTENDS Integers, FiniteSets, SequencesExt

CONSTANTS
    Chunks,         \* the ids of the stored chunks
    Near,           \* pairs {c, d} whose embeddings are nearly the same
    Size,           \* estimated tokens of each chunk, at least 1
    Text,           \* the salient words of each chunk
    Junk,           \* whatever a reply cites that is no retrieved chunk
    Answers,        \* the salient words a reply may consist of
    PoolSize,       \* CANDIDATE_POOL_SIZE
    MaxTokens,      \* MAX_CONTEXT_TOKENS
    MinOverlap,     \* MIN_SALIENT_OVERLAP
    MaxAttempts,    \* max_attempts, of either service
    MaxGrounding,   \* max_grounding_attempts
    MaxCited,       \* bound: citations in one reply
    Touchable       \* bound: chunks that change while the question is answered

ASSUME LimitsAssumption ==
    /\ {PoolSize, MaxTokens, MinOverlap, MaxCited} \subseteq Nat
    /\ {MaxAttempts, MaxGrounding} \subseteq Nat \ {0}
ASSUME ChunksAssumption ==
    /\ Size \in [Chunks -> Nat \ {0}]
    /\ Junk \notin Chunks
    /\ IsFiniteSet(UNION Answers)
    /\ Touchable \subseteq Chunks

VARIABLES
    phase,          \* what the request is doing
    ranked,         \* the candidates above the threshold, best first
    walked,         \* how many of them are compared
    kept,           \* those that are no near-duplicates
    context,        \* those that fit, given to the model
    tokens,         \* running_tokens
    attempt,        \* tries of the present call
    grounding,      \* replies asked for
    corrections,    \* what the model was told about its earlier replies
    result,         \* the accepted reply
    response,       \* what the caller gets
    corpus,         \* what became of each chunk since it was retrieved
    calls,          \* history: calls made, per service
    failures        \* history: failed calls in a row

retrieval == <<ranked, walked, kept, context, tokens>>
vars == <<phase, retrieval, attempt, grounding, corrections, result, response, corpus, calls, failures>>

Phases == {"embedding", "searching", "selecting", "asking", "citing", "answered"}

\* The exceptions worth another try; a timeout stands for a lost connection too.
Retryable == {"rate_limit", "timeout", "server_error"}

\* What a reply that has the demanded shape says.
Replies == [words : Answers, cited : BoundedSeq(Chunks \cup {Junk}, MaxCited), not_in_corpus : BOOLEAN]

NoResult == [words |-> {}, citations |-> <<>>, not_in_corpus |-> FALSE]

Error(status) == [status |-> status, says |-> "error", citations |-> <<>>]

\* An answer with status 200: the model's, the model's that there is none, that
\* nothing relevant is stored, or that no citation could be trusted.
Says(kind, citations) == [status |-> 200, says |-> kind, citations |-> citations]

NoResponse == [status |-> 0, says |-> "nothing", citations |-> <<>>]

-----------------------------------------------------------------------------
Init ==
    /\ phase = "embedding"
    /\ ranked = <<>> /\ walked = 0 /\ kept = <<>> /\ context = <<>> /\ tokens = 0
    /\ attempt = 0 /\ grounding = 0 /\ corrections = <<>>
    /\ result = NoResult /\ response = NoResponse
    /\ corpus = [c \in Chunks |-> "as_found"]
    /\ calls = [embed |-> 0, chat |-> 0]
    /\ failures = 0

Respond(r) == phase' = "answered" /\ response' = r

\* One call the program makes; what the client library retries by itself is inside.
Called(service) == calls' = [calls EXCEPT ![service] = @ + 1]

StatusOf(error) ==
    CASE error = "rate_limit" -> 429
      [] error = "timeout"    -> 504
      [] OTHER                -> 500

\* mutant: counted before the try.
Exhausted_Late == attempt >= MaxAttempts

Exhausted == attempt + 1 >= MaxAttempts

\* One try of a call to OpenAI fails: again, or the exception leaves the loop.
CallFails(service, error) ==
    /\ Called(service)
    /\ attempt' = attempt + 1
    /\ failures' = failures + 1
    /\ IF error \in Retryable /\ ~Exhausted
       THEN UNCHANGED <<phase, response>>
       ELSE Respond(Error(StatusOf(error)))
    /\ UNCHANGED <<retrieval, grounding, corrections, result, corpus>>

\* The service answers with something of the wrong shape, which is not retried.
CallMalformed(service) ==
    /\ Called(service)
    /\ failures' = 0
    /\ Respond(Error(502))
    /\ UNCHANGED <<retrieval, attempt, grounding, corrections, result, corpus>>

EmbedFails(error) == phase = "embedding" /\ CallFails("embed", error)

EmbedMalformed == phase = "embedding" /\ CallMalformed("embed")

Embed ==
    /\ phase = "embedding"
    /\ Called("embed")
    /\ failures' = 0
    /\ phase' = "searching"
    /\ UNCHANGED <<retrieval, attempt, grounding, corrections, result, response, corpus>>

\* The database, before the search or when citations are looked up.
DatabaseFails ==
    /\ phase = "searching" \/ (phase = "citing" /\ result.citations # <<>>)
    /\ Respond(Error(500))
    /\ UNCHANGED <<retrieval, attempt, grounding, corrections, result, corpus, calls, failures>>

\* The nearest chunks (the index is approximate: any of them) in the order of
\* their similarity, without those below the threshold.
Search ==
    /\ phase = "searching"
    /\ \E found \in BoundedSeq(Chunks, PoolSize) : \E above \in 0..Len(found) :
        /\ IsInjective(found)
        /\ ranked' = SubSeq(found, 1, above)
    /\ phase' = "selecting"
    /\ UNCHANGED <<walked, kept, context, tokens>>
    /\ UNCHANGED <<attempt, grounding, corrections, result, response, corpus, calls, failures>>

\* mutant: compared with every better chunk, dropped ones too.
NearDuplicate_OfAny(c) == \E i \in 1..walked : {c, ranked[i]} \in Near

NearDuplicate(c) == \E i \in DOMAIN kept : {c, kept[i]} \in Near

\* mutant: a near-duplicate is skipped before the loop moves on.
Compare_Stuck ==
    /\ phase = "selecting" /\ walked < Len(ranked)
    /\ ~NearDuplicate(ranked[walked + 1])
    /\ walked' = walked + 1
    /\ kept' = Append(kept, ranked[walked + 1])
    /\ UNCHANGED <<phase, ranked, context, tokens>>
    /\ UNCHANGED <<attempt, grounding, corrections, result, response, corpus, calls, failures>>

\* One turn of the loop over the candidates.
Compare ==
    /\ phase = "selecting" /\ walked < Len(ranked)
    /\ walked' = walked + 1
    /\ kept' = IF NearDuplicate(ranked[walked + 1]) THEN kept ELSE Append(kept, ranked[walked + 1])
    /\ UNCHANGED <<phase, ranked, context, tokens>>
    /\ UNCHANGED <<attempt, grounding, corrections, result, response, corpus, calls, failures>>

\* mutant: the budget is looked at before the chunk is counted.
Fits_Full(c) == context = <<>> \/ tokens <= MaxTokens

\* The best chunk is taken whatever its size.
Fits(c) == context = <<>> \/ tokens + Size[c] <= MaxTokens

MoreToTake == Len(context) < Len(kept) /\ Fits(kept[Len(context) + 1])

\* One turn of the loop over the kept ones.
Take ==
    /\ phase = "selecting" /\ walked = Len(ranked) /\ MoreToTake
    /\ context' = Append(context, kept[Len(context) + 1])
    /\ tokens' = tokens + Size[kept[Len(context) + 1]]
    /\ UNCHANGED <<phase, ranked, walked, kept>>
    /\ UNCHANGED <<attempt, grounding, corrections, result, response, corpus, calls, failures>>

\* generate_answer begins; without chunks it answers without the model.
Begin ==
    /\ phase = "selecting" /\ walked = Len(ranked) /\ ~MoreToTake
    /\ IF context = <<>>
       THEN Respond(Says("nothing_relevant", <<>>)) /\ UNCHANGED <<attempt, grounding>>
       ELSE phase' = "asking" /\ attempt' = 0 /\ grounding' = 1 /\ UNCHANGED response
    /\ UNCHANGED <<retrieval, corrections, result, corpus, calls, failures>>

AskFails(error) == phase = "asking" /\ CallFails("chat", error)

AskMalformed == phase = "asking" /\ CallMalformed("chat")

\* The entries of seq at the indices in I, in their order.
Picked(seq, I) ==
    [k \in 1..Cardinality(I) |-> seq[CHOOSE i \in I : Cardinality(I \cap 1..i) = k]]

\* mutant: a repeated citation stays.
MembershipValid_Repeats(cited) == Picked(cited, {i \in DOMAIN cited : cited[i] \in ToSet(context)})

\* Where a reply first names each retrieved chunk that it cites.
FirstMentions(cited) ==
    {i \in DOMAIN cited : cited[i] \in ToSet(context) /\ \A j \in 1..(i - 1) : cited[j] # cited[i]}

\* The citations that name a retrieved chunk, once each, in the reply's order.
MembershipValid(cited) == Picked(cited, FirstMentions(cited))

\* The chunk has two of the reply's salient words, or all when there are fewer.
Supported(words, c) ==
    \/ Cardinality(words \cap Text[c]) >= MinOverlap
    \/ words \subseteq Text[c]

\* A lone citation must support the reply; several are not told apart.
Unsupported(reply) ==
    {c \in ToSet(reply.cited) \cap ToSet(context) :
        Len(MembershipValid(reply.cited)) = 1 /\ ~Supported(reply.words, c)}

ValidCitations(reply) ==
    IF reply.not_in_corpus \/ Unsupported(reply) # {} THEN <<>> ELSE MembershipValid(reply.cited)

\* mutant: the model is told of invented citations only.
Rejected_Invented(reply) == ToSet(reply.cited) \ ToSet(context)

Rejected(reply) == (ToSet(reply.cited) \ ToSet(context)) \cup Unsupported(reply)

Ungrounded(reply) == ~reply.not_in_corpus /\ ValidCitations(reply) = <<>>

Accept(reply) ==
    /\ phase = "asking" /\ ~Ungrounded(reply)
    /\ Called("chat")
    /\ failures' = 0
    /\ result' = [words |-> reply.words, citations |-> ValidCitations(reply), not_in_corpus |-> reply.not_in_corpus]
    /\ phase' = "citing"
    /\ UNCHANGED <<retrieval, attempt, grounding, corrections, response, corpus>>

LastReply == grounding >= MaxGrounding

\* mutant: the tries of the last reply count against the next.
Correct_KeepsTries(reply) ==
    /\ phase = "asking" /\ Ungrounded(reply) /\ ~LastReply
    /\ Called("chat")
    /\ failures' = 0
    /\ corrections' = Append(corrections, [cited |-> ToSet(reply.cited), rejected |-> Rejected(reply)])
    /\ grounding' = grounding + 1
    /\ UNCHANGED <<phase, retrieval, attempt, result, response, corpus>>

\* The model is told which citations were rejected and asked again, with a new
\* set of tries.
Correct(reply) ==
    /\ phase = "asking" /\ Ungrounded(reply) /\ ~LastReply
    /\ Called("chat")
    /\ failures' = 0
    /\ corrections' = Append(corrections, [cited |-> ToSet(reply.cited), rejected |-> Rejected(reply)])
    /\ grounding' = grounding + 1
    /\ attempt' = 0
    /\ UNCHANGED <<phase, retrieval, result, response, corpus>>

\* mutant: the words of an empty search.
GiveUp_SameWords(reply) ==
    /\ phase = "asking" /\ Ungrounded(reply) /\ LastReply
    /\ Called("chat")
    /\ failures' = 0
    /\ Respond(Says("nothing_relevant", <<>>))
    /\ UNCHANGED <<retrieval, attempt, grounding, corrections, result, corpus>>

\* UngroundedAnswerError, which is answered and is no error.
GiveUp(reply) ==
    /\ phase = "asking" /\ Ungrounded(reply) /\ LastReply
    /\ Called("chat")
    /\ failures' = 0
    /\ Respond(Says("inconclusive", <<>>))
    /\ UNCHANGED <<retrieval, attempt, grounding, corrections, result, corpus>>

\* mutant: an answer with a chunk that is gone is shown without citations
LookedUp_AllOrNothing ==
    IF \E c \in ToSet(result.citations) : corpus[c] = "gone" THEN <<>> ELSE result.citations

\* _lookup_citations: what is stored now, in the reply's order; a chunk that is
\* gone is skipped.
LookedUp ==
    Picked(result.citations, {i \in DOMAIN result.citations : corpus[result.citations[i]] # "gone"})

LookUpCitations ==
    /\ phase = "citing"
    /\ Respond(Says(IF result.not_in_corpus THEN "not_covered" ELSE "answer",
                    [i \in DOMAIN LookedUp |-> [chunk |-> LookedUp[i], row |-> corpus[LookedUp[i]]]]))
    /\ UNCHANGED <<retrieval, attempt, grounding, corrections, result, corpus, calls, failures>>

\* An upload of the same bytes under another kind writes a text under a stored
\* id (pipeline.py:131); rows are deleted by hand at most.
Disturb(c) ==
    /\ c \in Touchable /\ phase \in {"asking", "citing"} /\ corpus[c] # "gone"
    /\ \E row \in {"rewritten", "gone"} : corpus' = [corpus EXCEPT ![c] = row]
    /\ UNCHANGED <<phase, retrieval, attempt, grounding, corrections, result, response, calls, failures>>

Step ==
    \/ Embed \/ EmbedMalformed \/ DatabaseFails
    \/ Search \/ Compare \/ Take \/ Begin
    \/ AskMalformed \/ LookUpCitations
    \/ \E error \in Retryable \cup {"refused"} : EmbedFails(error) \/ AskFails(error)
    \/ \E reply \in Replies : Accept(reply) \/ Correct(reply) \/ GiveUp(reply)

Next == Step \/ \E c \in Chunks : Disturb(c)

\* Every call comes back or times out, and the thread goes on.
Spec == Init /\ [][Next]_vars /\ WF_vars(Step)

-----------------------------------------------------------------------------
(* Properties. *)

TypeOK ==
    /\ phase \in Phases
    /\ {ranked, kept, context} \subseteq Seq(Chunks)
    /\ walked \in 0..Len(ranked) /\ tokens \in Nat
    /\ attempt \in 0..MaxAttempts /\ grounding \in 0..MaxGrounding
    /\ corrections \in Seq([cited : SUBSET (Chunks \cup {Junk}), rejected : SUBSET (Chunks \cup {Junk})])
    /\ result \in [words : Answers \cup {{}}, citations : Seq(Chunks), not_in_corpus : BOOLEAN]
    /\ response.status \in {0, 200, 429, 500, 502, 504}
    /\ response.citations \in Seq([chunk : Chunks, row : {"as_found", "rewritten"}])
    /\ corpus \in [Chunks -> {"as_found", "rewritten", "gone"}]
    /\ calls \in [embed : Nat, chat : Nat] /\ failures \in Nat

\* What the chunks add to a question, in tokens.
TotalSize(chunks) ==
    LET sum[n \in 0..Len(chunks)] == IF n = 0 THEN 0 ELSE sum[n - 1] + Size[chunks[n]]
    IN  sum[Len(chunks)]

\* What is put to the model has no two near-duplicates and fits the budget, or
\* is one chunk that alone exceeds it (retrieval.py:31-36).
ContextFits ==
    /\ \A i, j \in DOMAIN context : i # j => {context[i], context[j]} \notin Near
    /\ \/ TotalSize(context) <= MaxTokens
       \/ Len(context) = 1

\* Nothing relevant is kept from the model without a reason: a better chunk
\* that says nearly the same was kept, or the budget had no room for it or for
\* one before it (retrieval.py:25-36).
NothingLostUnseen ==
    phase = "asking" =>
        \A i \in DOMAIN ranked :
            \/ ranked[i] \in ToSet(context)
            \/ \E j \in 1..(i - 1) : {ranked[i], ranked[j]} \in Near /\ ranked[j] \in ToSet(kept)
            \/ \E j \in 1..i :
                    /\ ranked[j] \in ToSet(kept) \ ToSet(context)
                    /\ tokens + Size[ranked[j]] > MaxTokens

\* generation.py:461-464, "worst case max_attempts x max_grounding_attempts":
\* each attempt at grounding has its own tries, and there are no others.
CallsBounded ==
    /\ calls.embed <= MaxAttempts
    /\ calls.chat <= MaxAttempts * MaxGrounding

\* The caller is told of a rate limit or a timeout only after every try of one
\* call failed: earlier failures and earlier replies do not count against it
\* (query.py:146-163, "after retries exhausted").
Patience == response.status \in {429, 504} => failures = MaxAttempts

\* The counters of the two nested loops never leak into one another: no try too
\* many is paid for, and none too few is made (generation.py:507-531).
TriesCounted == CallsBounded /\ Patience

\* The three ways to have no answer are told apart (query.py:43-58): nothing
\* relevant was found, and the model was not asked; the model says so; or no
\* citation could be trusted, after every attempt was made.
SilenceIsExplained ==
    /\ response.says = "nothing_relevant" <=> (phase = "answered" /\ response.status = 200 /\ calls.chat = 0)
    /\ response.says = "nothing_relevant" => ranked = <<>>
    /\ response.says = "inconclusive" => context # <<>> /\ Len(corrections) = MaxGrounding - 1
    /\ response.says \in {"nothing_relevant", "not_covered", "inconclusive"} => response.citations = <<>>

\* An answer cites chunks that were put to the model, each once, at least one; and one
\* that rests on a single chunk shares the words it must with it
\* (generation.py:638-661).
GroundedAnswers ==
    response.says = "answer" =>
        /\ result.citations # <<>> /\ IsInjective(result.citations)
        /\ ToSet(result.citations) \subseteq ToSet(context)
        /\ Cardinality(ToSet(result.citations)) = 1 => Supported(result.words, result.citations[1])

\* The caller of an answer sees each cited chunk that is still stored when the citations
\* are looked up, as it is stored then, and nothing else, in the reply's order,
\* whatever became of other chunks since retrieval (query.py:191-196, 210-221).
EveryCitationShown ==
    response.says = "answer" =>
        /\ ToSet(response.citations) =
              {[chunk |-> c, row |-> corpus[c]] : c \in {d \in ToSet(result.citations) : corpus[d] # "gone"}}
        /\ \A l \in DOMAIN response.citations : \A k \in 1..(l - 1) :
              \E j \in DOMAIN result.citations : \E i \in 1..(j - 1) :
                  /\ response.citations[k].chunk = result.citations[i]
                  /\ response.citations[l].chunk = result.citations[j]

\* Before it is asked again the model is told all that it cited: a reply with a
\* citation worth keeping is never thrown away (generation.py:559-577).
CorrectionsAreComplete ==
    \A i \in DOMAIN corrections : corrections[i].rejected = corrections[i].cited

\* Every question gets its response.
EveryQuestionEnds == <>(phase = "answered")
=============================================================================
