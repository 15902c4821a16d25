----------------------------- MODULE TurnContext -----------------------------
(* What a model is shown for a turn, and what its answer may cite: the scope  *)
(* of the retrieval (services/chat.py, services/retrieval.py), the choice of  *)
(* passages (conversations/citations.py), the memory block                    *)
(* (memory/context.py), the prompt (conversations/context.py) and the         *)
(* citations beside the answer; and the same for a single RAG query           *)
(* (services/rag.py). A document may be archived or superseded while the      *)
(* query is embedded.                                                         *)
(*                                                                            *)
(* Lengths are multiples of a unit of text; a header, a separator and the     *)
(* fixed words around a block are part of its length.                         *)
EXTENDS Naturals, Sequences, Functions

CONSTANTS
  Documents,   \* active, ready documents of the user
  Passages,    \* [doc, text, size]
  Near,        \* sets of texts that nearly repeat each other
  Asks,        \* requests
  Limits,      \* settings
  TopK         \* results of the vector search

VARIABLES
  pc,
  ask,         \* the request
  limits,      \* the settings it meets
  eligible,    \* documents that are ready, active and not archived
  found,       \* what the search returned, best first
  prompt,      \* what the model is shown
  cited,       \* citations, [1] first
  markers      \* citation numbers left in the answer

vars == <<pc, ask, limits, eligible, found, prompt, cited, markers>>

\* The lengths of the complete messages before the request, oldest first; none is empty.
History == Seq(Nat \ {0})

\* docs: what the request selects ("all" and "none" as in document_ids None and []);
\* memories: the lengths of those retrieved, most relevant first.
Ask == [kind : {"chat", "rag"}, scope : {"all", "none", "some"}, docs : SUBSET Documents, current : Nat,
        history : History, summary : Nat, memories : Seq(Nat)]
NoAsk == [kind |-> "chat", scope |-> "none", docs |-> {}, current |-> 0, history |-> <<>>, summary |-> 0,
          memories |-> <<>>]
NoLimits == [messages |-> 0, history |-> 0, context |-> 0, rag |-> 0, memory |-> 0]
NoPrompt == [rag |-> <<>>, whole |-> 0, ragSize |-> 0, history |-> 0, summary |-> 0, memory |-> 0]

\* What the constants may be; Request assumes it of its instance.
ContextConstants ==
  /\ \A p \in Passages : p.size \in Nat
  /\ \A a \in Asks : a \in Ask
  /\ \A l \in Limits : l \in [messages : Nat, history : Nat, context : Nat, rag : Nat, memory : Nat]

\* The length of the first k, of all, and of the last k.
Leading(sizes, k) ==
  LET sum[i \in 0..Len(sizes)] == IF i = 0 THEN 0 ELSE sum[i - 1] + sizes[i]
  IN sum[k]
Total(sizes) == Leading(sizes, Len(sizes))
Trailing(sizes, k) == Total(sizes) - Leading(sizes, Len(sizes) - k)

Sizes(passages) == [i \in DOMAIN passages |-> passages[i].size]
Size(passages) == Total(Sizes(passages))

-----------------------------------------------------------------------------
(* Retrieval                                                                  *)

Init ==
  /\ pc = "idle" /\ ask = NoAsk /\ limits = NoLimits /\ eligible = Documents
  /\ found = <<>> /\ prompt = NoPrompt /\ cited = <<>> /\ markers = {}

Send(a, settings) ==
  /\ pc = "idle"
  /\ ask' = a /\ limits' = settings /\ pc' = "scope"
  /\ UNCHANGED <<eligible, found, prompt, cited, markers>>

\* Another request archives the document, or activates another version.
Withdraw(d) ==
  /\ pc \in {"scope", "embedding"} /\ d \in eligible
  /\ eligible' = eligible \ {d}
  /\ UNCHANGED <<pc, ask, limits, found, prompt, cited, markers>>

\* General chat. (A RAG query with an empty list of documents searches all of them.)
General == ask.kind = "chat" /\ ask.scope = "none"

NoRetrieval ==
  /\ pc = "scope" /\ General
  /\ pc' = "found"
  /\ UNCHANGED <<ask, limits, eligible, found, prompt, cited, markers>>

\* Every selected document must be there, once each.
CheckScope ==
  /\ pc = "scope" /\ ~General
  /\ pc' = IF ask.scope = "some" /\ ~(ask.docs \subseteq eligible) THEN "notFound" ELSE "embedding"
  /\ UNCHANGED <<ask, limits, eligible, found, prompt, cited, markers>>

\* Mutant: the search relies on the check.
SearchedUnchecked == IF ask.scope = "some" THEN ask.docs ELSE Documents

Searched == IF ask.scope = "some" THEN ask.docs \cap eligible ELSE eligible

\* The rows of the join, ordered by similarity, each at most once, above the threshold.
Search(rows) ==
  /\ pc = "embedding"
  /\ \A i \in DOMAIN rows : rows[i].doc \in Searched
  /\ found' = rows /\ pc' = "found"
  /\ UNCHANGED <<ask, limits, eligible, prompt, cited, markers>>

EmbeddingFails ==
  /\ pc = "embedding"
  /\ pc' = "error"
  /\ UNCHANGED <<ask, limits, eligible, found, prompt, cited, markers>>

-----------------------------------------------------------------------------
(* conversations/citations.py                                                 *)

NearDuplicate(p, q) == p.text = q.text \/ \E group \in Near : {p.text, q.text} \subseteq group

Dedupe(passages) ==
  LET kept[i \in 0..Len(passages)] ==
        IF i = 0 THEN <<>>
        ELSE LET before == kept[i - 1]
             IN IF \E j \in DOMAIN before : NearDuplicate(passages[i], before[j]) THEN before
                ELSE Append(before, passages[i])
  IN kept[Len(passages)]

Fitting(passages, max) ==
  LET kept[i \in 0..Len(passages)] ==
        IF i = 0 THEN <<>>
        ELSE LET before == kept[i - 1]
             IN IF Size(before) + passages[i].size > max THEN before ELSE Append(before, passages[i])
  IN kept[Len(passages)]

\* select_context_chunks: whole passages only; one that does not fit is left out, later ones may.
SelectContext(passages, max) == Fitting(Dedupe(passages), max)

\* normalize_grounded_answer: the model may write any number.
ValidMarkers(written, count) == {n \in written : n \in 1..count}

-----------------------------------------------------------------------------
(* memory/context.py, conversations/context.py                                *)

\* Leading memories as long as they fit; the first one is cut if it does not.
MemoryBlock(memories, max) ==
  LET fits == {k \in 1..Len(memories) : Leading(memories, k) <= max}
  IN IF memories = <<>> THEN 0
     ELSE IF fits = {} THEN max
     ELSE Leading(memories, CHOOSE k \in fits : \A l \in fits : l <= k)

\* How many of the last messages are taken, from the end backwards, until one would exceed the
\* limit; the newest is taken whatever its length if atLeastOne.
TakeBack(history, last, max, atLeastOne) ==
  LET taken[k \in 0..last] ==
        IF k = 0 THEN 0
        ELSE LET before == taken[k - 1]
             IN IF before < k - 1 \/ (Trailing(history, k) > max /\ ~(atLeastOne /\ k = 1)) THEN before
                ELSE k
  IN taken[last]

Recent(history) ==
  TakeBack(history, IF Len(history) < limits.messages THEN Len(history) ELSE limits.messages,
           limits.history, TRUE)

\* A context block cut to a number of characters shows its leading passages only.
Cut(rag, size) ==
  LET whole == {k \in 0..Len(rag) : Leading(Sizes(rag), k) <= size}
  IN [passages |-> rag, whole |-> CHOOSE k \in whole : \A l \in whole : l <= k,
      size |-> IF Size(rag) < size THEN Size(rag) ELSE size]

Rest(max, used) == IF used < max THEN max - used ELSE 0

Reserved(current, rag, memory, summary) == current + rag + memory + summary

\* build: the summary goes first when there is too much, then the end of the context block, and
\* the history gets what is left.
Built(rag, memory) ==
  LET recent   == Recent(ask.history)
      trimmed  == recent < Len(ask.history)
      summary  == IF trimmed THEN ask.summary ELSE 0
      over     == Reserved(ask.current, Size(rag), memory, summary) > limits.context
      kept     == IF over THEN 0 ELSE summary
      shown    == Cut(rag, IF over THEN Rest(limits.context, ask.current + memory) ELSE Size(rag))
      left     == Rest(limits.context, Reserved(ask.current, shown.size, memory, kept))
  IN [rag |-> rag, whole |-> shown.whole, ragSize |-> shown.size, summary |-> kept, memory |-> memory,
      history |-> TakeBack(ask.history, recent, left, FALSE)]

Selected == SelectContext(found, limits.rag)

\* Nothing was found: a fixed answer, whatever else was asked for.
NoContext ==
  /\ pc = "found" /\ ~General /\ Selected = <<>>
  /\ pc' = "noContext"
  /\ UNCHANGED <<ask, limits, eligible, found, prompt, cited, markers>>

BuildChat ==
  /\ pc = "found" /\ ask.kind = "chat"
  /\ General \/ Selected # <<>>
  /\ prompt' = Built(Selected, MemoryBlock(ask.memories, limits.memory))
  /\ cited' = Dedupe(Selected)
  /\ pc' = "prompted"
  /\ UNCHANGED <<ask, limits, eligible, found, markers>>

\* One question and its passages, without a conversation.
BuildRag ==
  /\ pc = "found" /\ ask.kind = "rag" /\ Selected # <<>>
  /\ prompt' = [NoPrompt EXCEPT !.rag = Selected, !.whole = Len(Selected), !.ragSize = Size(Selected)]
  /\ cited' = Selected
  /\ pc' = "prompted"
  /\ UNCHANGED <<ask, limits, eligible, found, markers>>

Answer(written) ==
  /\ pc = "prompted"
  /\ markers' = ValidMarkers(written, Len(cited))
  /\ pc' = "answered"
  /\ UNCHANGED <<ask, limits, eligible, found, prompt, cited>>

Rows == {rows \in UNION {[1..n -> Passages] : n \in 0..TopK} : IsInjective(rows)}

Next ==
  \/ \E a \in Asks, settings \in Limits : Send(a, settings)
  \/ \E d \in Documents : Withdraw(d)
  \/ NoRetrieval \/ CheckScope \/ (\E rows \in Rows : Search(rows)) \/ EmbeddingFails
  \/ NoContext \/ BuildChat \/ BuildRag
  \/ \E written \in {{}, 1..(TopK + 1)} : Answer(written)

Spec == Init /\ [][Next]_vars

-----------------------------------------------------------------------------
(* Properties                                                                 *)

TypeOK ==
  /\ pc \in {"idle", "scope", "embedding", "found", "notFound", "error", "noContext", "prompted", "answered"}
  /\ ask \in Asks \cup {NoAsk} /\ limits \in Limits \cup {NoLimits} /\ eligible \subseteq Documents
  /\ Range(found) \cup Range(cited) \subseteq Passages
  /\ markers \subseteq 1..Len(cited)

\* As far as the settings leave room for the largest message, context and memory together.
RoomForAll == ask.current + limits.rag + limits.memory <= limits.context

HistoryFits(k) ==
  LET shown == Trailing(ask.history, k) IN
  /\ k <= limits.messages
  /\ shown <= limits.history \/ k = 1
  /\ prompt.summary + prompt.ragSize + prompt.memory + ask.current + shown <= limits.context

\* A number in the answer stands for the passage that the prompt showed whole under that number,
\* from a selected document that was there when the search ran; a prompt is no longer than the
\* limit unless message and memory alone are; its history is the longest recent part that fits.
PromptMatchesCitations ==
  /\ TypeOK
  /\ \A n \in 1..Len(cited) :
       /\ cited[n] = prompt.rag[n]
       /\ cited[n].doc \in eligible
       /\ ask.scope = "some" => cited[n].doc \in ask.docs
       /\ RoomForAll => n <= prompt.whole
  /\ pc = "prompted" /\ ask.kind = "chat" =>
       /\ \/ prompt.summary + prompt.ragSize + prompt.memory + ask.current <= limits.context
          \/ ask.current + prompt.memory > limits.context
       /\ prompt.history > 0 => HistoryFits(prompt.history)
       /\ \A k \in 1..Len(ask.history) : HistoryFits(k) => k <= prompt.history
=============================================================================
